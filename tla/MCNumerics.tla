----------------------------- MODULE MCNumerics ------------------------------
(* The algorithms without concurrency, each on every input of a small set. *)
EXTENDS Numerics

\* Heights of lenses with up to five radii, none and one included.
SomeLenses == UNION {[1 .. n -> {-2, 0, 1, 3}] : n \in 0 .. 5}
SomePaths  == UNION {[1 .. n -> {-3, 0, 2}] : n \in 0 .. 3}

\* Two values of each field: an engine at either end of its range, off the
\* grid of the wire where it can be, and temperatures below zero.
Ends == [rpm |-> <<Whole(800), <<5999999, 1000>> >>,
         coolant_temp |-> << <<-40001, 1000>>, <<99999, 1000>> >>,
         oil_pressure |-> << <<214999, 1000>>, Whole(630)>>,
         battery_voltage |-> << <<12600, 1000>>, <<13799, 1000>> >>,
         fuel_level |-> <<Whole(0), <<99999, 1000>> >>,
         vehicle_speed |-> <<Whole(0), <<179949, 1000>> >>,
         ambient_temp |-> << <<-3141, 1000>>, Whole(22)>>,
         fault_bitmap |-> <<Whole(0), Whole(15)>>,
         sequence_counter |-> <<Whole(255), Whole(65535)>>,
         uptime |-> <<Whole(65536), Whole(2147483647)>>]
SomeEngines == {[f \in DOMAIN Ends |-> Ends[f][choice[f]]] : choice \in [DOMAIN Ends -> {1, 2}]}

SomePercents == {-256, -1, 0, 1, 44, 100, 101, 128, 200, 255, 256, 300, 356, 357}

\* Up to two drones, up to two goals, on a plane; -4 .. 3 is a quarter of
\* the coordinates.
Spots == {-4, 0, 1, 3} \X {0, 2}
SomeFleets == {<<>>} \cup {<<[id |-> 7, position |-> p, last_wp |-> <<>>]>> : p \in Spots}
          \cup {<<[id |-> 7, position |-> p, last_wp |-> <<>>],
                  [id |-> 3, position |-> r, last_wp |-> <<>>]>> : p, r \in Spots}
SomeGoals == UNION {[1 .. n -> Spots] : n \in 0 .. 2}

\* The network of edge_ai_quadcopter_controller/src/model_data.cc.  A step is
\* within 2 * 10^-8 of input scale * weight scale / output scale; the sigmoid
\* passes the last byte that dequantizes to at most 0.8 at 2353.87.
Network ==
  << [ weights |->
         << 42, 38, 33, -84, 24, -27, -13, 33, 26, 4, -10, -118, 12, 3, -67,
            -8, -18, -17, -19, -88, 14, 34, 2, -14, -57, -14, -1, -53, 3, 78,
            -49, 2, -23, -8, -16, -11, -30, 79, -13, -7, -20, 19, -8, 5, -54,
            33, 2, 19, 31, 36, -18, 5, -110, 20, 1, -4, 45, -3, -6, 16, -93,
            -1, 23, -7, 17, -40, -21, 21, -53, -8, 2, 4, 38, -69, -26, 22,
            -23, 4, 24, -4, 23, -127, -11, 18, 27, 0, -25, 6, 26, -61, -23,
            27, 37, 33, -14, 29, 42, -15, -11, 56, 43, 47, -13, 59, 57, 38,
            -4, 58, 53, 40, 15, 97, 68, 73, 9, 49, 51, 16, -32, 107, 88, 60,
            -13, -15, 31, 16, -7, 50 >>,
      bias |-> << -2217, 340, -3, 128, -8, -1974, -267, -1415 >>,
      step |-> <<1159, 47587>> ],
     [ weights |->
         << -53, -12, 18, 78, 93, 53, -79, -52, -45, -31, 1, 31, 62, -24,
            -127, -1, 79, -9, -100, 21, 75, 4, 82, -83, -42, 22, -2, -41, -51,
            -6, 47, -14 >>,
      bias |-> << 3851, 241, -993, 1104 >>,
      step |-> <<83, 8152>> ],
     [ weights |->
         << 127, 47, -110, 104 >>,
      bias |-> << 2816 >>,
      step |-> <<1, 1>> ] >>
Metres8By255 == <<8, 255>>

\* An arc of w beams, the first of them beam s, sees something at distance d;
\* the others see nothing within 6 m.
Arc(s, w, d) == [i \in 1 .. 16 |-> IF (i - 1 - s) % 16 < w THEN d ELSE Whole(6)]
SomeScans == {Arc(s, w, d) : s \in 0 .. 15, w \in {0, 2, 4, 6, 16}, d \in {<<2, 5>>, <<1, 2>>, Whole(10)}}

\* Variances below, at and above the floor, and those that are no numbers.
SomeVariances == {-1, 0, 1, 2, 3, Inf, NegInf, NaN}
==============================================================================
