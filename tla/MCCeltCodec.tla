---------------------------- MODULE MCCeltCodec -----------------------------
EXTENDS CeltCodec

MCEdges == <<0, 1, 2, 4, 6, 10>>
MCVectors == << <<0, 0, 0, 0, 0>>, <<90, 80, 60, 30, 0>>, <<120, 110, 90, 70, 40>>,
                <<180, 170, 160, 140, 120>> >>
MCLevels == [soft |-> <<20, 5, -30, -60, -90>>, loud |-> <<150, 90, 120, 40, 60>>,
             none |-> <<-200, -200, -200, -200, -200>>]
Shape(e) == [i \in 0..4 |-> e[i + 1]]
LevelsOf == [l \in DOMAIN MCLevels |-> Shape(MCLevels[l])]

Marks(a, b) == [i \in 0..4 |-> IF i \in {a, b} THEN 1 ELSE 0]
Plain == [lm |-> 1, start |-> 0, end |-> 5, bytes |-> 16, before |-> 0, vbr |-> FALSE, rate |-> 640,
          level |-> "loud", seed |-> 1, silent |-> FALSE, transient |-> FALSE, complexity |-> 9,
          gain |-> 0, period |-> 15, marks |-> Zero, select |-> FALSE, spread |-> 2,
          boosts |-> Zero, trim |-> 5, intensity |-> 3, dual |-> FALSE, tapset |-> 0, target |-> 640]

MCInputs ==
  {Plain,
   [Plain EXCEPT !.lm = 2, !.bytes = 30, !.transient = TRUE, !.seed = 2, !.marks = Marks(1, 3),
                 !.select = TRUE, !.gain = 3, !.period = 70],
   [Plain EXCEPT !.vbr = TRUE, !.bytes = 40, !.level = "soft", !.seed = 3, !.target = 300,
                 !.boosts = Marks(1, 1), !.gain = 5, !.period = 31],
   [Plain EXCEPT !.vbr = TRUE, !.bytes = 40, !.lm = 0, !.target = -900, !.dual = TRUE, !.level = "soft"],
   [Plain EXCEPT !.vbr = TRUE, !.bytes = 40, !.level = "soft", !.target = 0],
   [Plain EXCEPT !.vbr = TRUE, !.silent = TRUE, !.level = "none"],
   [Plain EXCEPT !.bytes = 5, !.end = 3, !.level = "soft"],
   [Plain EXCEPT !.start = 3, !.bytes = 28, !.before = 6, !.lm = 2, !.transient = TRUE, !.vbr = TRUE,
                 !.target = 100, !.seed = 2],
   [Plain EXCEPT !.start = 3, !.bytes = 20, !.before = 4],
   [Plain EXCEPT !.lm = 2, !.bytes = 30, !.gain = 3, !.period = 70, !.tapset = 2],
   [Plain EXCEPT !.bytes = 22, !.complexity = 0]}

\* Two bandwidths.
BandInputs == {Plain, [Plain EXCEPT !.level = "soft"], [Plain EXCEPT !.end = 3]}
\* A voice, and the same coded at a lower complexity.
Voice == [Plain EXCEPT !.lm = 2, !.bytes = 30, !.gain = 3, !.period = 70]
CheapInputs == {Voice, [Voice EXCEPT !.complexity = 4]}
\* A voice that changes its timbre, frame by frame.
VoiceInputs == {Voice, [Voice EXCEPT !.tapset = 2]}
=============================================================================
