---------------------------- MODULE MCAutoTuner ----------------------------
\* Instances of AutoTuner for TLC.
EXTENDS AutoTuner

TwoKnobs == <<2, 2>>
LastThree == {<<1, 3>>}
Shapes == {<<3, 2>>, <<2, 1, 3>>, <<1>>, <<4, 2, 3>>}
============================================================================
