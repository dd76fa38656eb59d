------------------------------ MODULE MCReport ------------------------------
(* Instances of Report for TLC: benchmarks of each kind, with a sweep and  *)
(* a scaling run that measured nothing, and READMEs with and without       *)
(* proper markers.                                                         *)
EXTENDS Report

Result(kind, phase, n, real, value) ==
    [kind |-> kind, phase |-> phase, n |-> n, real |-> real, value |-> value]

SomeResults ==
    {Result("sweep", 0, 8, FALSE, 0), Result("sweep", 2, 8, TRUE, 2),
     Result("losstest", 1, 0, TRUE, 1),
     Result("blocked", 4, 0, TRUE, 0),
     Result("scaling", 4, 1, TRUE, 1), Result("scaling", 4, 1, TRUE, 0),
     Result("scaling", 4, 2, TRUE, 2)}

SomeReadmes ==
    {<<"text", "BEGIN", "END", "text", "BEGIN", "END">>, <<"text", "END", "BEGIN">>}
=============================================================================
