----------------------------- MODULE MCStudies -----------------------------
(* Two areas of two blocks; pools of 20 units that hold two blocks of 5; a  *)
(* cache of two sets of two lines, and instructions whose lines share sets; *)
(* a process whose number has the digits of its child's.                    *)
EXTENDS Studies
row(t, profiled, known) ==
  [temperature |-> t, profiled |-> profiled, two_malloc |-> known]
MCRowTables == {<<row("cold", 1, NaN), row("hot", 2, 2)>>,
                <<row("cold", 1, NaN), row("cold", 3, 1)>>,
                <<row("cold", 3, 1), row("cold", 1, NaN)>>, <<>>}

MCInName == {<<1, 1>>, <<12, 12>>, <<1, 12>>}

ref(a, n) == [addr |-> a, size |-> n]
MCInstructions == {[reads |-> <<ref(0, 1)>>, writes |-> <<ref(8, 1)>>],
                   [reads |-> <<ref(4, 1)>>, writes |-> <<>>],
                   [reads |-> <<>>, writes |-> <<ref(3, 2)>>],
                   [reads |-> <<ref(8, 1)>>, writes |-> <<ref(0, 1)>>]}
=============================================================================
