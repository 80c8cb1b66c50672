------------------------ MODULE MCKeyboardController ------------------------
(* KeyboardController with a keyboard that knows every set and one that    *)
(* knows set 2 only, and three states its controller may be found in; and  *)
(* with nothing but the first of each.                                      *)
EXTENDS KeyboardController
AllSets == [sets |-> {1, 2, 3}, resends |-> FALSE]
Clean == [irq |-> TRUE, xlat |-> FALSE, ob |-> Empty]
MCKeyboards == {AllSets, [sets |-> {2}, resends |-> TRUE]}
MCPowerOn == {Clean,
              [irq |-> FALSE, xlat |-> TRUE, ob |-> Empty],
              [irq |-> FALSE, xlat |-> TRUE, ob |-> BatOk]}
OneKeyboard == {AllSets}
CleanPowerOn == {Clean}
=============================================================================
