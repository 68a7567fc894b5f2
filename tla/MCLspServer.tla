---------------------------- MODULE MCLspServer ----------------------------
(* Two documents, the second checked only when saved in some runs.         *)
EXTENDS LspServer

CheckSecondOnSave == [u \in Docs |-> IF u = CHOOSE d \in Docs : TRUE THEN "type" ELSE "save"]
CheckAll == [u \in Docs |-> "type"]

AllMethods == [u \in Docs |-> {"didOpen", "didChange", "didSave", "didClose",
                               "didChangeConfiguration", "codeAction", "exit"}]
TypingMethods == [u \in Docs |-> {"didOpen", "didChange"}]

=============================================================================
