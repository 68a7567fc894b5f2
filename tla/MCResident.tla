----------------------------- MODULE MCResident -----------------------------
(* Instances of Resident: which modules there are and what they may hold.  *)
EXTENDS Resident

T(imports, kind) == [imports |-> imports, kind |-> kind]
Library == [m \in {"CORE", "C"} |-> {T(<<>>, "gives")}]

\* ROOT imports MID and LOW or LOW alone; MID imports LOW or is torn.
ChainTexts ==
  Library @@ ("LOW" :> {T(<<>>, "gives"), T(<<>>, "lacks"), T(<<>>, "fails")})
          @@ ("MID" :> {T(<<"LOW">>, "needs"), T(<<>>, "torn")})
          @@ ("ROOT" :> {T(<<"MID", "LOW">>, "needs"), T(<<"LOW">>, "warns")})
ChainRoots == {"ROOT"}

\* A shell that imports one module, whose file keeps changing.
ShellTexts ==
  Library @@ ("LOW" :> {T(<<>>, "gives"), T(<<>>, "lacks")}) @@ ("REPL" :> {T(<<"LOW">>, "lacks")})
ShellRoots == {"REPL"}

SlackScaled == -6
SlackOfCode == 64

=============================================================================
