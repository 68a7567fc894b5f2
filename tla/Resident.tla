------------------------------ MODULE Resident ------------------------------
(***************************************************************************)
(* The checked modules a process keeps between compiles                    *)
(* (thrax/src/driver/resident.rs), as the compiles of thrax/src/driver.rs  *)
(* use them: one compile loads the import closure of a root from the       *)
(* sources of the moment, reuses the kept modules that still hold, checks  *)
(* the rest, and at its end keeps what checked cleanly.  A later step      *)
(* lowers a compile's Core, reusing the lowered form of the kept modules.  *)
(*                                                                         *)
(* A source text is its import list and what a check finds in it.  What a  *)
(* check produces is identified by everything it depends on: the text, how *)
(* the module was checked, and the checkers it imported from.              *)
(***************************************************************************)
EXTENDS Integers, FiniteSets, SequencesExt

CONSTANTS Texts,       \* for each module, the texts its file may hold
          Roots,       \* the modules a compile may start from
          Modes,       \* the ways modules are compiled (file, round, session)
          MaxId,       \* a compile starts only while fewer modules were kept
          StaleSlack   \* the 64 of `stale > 2 * modules.len() + 64`

Names == DOMAIN Texts

\* The modules that every other one imports without saying so.
Prelude == {"CORE", "C"}

(***************************************************************************)
(* What a check finds in a text, besides its imports:                      *)
(*   gives   clean, and it defines the name that needing texts use         *)
(*   lacks   clean, without that name                                      *)
(*   needs   uses the name, expecting an import to define it               *)
(*   warns   checks with a warning                                         *)
(*   fails   fails before it exports anything                              *)
(*   torn    its `$ @mod` header does not parse                            *)
(***************************************************************************)
Kinds == {"gives", "lacks", "needs", "warns", "fails", "torn"}

\* The modules that a checker of module m with this text imports from.
Needs(m, text) == ToSet(text.imports) \cup (IF m \in Prelude THEN {} ELSE Prelude)

\* C and CORE import nothing, and no imports form a cycle: in a compile of one
\* prepare_checker panics ("dependency checked first").
ASSUME ResidentAssumption ==
  /\ Modes \subseteq {"file", "round", "session"}
  /\ StaleSlack \in Int /\ MaxId \in Nat /\ IsFiniteSet(Names)
  /\ Prelude \subseteq Names /\ Roots \subseteq Names \ Prelude
  /\ \A m \in Names : \A t \in Texts[m] : t.kind \in Kinds /\ t.imports \in Seq(Names)
  /\ \A m \in Prelude : \A t \in Texts[m] : t.imports = <<>>
  /\ \E depth \in [Names -> 0 .. Cardinality(Names)] : \A m \in Names : \A t \in Texts[m] :
       \A d \in Needs(m, t) : depth[d] < depth[m]

VARIABLES disk,       \* the text of each module's file
          resident,   \* RESIDENT: the kept modules and what they share
          prefix,     \* PREFIX: the lowered kept modules and the ids they had
          compiled,   \* the Core and ids of the last compile not lowered yet
          emptied     \* history: the resident set has been dropped once

vars == <<disk, resident, prefix, compiled, emptied>>

NoCore == [none |-> TRUE]
NoPrefix == [ids |-> <<>>, cores |-> <<>>]
Nothing == [cores |-> <<>>, ids |-> <<>>]
Fresh == [modules |-> {}, stale |-> 0, next_id |-> 0, types |-> 0]

-----------------------------------------------------------------------------
\* The elements of s that T has, in their order.
Sift(s, T) ==
  LET kept[i \in 0 .. Len(s)] ==
        IF i = 0 THEN <<>>
        ELSE IF s[i] \in T THEN Append(kept[i - 1], s[i]) ELSE kept[i - 1]
  IN kept[Len(s)]

(***************************************************************************)
(* Loading: the queue of load_core is a stack, seeded with the root and    *)
(* CORE; C comes last unless a module imports it.                          *)
(***************************************************************************)
Imports(m) == disk[m].imports

\* The imports of `name` are pushed, but for those loaded or in the queue.
Pushed(name, rest, sources) ==
  LET pushed[i \in 0 .. Len(Imports(name))] ==
        IF i = 0 THEN rest
        ELSE LET d == Imports(name)[i]
                 queue == pushed[i - 1]
             IN IF d = name \/ Contains(sources, d) \/ Contains(queue, d)
                THEN queue ELSE Append(queue, d)
  IN pushed[Len(Imports(name))]

\* Pops until a module comes that is not loaded yet, and loads it.
LoadNext(at) ==
  LET i == SelectLastInSeq(at.queue, LAMBDA m : ~Contains(at.sources, m))
  IN IF i = 0 THEN at
     ELSE [queue |-> Pushed(at.queue[i], SubSeq(at.queue, 1, i - 1), at.sources),
           sources |-> Append(at.sources, at.queue[i])]

Load(root) ==
  LET load[n \in 0 .. Cardinality(Names)] ==
        IF n = 0 THEN [queue |-> <<root, "CORE">>, sources |-> <<>>] ELSE LoadNext(load[n - 1])
      found == load[Cardinality(Names)].sources
  IN IF Contains(found, "C") THEN found ELSE Append(found, "C")

\* The modules module m's checker imports from.
Deps(m) == Needs(m, disk[m])

(***************************************************************************)
(* Dependencies first, the prelude ahead of all: the next module is the    *)
(* one found from the first module left by going down to the first import  *)
(* left, as long as there is one.                                          *)
(***************************************************************************)
Deepest(done, m) ==
  LET down[n \in 0 .. Cardinality(Names)] ==
        IF n = 0 THEN m
        ELSE LET v == down[n - 1]
                 i == SelectInSeq(Imports(v), LAMBDA w : ~Contains(done, w))
             IN IF i = 0 THEN v ELSE Imports(v)[i]
  IN down[Cardinality(Names)]

Order(sources) ==
  LET order[n \in 0 .. Len(sources)] ==
        IF n = 0 THEN <<>>
        ELSE LET done == order[n - 1]
                 i == SelectInSeq(sources, LAMBDA v : ~Contains(done, v))
             IN IF i = 0 THEN done ELSE Append(done, Deepest(done, sources[i]))
  IN <<"C", "CORE">> \o Sift(order[Len(sources)], Names \ Prelude)

(***************************************************************************)
(* Checking one module against the checkers it imports.  A lenient check   *)
(* defers a missing name that a strict one reports.  A module whose import *)
(* exported nothing reports no error of its own.                           *)
(***************************************************************************)
Checker(m, text, lenient, session, imported) ==
  LET missing == text.kind = "needs" /\ \A d \in ToSet(text.imports) : imported[d].text.kind # "gives"
      echo == \E d \in ToSet(text.imports) : imported[d].hollow
      failed == text.kind = "fails" \/ (missing /\ ~lenient)
  IN [module |-> m, text |-> text, session |-> session, imported |-> imported,
      deferred |-> missing /\ lenient,
      hollow |-> failed /\ (echo \/ text.kind = "fails"),
      error |-> failed /\ ~echo,
      warning |-> text.kind = "warns"]

\* The checkers brought into module m's own, from those already run.
PrepareChecker(m, check) == [d \in Deps(m) |-> check[d]]

\* Every module's checker in a run that reuses the kept modules `reused`
\* names (a function from module names to kept modules).
Checkers(sources, lenient, session, reused) ==
  LET check[m \in ToSet(sources)] ==
        IF m \in DOMAIN reused THEN reused[m].checker
        ELSE Checker(m, disk[m], lenient, m \in session, PrepareChecker(m, check))
  IN check

\* The Core of a module reads its own checker and the declarations of the
\* modules it imports.
Core(c) == [module |-> c.module, text |-> c.text, session |-> c.session,
            deferred |-> c.deferred,
            decls |-> [d \in DOMAIN c.imported |-> c.imported[d].text]]

-----------------------------------------------------------------------------
(***************************************************************************)
(* Which kept modules a run reuses: same name and source, checked strictly *)
(* enough, every module they imported from reused in turn.  `position`     *)
(* takes the oldest match.                                                 *)
(***************************************************************************)
\* Mutant: a strict check reuses what a lenient one deferred.
CandidatesDeferred(res, m, lenient, session) ==
  {k \in res.modules : k.name = m /\ k.src = disk[m] /\ m \notin session}

Candidates(res, m, lenient, session) ==
  {k \in res.modules : k.name = m /\ k.src = disk[m] /\ (lenient \/ ~k.deferred) /\ m \notin session}

Oldest(ks) == CHOOSE k \in ks : \A j \in ks : k.id <= j.id

\* Mutant: what a candidate imported from is not looked at.
ReusableByItself(res, sources, lenient, session) ==
  LET cand == {m \in ToSet(sources) : Candidates(res, m, lenient, session) # {}}
  IN [m \in cand |-> Oldest(Candidates(res, m, lenient, session))]

Reusable(res, sources, lenient, session) ==
  LET cand == {m \in ToSet(sources) : Candidates(res, m, lenient, session) # {}}
      picks == {Oldest(Candidates(res, m, lenient, session)) : m \in cand}
      holding == {R \in SUBSET cand : \A k \in picks : k.name \in R => k.deps \subseteq R}
  IN [m \in UNION holding |-> CHOOSE k \in picks : k.name = m]

\* What a run may keep: modules it checked, clean, not the session root, and
\* importing only from modules that are reused or kept themselves.
Keepable(sources, session, reused, checkers) ==
  LET clean == {m \in ToSet(sources) : /\ m \notin DOMAIN reused /\ m \notin session
                                       /\ ~checkers[m].error /\ ~checkers[m].warning}
  IN UNION {K \in SUBSET clean : \A m \in K : Deps(m) \subseteq DOMAIN reused \cup K}

\* Mutant: importers of a replaced module stay.
GoneAlone(res, names) == {k \in res.modules : k.name \in names}

\* The kept modules that go when `names` are checked anew: those of these
\* names, and all that imported from one that goes.
Gone(res, names) ==
  LET staying == {S \in SUBSET res.modules : \A k \in S :
                    k.name \notin names /\ k.deps \cap (names \cup {j.name : j \in res.modules \ S}) = {}}
  IN res.modules \ UNION staying

(***************************************************************************)
(* One ModuleRun over `sources`, from check to drop.  The type store grows *)
(* by one for each module checked and is rewound to the mark of the last   *)
(* module kept.  `desugared`: the compile got as far as desugaring.        *)
(***************************************************************************)
Mark(start, order, reused, m) ==
  start + Cardinality({i \in 1..SelectLastInSeq(order, LAMBDA x : x = m) : order[i] \notin DOMAIN reused})

\* Mutant: the store is rewound to the first module kept.
RewindToFirst(start, order, reused, keep) ==
  Mark(start, order, reused, order[SelectInSeq(order, LAMBDA m : m \in keep)])

Rewind(start, order, reused, keep) ==
  Mark(start, order, reused, order[SelectLastInSeq(order, LAMBDA m : m \in keep)])

\* The kept modules once those of `keep`, in the order of `new`, are in and
\* those that go are out; what was desugared is kept desugared.
TakeIn(res, sources, lenient, reused, desugared, checkers, keep, order, new) ==
  LET lowered == [m \in ToSet(sources) |-> IF desugared THEN Core(checkers[m]) ELSE NoCore]
      old == {IF desugared /\ k \in Range(reused) /\ k.lowered = NoCore
              THEN [k EXCEPT !.lowered = lowered[k.name]] ELSE k : k \in res.modules}
      there == [res EXCEPT !.modules = old]
      gone == Gone(there, keep)
      top(m) == Mark(res.types, order, reused, m)
      kept(i) == [id |-> res.next_id + i, name |-> new[i], src |-> disk[new[i]],
                  deferred |-> lenient /\ checkers[new[i]].deferred, deps |-> Deps(new[i]),
                  lowered |-> lowered[new[i]], checker |-> checkers[new[i]], top |-> top(new[i])]
  IN IF keep = {} THEN there
     ELSE [modules |-> (old \ gone) \cup {kept(i) : i \in DOMAIN new},
           stale |-> res.stale + Cardinality(gone),
           next_id |-> res.next_id + Len(new),
           types |-> Rewind(res.types, order, reused, keep)]

\* The whole of a run: its checkers, what they leave fit to keep, taken in.
DropRun(res, sources, lenient, session, reused, desugared) ==
  LET checkers == Checkers(sources, lenient, session, reused)
      keep == Keepable(sources, session, reused, checkers)
  IN TakeIn(res, sources, lenient, reused, desugared, checkers, keep, Order(sources), Sift(sources, keep))

\* Mutant: only the counters start over.
TakeCounters(res) ==
  IF res.stale > 2 * Cardinality(res.modules) + StaleSlack
  THEN [res EXCEPT !.stale = 0, !.next_id = 0] ELSE res

\* The resident set a run starts from: past a bound on replaced modules the
\* whole set is dropped and rebuilt.
TakeResident(res) ==
  IF res.stale > 2 * Cardinality(res.modules) + StaleSlack THEN Fresh ELSE res

Torn(sources) == \E i \in DOMAIN sources : disk[sources[i]].kind = "torn"

Errors(sources, reused, checkers) ==
  {m \in ToSet(sources) : m \notin DOMAIN reused /\ checkers[m].error}

\* The modules in the order a compile hands them on: root first.
RootFirst(root, sources) == <<root>> \o Sift(sources, Names \ {root})

\* Each module's Core: the kept one, if it has been desugared already.
Desugar(order, reused, checkers) ==
  [i \in DOMAIN order |->
     IF order[i] \in DOMAIN reused /\ reused[order[i]].lowered # NoCore
     THEN reused[order[i]].lowered ELSE Core(checkers[order[i]])]

KeptIds(order, reused) ==
  [i \in DOMAIN order |-> IF order[i] \in DOMAIN reused THEN reused[order[i]].id ELSE 0]

-----------------------------------------------------------------------------
Init == /\ disk \in {d \in [Names -> UNION Range(Texts)] : \A m \in Names : d[m] \in Texts[m]}
        /\ resident = Fresh
        /\ prefix = NoPrefix
        /\ compiled = Nothing
        /\ emptied = FALSE

\* A file is edited, by hand or by a metaprogram's splice.
Edit(m) == /\ \E t \in Texts[m] \ {disk[m]} : disk' = [disk EXCEPT ![m] = t]
           /\ UNCHANGED <<resident, prefix, compiled, emptied>>

\* How a compile ends: a lenient round that failed is checked again, strictly,
\* for its report.
Compiled(root, lenient, sources, session, res, reused, checkers, failed, once, again) ==
  LET twice == DropRun(again, sources, FALSE, session, Reusable(again, sources, FALSE, session), FALSE)
      order == RootFirst(root, sources)
  IN /\ (emptied' = (emptied \/ res # resident \/ (failed /\ lenient /\ ~Torn(sources) /\ again # once)))
     /\ resident' = IF Torn(sources) THEN res ELSE IF failed /\ lenient THEN twice ELSE once
     /\ compiled' = IF Torn(sources) \/ failed THEN Nothing
                    ELSE [cores |-> Desugar(order, reused, checkers), ids |-> KeptIds(order, reused)]

(***************************************************************************)
(* A compile of `root`, lenient (an expansion round) or strict, as a       *)
(* session (the shell, @eval) or not.                                      *)
(***************************************************************************)
Compile(root, lenient, asSession) ==
  LET sources == Load(root)
      session == IF asSession THEN {root} ELSE {}
      res == TakeResident(resident)
      reused == Reusable(res, sources, lenient, session)
      checkers == Checkers(sources, lenient, session, reused)
      failed == Errors(sources, reused, checkers) # {}
      once == DropRun(res, sources, lenient, session, reused, ~failed)
  IN /\ resident.next_id < MaxId
     /\ Compiled(root, lenient, sources, session, res, reused, checkers, failed, once, TakeResident(once))
     /\ UNCHANGED <<disk, prefix>>

CompileFile(root) == "file" \in Modes /\ Compile(root, FALSE, FALSE)
CompileRound(root) == "round" \in Modes /\ Compile(root, TRUE, FALSE)
CompileSession(root) == "session" \in Modes /\ Compile(root, FALSE, TRUE)

\* The modules of a compile that are kept ones: their ids, their Core.
Ids(c) == Sift(c.ids, Nat \ {0})
KeptCores(c) == [j \in 1..Len(Ids(c)) |->
                   c.cores[CHOOSE i \in DOMAIN c.ids : c.ids[i] = Ids(c)[j]]]

\* Mutant: a prefix of as many modules will do.
LowerByCount ==
  /\ compiled # Nothing
  /\ prefix' = IF Len(Ids(compiled)) \in {0, Len(prefix.ids)} THEN [prefix EXCEPT !.ids = Ids(compiled)]
               ELSE [ids |-> Ids(compiled), cores |-> KeptCores(compiled)]
  /\ compiled' = Nothing
  /\ UNCHANGED <<disk, resident, emptied>>

\* The last compile is lowered: its kept modules as a prefix, found by their
\* ids or made, the rest onto it.
LowerReusing ==
  /\ compiled # Nothing
  /\ prefix' = IF Ids(compiled) \in {<<>>, prefix.ids} THEN prefix
               ELSE [ids |-> Ids(compiled), cores |-> KeptCores(compiled)]
  /\ compiled' = Nothing
  /\ UNCHANGED <<disk, resident, emptied>>

Next == \/ \E m \in Names : Edit(m)
        \/ \E root \in Roots : CompileFile(root) \/ CompileRound(root) \/ CompileSession(root)
        \/ LowerReusing

Spec == Init /\ [][Next]_vars

-----------------------------------------------------------------------------
\* The kept modules are well formed, their ids below the next one, and the
\* store is as long as the marks taken of it.
TypeOK ==
  /\ \A m \in Names : disk[m] \in Texts[m]
  /\ resident.stale \in Nat /\ resident.next_id \in Nat /\ resident.types \in Nat
  /\ \A k \in resident.modules : /\ k.id \in 1..resident.next_id
                                 /\ k.name \in Names /\ k.src \in Texts[k.name]
                                 /\ k.deferred \in BOOLEAN /\ k.deps \subseteq Names
  /\ Len(prefix.ids) = Len(prefix.cores) /\ Len(compiled.ids) = Len(compiled.cores)
  /\ emptied \in BOOLEAN

\* Whatever is on disk and however a compile is asked for, what it gets by
\* reusing kept modules is what it would get by checking every module from
\* scratch: the same checkers, the same errors and the same warnings
\* (ModuleRun::check with reusable, and Drop which decides what is kept).
ReuseIsScratch ==
  \A root \in Roots, lenient, asSession \in BOOLEAN :
    LET sources == Load(root)
        session == IF asSession THEN {root} ELSE {}
        reused == Reusable(resident, sources, lenient, session)
        scratch == Checkers(sources, lenient, session, <<>>)
    IN /\ Checkers(sources, lenient, session, reused) = scratch
       /\ \A m \in DOMAIN reused : ~scratch[m].error /\ ~scratch[m].warning

\* The kept modules fit together: one of each name, and every checker a kept
\* one imported from is that of the kept module of this name.  It is what lets
\* `reusable` go by names alone.
KeptCoherent ==
  \A k \in resident.modules :
    /\ \A j \in resident.modules : j.name = k.name => j = k
    /\ \A d \in k.deps : \E j \in resident.modules :
         j.name = d /\ j.checker = k.checker.imported[d]

\* Rewinding the type store at the end of a run never cuts off types of a
\* module that stays kept (the truncate at the end of Drop).
RewindSparesKept == \A k \in resident.modules : k.top <= resident.types

\* Note [Lowering onto a lowered prefix]: the first part of a program must not
\* name any global of the second.  The modules a compile hands on as kept
\* ones import only from each other.
PrefixClosed ==
  \A i \in DOMAIN compiled.ids : compiled.ids[i] # 0 =>
    \A d \in DOMAIN compiled.cores[i].decls : \E j \in DOMAIN compiled.ids :
      /\ compiled.ids[j] # 0 /\ compiled.cores[j].module = d
      /\ compiled.cores[j].text = compiled.cores[i].decls[d]

\* "Unique in the process: what a lowered prefix is keyed by" (Kept.id): when
\* a compile is about to use the cached prefix, the prefix is the lowered form
\* of this compile's own kept modules.
PrefixIsLowering ==
  compiled # Nothing /\ Ids(compiled) = prefix.ids => prefix.cores = KeptCores(compiled)

\* The same, as long as the resident set has not been dropped and rebuilt.
PrefixHoldsUntilEmptied == emptied \/ PrefixIsLowering

=============================================================================
