----------------------------- MODULE LspServer -----------------------------
(***************************************************************************)
(* The language server (thrax/src/lsp/server.rs, with the analyses of      *)
(* lsp/analysis.rs): a reader thread queues the editor's messages, the     *)
(* server's loop handles them in batches and then runs what is due, the    *)
(* checks of dirty documents first, then errors held back while typing,    *)
(* then rankings.                                                          *)
(*                                                                         *)
(* Time is not counted.  A deadline waits until it passes, at any later    *)
(* moment: the delays are options of the user's project, so every order    *)
(* of deadlines can happen.  A document's text is its version and what an  *)
(* analysis makes of it.                                                   *)
(***************************************************************************)
EXTENDS Integers, FiniteSets, SequencesExt

CONSTANTS Docs,       \* the documents of the session
          CheckAs,    \* for each, its `lsp.check` option: "type" or "save"
          Kinds,      \* the kinds of text the editor produces
          Methods,    \* for each document, the messages the editor sends about it
          MaxSent     \* how many messages it sends

(***************************************************************************)
(* What an analysis makes of a text:                                       *)
(*   fine      no errors                                                   *)
(*   several   two errors where the last edit was, one causing the other   *)
(*   unplaced  its modules cannot be loaded, for a reason with no place in *)
(*             the document                                                *)
(*   placed    its modules cannot be loaded, and an import is to blame     *)
(***************************************************************************)
ASSUME LspAssumption ==
  /\ MaxSent \in Nat /\ IsFiniteSet(Docs)
  /\ CheckAs \in [Docs -> {"type", "save"}]
  /\ Kinds \subseteq {"fine", "several", "placed", "unplaced"}
  /\ Methods \in [Docs -> SUBSET {"didOpen", "didChange", "didSave", "didClose",
                                  "didChangeConfiguration", "hover", "codeAction", "exit"}]

VARIABLES editor,   \* the editor: messages sent, and each document as it has it
          inbox,    \* messages the reader has received
          pc,       \* where the server's loop is
          batch,    \* the messages taken from the inbox, not handled yet
          srv       \* Server: open documents, deadlines, what was published

vars == <<editor, inbox, pc, batch, srv>>

None == [none |-> TRUE]
Closed == [closed |-> TRUE]

(***************************************************************************)
(* Server                                                                  *)
(*   open       for each document, Closed or its Open record               *)
(*   dirty      documents to check, the one typed into first               *)
(*   due        "none", "waits" or "ready": the deadline of the checks     *)
(*   grace_due  for each document, the deadline of its held-back errors    *)
(*   rank_due   for each document, the deadline of its ranking             *)
(*   published  the last diagnostics the editor was sent                   *)
(*   saved      history: the version of each document's last didSave       *)
(***************************************************************************)
NoDue == "none"

Init ==
  /\ editor = [sent |-> 0, version |-> [u \in Docs |-> 0], open |-> {}, disk |-> [u \in Docs |-> 0]]
  /\ inbox = <<>> /\ pc = "wait" /\ batch = <<>>
  /\ srv = [open |-> [u \in Docs |-> Closed], dirty |-> <<>>, due |-> NoDue,
            grace_due |-> [u \in Docs |-> None], rank_due |-> [u \in Docs |-> NoDue],
            published |-> [u \in Docs |-> None], saved |-> [u \in Docs |-> 0]]

IsOpen(s, u) == s.open[u] # Closed

-----------------------------------------------------------------------------
(* The handlers' parts, each from server state to server state. *)

\* A document is to be checked when the deadline passes; a later deadline
\* wins.  wait: whether there is a delay.
mark_dirty(s, u, wait) ==
  [s EXCEPT !.dirty = IF Contains(@, u) THEN @ ELSE Append(@, u),
            !.due = IF wait \/ @ = "waits" THEN "waits" ELSE "ready"]

\* mark_dirty of each document of us, in the order of a hash table.
MarkAll(s, us, wait) ==
  [s EXCEPT !.dirty = @ \o SetToSeq(us \ ToSet(@)),
            !.due = IF us = {} THEN @ ELSE IF wait \/ @ = "waits" THEN "waits" ELSE "ready"]

\* What a check of any open document reads of document w: the open buffer, or
\* the file.
Overlay(s, w) == IF IsOpen(s, w) THEN s.open[w].version ELSE editor.disk[w]

(***************************************************************************)
(* A document's base: the modules it imports, checked once and kept while  *)
(* they read as they did.                                                  *)
(*   stamps      how each other document read when the base was built      *)
(*   generation  the checks made over it                                   *)
(*   types       the type store after its mark: whose types are in it, by  *)
(*               the version of the text they were made for                *)
(* Files are written by saves only, never while they are read; a file      *)
(* written again with the same text counts as unchanged.                   *)
(***************************************************************************)
stamp(s, w) == [open |-> IsOpen(s, w), version |-> Overlay(s, w)]
Stamps(s, u) == [w \in Docs \ {u} |-> stamp(s, w)]
\* Mutant: a document that was never opened is not looked at again.
StampsOfOpen(s, u) ==
  \A w \in Docs \ {u} : s.open[u].base.stamps[w].open => s.open[u].base.stamps[w] = stamp(s, w)

stamps_hold(s, u) == s.open[u].base.stamps = Stamps(s, u)

build(s, u) == [stamps |-> Stamps(s, u), generation |-> 0, types |-> <<>>]

\* Texts whose modules load declare the same imports.
Loads(kind) == kind \in {"fine", "several"}

\* A check of a text over a base.  A fresh one is a new generation, and starts
\* by rewinding the types to the base's own.
check_root(b, text, fresh) ==
  [stamps |-> b.stamps,
   generation |-> IF fresh THEN b.generation + 1 ELSE b.generation,
   types |-> Append(IF fresh THEN <<>> ELSE b.types, text)]

\* The version of a text that is tried in place of the document's.
Variant == 0

\* Mutant: a trial is a fresh check.
TrialFresh(b) == check_root(b, Variant, TRUE)

\* A trial over the base of a held snapshot: its types go when it ends, the
\* snapshot's stay.
trial(b) ==
  LET mark == Len(b.types)
      tried == check_root(b, Variant, FALSE)
  IN [tried EXCEPT !.types = SubSeq(@, 1, mark)]

\* Mutant: a successful analysis leaves the failure of an earlier one.
AnalyzeKeepingFailure(s, u) ==
  IF ~IsOpen(s, u) THEN s
  ELSE LET o == s.open[u]
           based == IF ~Loads(o.kind) THEN None
                    ELSE check_root(IF o.base # None /\ stamps_hold(s, u) THEN o.base ELSE build(s, u),
                                    o.version, TRUE)
       IN [s EXCEPT !.open[u] =
             [o EXCEPT !.base = based,
                       !.snapshot = IF Loads(o.kind)
                                    THEN [version |-> o.version, kind |-> o.kind, generation |-> based.generation]
                                    ELSE None,
                       !.failure = IF o.kind = "placed" THEN o.version ELSE @]]

\* The old snapshot goes first; the document is checked over its base, built
\* anew unless it still holds, and the outcome, or the failure if it has a
\* place, is kept with the version.  A load that fails has a new header or an
\* import that changed: it drops the base.
analyze(s, u) ==
  IF ~IsOpen(s, u) THEN s
  ELSE LET o == s.open[u]
           based == IF ~Loads(o.kind) THEN None
                    ELSE check_root(IF o.base # None /\ stamps_hold(s, u) THEN o.base ELSE build(s, u),
                                    o.version, TRUE)
       IN [s EXCEPT !.open[u] =
             [o EXCEPT !.base = based,
                       !.snapshot = IF Loads(o.kind)
                                    THEN [version |-> o.version, kind |-> o.kind, generation |-> based.generation]
                                    ELSE None,
                       !.failure = IF o.kind = "placed" THEN o.version ELSE 0]]

publish_failure(s, u) ==
  IF s.open[u].failure = 0 THEN s
  ELSE [s EXCEPT !.published[u] = [version |-> s.open[u].failure, held |-> FALSE, ranked |-> FALSE]]

\* Mutant: held-back errors get no deadline of their own.
PublishAndForget(s, u) ==
  IF ~IsOpen(s, u) THEN s
  ELSE LET o == s.open[u] IN
       IF o.snapshot = None THEN publish_failure(s, u)
       ELSE [s EXCEPT !.published[u] = [version |-> o.snapshot.version,
                                        held |-> o.typing /\ o.snapshot.kind = "several",
                                        ranked |-> o.focus = o.version]]

\* Send the diagnostics of the last snapshot.  Errors where the document is
\* being typed into are held back, with a deadline for showing them.
publish(s, u) ==
  IF ~IsOpen(s, u) THEN s
  ELSE LET o == s.open[u] IN
       IF o.snapshot = None THEN publish_failure(s, u)
       ELSE [s EXCEPT !.published[u] = [version |-> o.snapshot.version,
                                        held |-> o.typing /\ o.snapshot.kind = "several",
                                        ranked |-> o.focus = o.version],
                      !.grace_due[u] = IF o.typing THEN [edit |-> o.version, ready |-> FALSE] ELSE @]

\* publish of each document of us: each touches what is its own only.
PublishAll(s, us) ==
  [s EXCEPT !.published = [u \in Docs |-> IF u \in us THEN publish(s, u).published[u] ELSE @[u]],
            !.grace_due = [u \in Docs |-> IF u \in us THEN publish(s, u).grace_due[u] ELSE @[u]]]

schedule_rank(s, u) ==
  IF IsOpen(s, u) /\ s.open[u].snapshot # None /\ s.open[u].snapshot.kind = "several"
  THEN [s EXCEPT !.rank_due[u] = "waits"] ELSE s

Rankable(s, u) == /\ IsOpen(s, u) /\ s.open[u].snapshot # None
                  /\ s.open[u].snapshot.version = s.open[u].version
                  /\ s.open[u].snapshot.kind = "several"

\* A trial for each of the two errors, with a hole in its place: the one it
\* clears most others with is the focus.
rank(s, u) ==
  IF Rankable(s, u)
  THEN [s EXCEPT !.open[u].focus = s.open[u].version, !.open[u].base = trial(trial(@))]
  ELSE s

\* What a request about a document's current text starts with.
current(s, u) ==
  IF IsOpen(s, u) /\ (s.open[u].snapshot = None \/ s.open[u].snapshot.version # s.open[u].version)
  THEN publish(analyze(s, u), u) ELSE s

\* A request for code actions: an uncertain fix of the text is tried first.
code_actions(s, u) ==
  LET t == current(s, u)
  IN IF IsOpen(t, u) /\ t.open[u].snapshot # None THEN [t EXCEPT !.open[u].base = trial(@)] ELSE t

-----------------------------------------------------------------------------
(* The handlers. *)

did_open(s, m) ==
  mark_dirty([s EXCEPT !.open[m.uri] = [version |-> m.version, kind |-> m.kind, base |-> None, snapshot |-> None,
                                        typing |-> FALSE, focus |-> 0, failure |-> 0]],
             m.uri, FALSE)

did_change(s, m) ==
  IF ~IsOpen(s, m.uri) THEN s
  ELSE LET t == [s EXCEPT !.open[m.uri] = [@ EXCEPT !.version = m.version, !.kind = m.kind, !.typing = TRUE]]
       IN IF CheckAs[m.uri] = "type" THEN mark_dirty(t, m.uri, TRUE) ELSE t

\* Mutant: only the saved document is checked.
SaveAlone(s, m) ==
  LET t == IF IsOpen(s, m.uri)
           THEN [s EXCEPT !.open[m.uri].typing = FALSE, !.saved[m.uri] = s.open[m.uri].version] ELSE s
  IN mark_dirty(t, m.uri, FALSE)

did_save(s, m) ==
  LET t == IF IsOpen(s, m.uri)
           THEN [s EXCEPT !.open[m.uri].typing = FALSE, !.saved[m.uri] = s.open[m.uri].version] ELSE s
  IN MarkAll(mark_dirty(t, m.uri, FALSE), {u \in Docs : IsOpen(s, u)} \ {m.uri}, TRUE)

\* A queue without a document, which it holds at most once.
Without(q, u) == IF Contains(q, u) THEN RemoveAt(q, CHOOSE i \in 1..Len(q) : q[i] = u) ELSE q

\* Mutant: a closed document stays queued for checking.
CloseInQueue(s, m) == [s EXCEPT !.open[m.uri] = Closed, !.published[m.uri] = None]

\* Mutant: the document's diagnostics stay in the editor.
CloseQuietly(s, m) == [s EXCEPT !.open[m.uri] = Closed, !.dirty = Without(@, m.uri)]

did_close(s, m) ==
  [s EXCEPT !.open[m.uri] = Closed,
            !.dirty = Without(@, m.uri),
            !.published[m.uri] = None]

handle(s, m) ==
  CASE m.method = "didOpen" -> did_open(s, m)
    [] m.method = "didChange" -> did_change(s, m)
    [] m.method = "didSave" -> did_save(s, m)
    [] m.method = "didClose" -> did_close(s, m)
    [] m.method = "didChangeConfiguration" -> MarkAll(s, {u \in Docs : IsOpen(s, u)}, FALSE)
    [] m.method = "hover" -> current(s, m.uri)
    [] m.method = "codeAction" -> code_actions(s, m.uri)
    [] m.method = "exit" -> s

-----------------------------------------------------------------------------
(* The editor (external): it follows the protocol and stops after MaxSent  *)
(* messages.  It writes the file before it says so.                        *)

Send(method, u, kind) ==
  LET v == editor.version[u] + (IF method \in {"didOpen", "didChange"} THEN 1 ELSE 0)
  IN /\ method \in Methods[u] /\ editor.sent < MaxSent
     /\ (method = "didOpen") = (u \notin editor.open) \/ method \in {"didChangeConfiguration", "exit"}
     /\ inbox' = Append(inbox, [method |-> method, uri |-> u, version |-> v, kind |-> kind])
     /\ editor' = [editor EXCEPT !.sent = @ + 1, !.version[u] = v,
                                 !.open = IF method = "didOpen" THEN @ \cup {u}
                                          ELSE IF method = "didClose" THEN @ \ {u} ELSE @,
                                 !.disk[u] = IF method = "didSave" THEN v ELSE @]
     /\ UNCHANGED <<pc, batch, srv>>

EditText == \E u \in Docs, kind \in Kinds, method \in {"didOpen", "didChange"} : Send(method, u, kind)
Notify == \E u \in Docs, method \in {"didSave", "didClose", "hover", "codeAction"} : Send(method, u, "none")
Tell == \E u \in Docs, method \in {"didChangeConfiguration", "exit"} : Send(method, u, "none")

-----------------------------------------------------------------------------
(* Deadlines pass. *)

ExpireDue == /\ srv.due = "waits" /\ srv' = [srv EXCEPT !.due = "ready"]
             /\ UNCHANGED <<editor, inbox, pc, batch>>

ExpireRank(u) == /\ srv.rank_due[u] = "waits" /\ srv' = [srv EXCEPT !.rank_due[u] = "ready"]
                 /\ UNCHANGED <<editor, inbox, pc, batch>>

\* The pause after which the last edit no longer holds errors back.
PauseEnds(u) == /\ IsOpen(srv, u) /\ srv.open[u].typing
                /\ srv' = [srv EXCEPT !.open[u].typing = FALSE]
                /\ UNCHANGED <<editor, inbox, pc, batch>>

\* The same pause, as the deadline set when errors were held back: it is that
\* of the edit before the publication.
ExpireGrace(u) ==
  /\ srv.grace_due[u] # None /\ ~srv.grace_due[u].ready
  /\ IsOpen(srv, u) /\ srv.open[u].typing => srv.grace_due[u].edit < srv.open[u].version
  /\ srv' = [srv EXCEPT !.grace_due[u].ready = TRUE]
  /\ UNCHANGED <<editor, inbox, pc, batch>>

-----------------------------------------------------------------------------
(* The server's loop. *)

Woken == \/ inbox # <<>> \/ srv.due = "ready"
         \/ \E u \in Docs : srv.rank_due[u] = "ready" \/ (srv.grace_due[u] # None /\ srv.grace_due[u].ready)

\* recv or recv_timeout, then whatever else has arrived.
Take == /\ pc = "wait" /\ Woken
        /\ batch' = inbox /\ inbox' = <<>> /\ pc' = "handle"
        /\ UNCHANGED <<editor, srv>>

Handle == /\ pc = "handle" /\ batch # <<>>
          /\ srv' = handle(srv, Head(batch))
          /\ pc' = IF Head(batch).method = "exit" THEN "gone" ELSE "handle"
          /\ batch' = Tail(batch)
          /\ UNCHANGED <<editor, inbox>>

\* tick: the checks, if they are due.
TickChecks == /\ pc = "handle" /\ batch = <<>>
              /\ pc' = IF srv.due = "ready" THEN "check" ELSE "grace"
              /\ srv' = IF srv.due = "ready" THEN [srv EXCEPT !.due = NoDue] ELSE srv
              /\ UNCHANGED <<editor, inbox, batch>>

CheckOne ==
  /\ pc = "check" /\ srv.dirty # <<>>
  /\ LET u == Head(srv.dirty)
         s == schedule_rank(publish(analyze([srv EXCEPT !.dirty = Tail(@)], u), u), u)
         yield == s.dirty # <<>> /\ inbox # <<>>
     IN /\ srv' = IF yield THEN [s EXCEPT !.due = "ready"] ELSE s
        /\ pc' = IF yield THEN "grace" ELSE "check"
  /\ UNCHANGED <<editor, inbox, batch>>

ChecksDone == /\ pc = "check" /\ srv.dirty = <<>> /\ pc' = "grace"
              /\ UNCHANGED <<editor, inbox, batch, srv>>

\* Held-back errors whose grace ran out.
TickGrace ==
  LET ready == {u \in Docs : srv.grace_due[u] # None /\ srv.grace_due[u].ready}
      rest == [srv EXCEPT !.grace_due = [u \in Docs |-> IF u \in ready THEN None ELSE @[u]]]
  IN /\ pc = "grace" /\ pc' = "rank"
     /\ srv' = PublishAll(rest, ready)
     /\ UNCHANGED <<editor, inbox, batch>>

\* Rankings that are due, unless a document is waiting to be checked.
TickRank ==
  LET ready == {u \in Docs : srv.rank_due[u] = "ready"}
      rest == [srv EXCEPT !.rank_due = [u \in Docs |-> IF u \in ready THEN NoDue ELSE @[u]]]
      ranked == {u \in ready : rest.dirty = <<>> /\ Rankable(rest, u)}
      focused == [rest EXCEPT !.open = [u \in Docs |-> IF u \in ranked THEN rank(rest, u).open[u] ELSE @[u]]]
  IN /\ pc = "rank" /\ pc' = "wait"
     /\ srv' = PublishAll(focused, ranked)
     /\ UNCHANGED <<editor, inbox, batch>>

Loop == Take \/ Handle \/ TickChecks \/ CheckOne \/ ChecksDone \/ TickGrace \/ TickRank
Time(u) == PauseEnds(u) \/ ExpireGrace(u)

Next == \/ EditText \/ Notify \/ Tell
        \/ ExpireDue \/ Loop
        \/ \E u \in Docs : ExpireRank(u) \/ Time(u)

\* The server's thread runs while it can, and time passes.  The editor owes
\* nothing.
Fairness == /\ WF_vars(Loop) /\ WF_vars(ExpireDue)
            /\ \A u \in Docs : WF_vars(ExpireRank(u)) /\ WF_vars(PauseEnds(u)) /\ WF_vars(ExpireGrace(u))

Spec == Init /\ [][Next]_vars /\ Fairness

-----------------------------------------------------------------------------
\* The server's state keeps its shape; every version is one the editor sent,
\* and a document is queued for checking once.
TypeOK ==
  /\ pc \in {"wait", "handle", "check", "grace", "rank", "gone"}
  /\ srv.due \in {"none", "waits", "ready"}
  /\ IsInjective(srv.dirty) /\ ToSet(srv.dirty) \subseteq {u \in Docs : IsOpen(srv, u)}
  /\ \A u \in Docs : IsOpen(srv, u) =>
       /\ srv.open[u].version \in 1..editor.version[u]
       /\ srv.open[u].failure \in 0..srv.open[u].version
       /\ srv.open[u].focus \in 0..srv.open[u].version

\* A held snapshot can be asked for types at any time: no check since has
\* rewound its base (the assertion of Snapshot::checker, "a snapshot was used
\* after a newer check rewound its types"), and the store holds the types of
\* the snapshot's own text after those of the base, with nothing left of the
\* trials made since (check_root, trial, and the order of Server::analyze).
SnapshotTypesLive ==
  \A u \in Docs : IsOpen(srv, u) /\ srv.open[u].snapshot # None =>
    LET o == srv.open[u]
    IN /\ o.base # None
       /\ o.base.generation = o.snapshot.generation
       /\ o.base.types = <<o.snapshot.version>>

\* A closed document shows no diagnostics, although deadlines set while it was
\* open still pass (the didClose arm of handle, and publish).
ClosedIsCleared == \A u \in Docs : ~IsOpen(srv, u) => srv.published[u] = None

\* Once a save has been handled, a snapshot of another document that does not
\* reflect it is queued for checking (did_save: "Others may import the saved
\* file"), and the check does not run over a base from before the save
\* (stamps_hold).  What a snapshot sees of the others is what its base read.
SavedIsSeen ==
  \A u, w \in Docs : IsOpen(srv, u) /\ srv.open[u].snapshot # None /\ u # w =>
    srv.open[u].base.stamps[w].version >= srv.saved[w] \/ Contains(srv.dirty, u)

\* While a document stays open, what is published of it never goes back to an
\* earlier version (publish and publish_failure, called from checks, requests,
\* grace and ranking alike).
PublishedForward ==
  [][\A u \in Docs : srv.published[u] # None /\ srv'.published[u] # None
       => srv'.published[u].version >= srv.published[u].version]_vars

\* When the editor falls silent, every open document that is checked as it is
\* typed, and whose load failure if any has a place, ends up with diagnostics
\* for its last version, none of them held back (the debounce of mark_dirty,
\* the early end of tick's loop, grace_due).
Settled(u) ==
  IsOpen(srv, u) /\ CheckAs[u] = "type" /\ srv.open[u].kind # "unplaced" =>
    /\ srv.published[u] # None
    /\ srv.published[u].version = srv.open[u].version
    /\ ~srv.published[u].held
Settles == <>[](pc = "gone" \/ \A u \in Docs : Settled(u))

\* documentation/lsp.md: "When typing pauses and a file has several errors,
\* each error site (up to 8) is replaced by a hole and the file is checked
\* again", so that in the end the error that matters most is known.
Ranked(u) ==
  IsOpen(srv, u) /\ CheckAs[u] = "type" /\ srv.open[u].kind = "several" => srv.published[u] # None /\ srv.published[u].ranked
RankedWhenPaused == <>[](pc = "gone" \/ \A u \in Docs : Ranked(u))

=============================================================================
