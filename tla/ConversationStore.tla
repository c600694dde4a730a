-------------------------- MODULE ConversationStore --------------------------
(***************************************************************************)
(* The message store of the P2P agent and the handlers that use it: the    *)
(* active conversation, the messages of the user and the entries of the    *)
(* daemon, the write buffer of a store that is not open yet, the queue     *)
(* that serializes the writes, and the requests of phones to load, name    *)
(* and delete conversations.  Handlers run until their next await.         *)
(*                                                                         *)
(* Conversations are numbered as they are created; 1 exists at the start   *)
(* and 0 is null.  Messages are numbered; a daemon's entry is one too.     *)
(*                                                                         *)
(* The store is what the database answers.  Its inserts and deletes are    *)
(* visible to its own reads at once, and a flush that fails does not take  *)
(* them back: the next flush commits them.                                 *)
(***************************************************************************)
EXTENDS Naturals, Sequences, FiniteSets, Functions

CONSTANTS
  MaxConvs,     \* bound: conversations that are ever created
  MaxMsgs,      \* bound: messages and entries
  MaxEvents,    \* bound: requests of phones and operations that fail or hang
  BufferMax,    \* WRITE_BUFFER_MAX
  DeleteMax     \* the limit of the queries of a deletion, 10000

ASSUME StoreAssumption ==
  /\ {MaxConvs, MaxMsgs, MaxEvents, BufferMax, DeleteMax} \subseteq Nat
  /\ MaxConvs > 0

VARIABLES
  current,    \* currentConversationId
  ready,      \* messageStoreReady
  db,         \* db is not null
  opening,    \* pendingStoreInit: "no", "closing" or "initialising"
  stray,      \* abandoned initMessageStore calls that still await ready()
  buffer,     \* writeBuffer
  flushing,   \* what flushWriteBuffer has taken and not stored yet
  queue,      \* writeQueue: the writes that have not begun
  running,    \* the write that has begun, with what it has left to do
  late,       \* abandoned writes that go on
  title,      \* the conversations in the store: "none", "new", "auto" or "own"
  stored,     \* the messages in the store
  made, of,   \* conversations created; the conversation of a message, or 0
  stage,      \* how far a user message is; "entry" for an entry of the daemon
  first,      \* the keys of firstUserMessage
  naming,     \* conversations whose record autoNameConversation reads
  waiting,    \* conversations whose delete handler waits; 0 for delete-all
  batch,      \* handleDeleteMultipleConversations: what is left, current met
  events,
  named, erased, doomed, disturbed   \* history, see the properties

agent     == <<current, stage, first, naming, waiting, batch>>
opener    == <<ready, db, opening, stray>>
pending   == <<buffer, flushing, of>>
disk      == <<title, stored, named, erased, doomed>>
storeVars == <<agent, opener, pending, queue, running, late, disk, disturbed,
               made, events>>

Convs   == 1..MaxConvs
Msgs    == 1..MaxMsgs
Titles  == {"none", "new", "auto", "own"}
NoBatch == [ids |-> {}, rest |-> <<>>, hit |-> FALSE]
Deletes == {"delete", "clear"}
Names   == {"create", "rename", "name"}

\* Messages accepted for one of the conversations, those apart that wait in the
\* buffer or for their turn of its flush.
Accepted(cs) == {m \in Msgs : of[m] \in cs} \ (Range(buffer) \cup Range(flushing))

\* A write; "before" is history: the messages a deletion is asked to delete.
Write(k, c, m) ==
  [kind |-> k, conv |-> c, msg |-> m,
   before |-> CASE k = "delete" -> Accepted({c})
                [] k = "clear"  -> Accepted(Convs)
                [] OTHER -> {}]

\* flushWriteBuffer awaits the writes of its entries one by one: that of the next.
FlushNext(entries) ==
  IF entries = <<>> THEN <<>>
  ELSE <<Write("put", of[Head(entries)], Head(entries))>>

StoreTypeOK ==
  /\ current \in 0..MaxConvs /\ made \in Convs
  /\ ready \in BOOLEAN /\ db \in BOOLEAN /\ stray \in Nat
  /\ opening \in {"no", "closing", "initialising"}
  /\ buffer \in Seq(Msgs) /\ Len(buffer) <= BufferMax /\ flushing \in Seq(Msgs)
  /\ title \in [Convs -> Titles] /\ stored \subseteq Msgs
  /\ of \in [Msgs -> 0..MaxConvs]
  /\ stage \in [Msgs -> {"new", "ensuring", "ensured", "refused", "creating",
                         "announcing", "sent", "entry"}]
  /\ first \subseteq Convs /\ naming \subseteq Convs /\ waiting \subseteq 0..MaxConvs
  /\ named \in [Convs -> SUBSET Titles]
  /\ batch \in [ids : SUBSET Convs, rest : Seq(Convs), hit : BOOLEAN]
  /\ {erased, disturbed} \subseteq SUBSET Convs /\ doomed \subseteq Msgs

\* initStoreAndResumeConversation: the agent resumes conversation 1, or has just
\* created it, or could not open the store (its attempt may be abandoned).
StoreInit ==
  /\ \/ /\ ready = TRUE /\ db = TRUE /\ stray = 0 /\ current = 1
        /\ \E t \in {"new", "own"} : title = [c \in Convs |-> IF c = 1 THEN t ELSE "none"]
     \/ /\ ready = FALSE /\ db \in BOOLEAN /\ stray = (IF db THEN 1 ELSE 0)
        /\ current = 0
        /\ title = [c \in Convs |-> IF c = 1 THEN "own" ELSE "none"]
  /\ opening = "no" /\ buffer = <<>> /\ flushing = <<>> /\ queue = <<>>
  /\ running = {} /\ late = {} /\ stored = {} /\ made = 1
  /\ of = [m \in Msgs |-> 0] /\ stage = [m \in Msgs |-> "new"]
  /\ first = {} /\ naming = {} /\ waiting = {} /\ batch = NoBatch
  /\ events = 0
  /\ named = [c \in Convs |-> {title[c]} \ {"none"}]
  /\ erased = {} /\ doomed = {} /\ disturbed = {}

Fault == events < MaxEvents /\ events' = events + 1

-----------------------------------------------------------------------------
(* What handlers do synchronously.                                         *)

\* persistEntry
Persist(m, c) ==
  IF c = 0 THEN UNCHANGED <<of, queue, buffer>>
  ELSE /\ of' = [of EXCEPT ![m] = c]
       /\ IF ready
          THEN queue' = Append(queue, Write("put", c, m)) /\ UNCHANGED buffer
          ELSE /\ buffer' = IF Len(buffer) < BufferMax THEN Append(buffer, m)
                                                       ELSE buffer
               /\ UNCHANGED queue

\* autoNameConversation, with the entry that storeUserMessage has just made.
AutoName(c, keys) ==
  IF ready /\ c \in keys
  THEN naming' = naming \cup {c} /\ first' = keys \ {c}
  ELSE first' = keys /\ UNCHANGED naming

\* storeUserMessage, autoNameConversation, and the message goes to the daemon.
Deliver(m) ==
  /\ stage' = [stage EXCEPT ![m] = "sent"]
  /\ Persist(m, current)
  /\ AutoName(current, first \cup ({current} \ {0}))

Creates(m) ==
  /\ stage' = [stage EXCEPT ![m] = "creating"]
  /\ made' = made + 1
  /\ queue' = Append(queue, Write("create", made + 1, m))

-----------------------------------------------------------------------------
(* handleConnMessage: a message of the user.                               *)

Reserved == Cardinality({m \in Msgs : stage[m] \in {"ensuring", "ensured"}})
Fresh(m) == stage[m] = "new" /\ \A k \in Msgs : k < m => stage[k] # "new"

Arrives(m) ==
  /\ Fresh(m) /\ current # 0
  /\ Deliver(m)
  /\ UNCHANGED <<current, waiting, batch, opener, flushing, running, late, disk,
                 disturbed, made, events>>

ArrivesFirst(m) ==
  /\ Fresh(m) /\ current = 0 /\ ready
  /\ made + Reserved < MaxConvs
  /\ Creates(m)
  /\ UNCHANGED <<current, first, naming, waiting, batch, opener, pending, running,
                 late, disk, disturbed, events>>

\* ensureMessageStore: db is nulled before its close is awaited; a second caller
\* shares the attempt of the first.
ArrivesUnready(m) ==
  /\ Fresh(m) /\ current = 0 /\ ~ready
  /\ made + Reserved < MaxConvs
  /\ stage' = [stage EXCEPT ![m] = "ensuring"]
  /\ IF opening # "no" THEN UNCHANGED <<opening, db>>
     ELSE /\ opening' = IF db THEN "closing" ELSE "initialising"
          /\ db' = ~db
  /\ UNCHANGED <<current, first, naming, waiting, batch, ready, stray, pending,
                 queue, running, late, disk, disturbed, made, events>>

\* The await of ensureMessageStore returns: the message goes on with what it was
\* told, whatever has become of the active conversation meanwhile.
Proceeds(m) ==
  \/ /\ stage[m] = "ensured"
     /\ Creates(m)
     /\ UNCHANGED <<current, first, naming, waiting, batch, opener, pending, running,
                    late, disk, disturbed, events>>
  \/ /\ stage[m] \in {"refused", "announcing"}
     /\ Deliver(m)
     /\ UNCHANGED <<current, waiting, batch, opener, flushing, running, late, disk,
                    disturbed, made, events>>

\* A response or another entry of the daemon for a conversation.
EntryArrives(m, c) ==
  /\ Fresh(m) /\ c <= made
  /\ stage' = [stage EXCEPT ![m] = "entry"]
  /\ Persist(m, c)
  /\ \/ AutoName(c, first)
     \/ UNCHANGED <<first, naming>>
  /\ UNCHANGED <<current, waiting, batch, opener, flushing, running, late, disk,
                 disturbed, made, events>>

\* autoNameConversation has read the conversation, or given up.
NameReads(c) ==
  /\ c \in naming /\ naming' = naming \ {c}
  /\ \/ title[c] = "new" /\ queue' = Append(queue, Write("name", c, 0)) /\ UNCHANGED events
     \/ title[c] # "new" /\ UNCHANGED <<queue, events>>
     \/ Fault /\ UNCHANGED queue
  /\ UNCHANGED <<current, stage, first, waiting, batch, opener, pending, running,
                 late, disk, disturbed, made>>

-----------------------------------------------------------------------------
(* Opening the store.                                                      *)

\* pendingStoreInit resolves for every caller and is forgotten.
Answer(told) ==
  /\ opening' = "no"
  /\ stage' = [m \in Msgs |-> IF stage[m] = "ensuring" THEN told ELSE stage[m]]

OpenerUnchanged ==
  UNCHANGED <<current, first, naming, waiting, batch, of, running, late, disk,
              disturbed, made>>

\* close() ends or fails; the next database is created and awaited.
CloseEnds ==
  /\ opening = "closing"
  /\ opening' = "initialising" /\ db' = TRUE
  /\ UNCHANGED <<stage, ready, stray, buffer, flushing, queue, events>> /\ OpenerUnchanged

CloseTimesOut ==
  /\ opening = "closing"
  /\ Fault /\ Answer("refused")
  /\ UNCHANGED <<ready, db, stray, buffer, flushing, queue>> /\ OpenerUnchanged

\* The store is ready, and flushWriteBuffer starts without being awaited.
InitEnds ==
  /\ opening = "initialising"
  /\ ready' = TRUE /\ Answer("ensured")
  /\ flushing' = buffer /\ buffer' = <<>>
  /\ queue' = queue \o FlushNext(buffer)
  /\ UNCHANGED <<db, stray, events>> /\ OpenerUnchanged

\* ready() rejects and db is nulled, or the attempt is abandoned with db set.
InitFails ==
  /\ opening = "initialising"
  /\ Fault /\ Answer("refused")
  /\ \/ db' = FALSE /\ UNCHANGED stray
     \/ stray' = stray + 1 /\ UNCHANGED db
  /\ UNCHANGED <<ready, buffer, flushing, queue>> /\ OpenerUnchanged

\* The ready() of an abandoned attempt: its rejection nulls db, whose ever it is.
StrayEnds ==
  /\ stray > 0 /\ stray' = stray - 1
  /\ \/ UNCHANGED <<db, events>>
     \/ db' = FALSE /\ Fault
  /\ UNCHANGED <<stage, ready, opening, buffer, flushing, queue>> /\ OpenerUnchanged

-----------------------------------------------------------------------------
(* The write queue.  A write that ends, well or not, is answered: Settle is *)
(* what its caller does then; "rest" are the writes behind it.             *)

\* The message that creates a conversation makes it the active one and announces
\* it; if that fails it is sent, but not persisted.
CreateSettles(w, ok, rest) ==
  /\ current' = IF ok THEN w.conv ELSE current
  /\ stage' = [stage EXCEPT ![w.msg] = IF ok THEN "announcing" ELSE "sent"]
  /\ queue' = rest
  /\ UNCHANGED <<first, naming, waiting, batch, pending>>

PutSettles(w, rest) ==
  /\ IF flushing # <<>> /\ w.msg = Head(flushing)
     THEN flushing' = Tail(flushing) /\ queue' = rest \o FlushNext(Tail(flushing))
     ELSE queue' = rest /\ UNCHANGED flushing
  /\ UNCHANGED <<agent, buffer, of>>

\* handleDeleteConversation and handleDeleteAllConversations
DeleteSettles(w, ok, rest) ==
  /\ waiting' = waiting \ {w.conv}
  /\ first' = IF ~ok THEN first ELSE IF w.kind = "clear" THEN {} ELSE first \ {w.conv}
  /\ current' = IF ok /\ (w.kind = "clear" \/ w.conv = current) THEN 0 ELSE current
  /\ queue' = rest
  /\ UNCHANGED <<stage, naming, batch, pending>>

\* handleDeleteMultipleConversations: one after the other; the state is reset at
\* the end if one of them was the active one when it had been deleted.
BatchSettles(w, ok, rest) ==
  LET hit == batch.hit \/ w.conv = current IN
  /\ IF ok /\ Len(batch.rest) > 1
     THEN /\ batch' = [batch EXCEPT !.rest = Tail(@), !.hit = hit]
          /\ queue' = Append(rest, Write("delete", batch.rest[2], 0))
          /\ UNCHANGED <<current, first>>
     ELSE /\ batch' = NoBatch
          /\ queue' = rest
          /\ current' = IF ok /\ hit THEN 0 ELSE current
          /\ first' = IF ok THEN first \ batch.ids ELSE first
  /\ UNCHANGED <<stage, naming, waiting, pending>>

Settle(w, ok, rest) ==
  CASE w.kind = "create"        -> CreateSettles(w, ok, rest)
    [] w.kind = "put"           -> PutSettles(w, rest)
    [] w.kind \in {"delete", "clear"} /\ w.conv \in waiting
         -> DeleteSettles(w, ok, rest)
    [] w.kind = "delete" /\ w.conv \in Range(batch.rest) \ waiting
         -> BatchSettles(w, ok, rest)
    [] OTHER -> queue' = rest /\ UNCHANGED <<agent, pending>>

Reject(w, rest) == Settle(w, FALSE, rest)

\* A query returns at most DeleteMax of the entries S, those with the newest
\* timestamps: which they are is left open.
Found(S) ==
  IF Cardinality(S) <= DeleteMax THEN {S}
  ELSE {T \in SUBSET S : Cardinality(T) = DeleteMax}

Present       == {c \in Convs : title[c] # "none"}
EntriesOf(c, S) == {m \in S : of[m] = c}

\* Mutant: a rename creates the record if it is missing.
Records_Upsert(w) ==
  IF w.kind = "clear" THEN Found(Present) ELSE {{w.conv}}

\* The conversations whose record a write inserts or deletes: touchConversation
\* and renameConversation only one that exists, deleteAllConversations those that
\* it finds.
Records(w) ==
  CASE w.kind \in {"create", "delete"} -> {{w.conv}}
    [] w.kind = "clear"               -> Found(Present)
    [] OTHER                          -> {{w.conv} \cap Present}

\* The messages that a write inserts or deletes.
Entries(w, convs) ==
  CASE w.kind = "put"     -> {{w.msg}}
    [] w.kind \in Deletes -> {S \in SUBSET stored :
         /\ \A m \in S : of[m] \in convs
         /\ \A c \in convs : EntriesOf(c, S) \in Found(EntriesOf(c, stored))}
    [] OTHER              -> {{}}

\* The title of the record a write inserts; "none" if it inserts none.
Gives(w) == CASE w.kind = "put" /\ w.conv \in Present -> title[w.conv]
              [] w.kind = "create"                    -> "new"
              [] w.kind = "rename"                    -> "own"
              [] w.kind = "name"                      -> "auto"
              [] OTHER                                -> "none"

\* A write that has read the store: "msgs" and "recs" are the messages and the
\* records it has left to change.  "doomed" is history: what a deletion promises
\* to delete, the messages of a conversation that has no more than DeleteMax.
Run(w, convs, msgs) ==
  [write |-> w, gives |-> Gives(w), convs |-> convs, recs |-> convs, msgs |-> msgs,
   doomed |-> {m \in w.before : /\ of[m] \in convs
                                /\ Cardinality(EntriesOf(of[m], stored)) <= DeleteMax},
   hung |-> FALSE]

\* Mutant: a write does not wait for the one before it.
Begin_Unchained ==
  /\ queue # <<>>
  /\ LET w == Head(queue) IN
     \E convs \in Records(w) : \E msgs \in Entries(w, convs) :
       running' = running \cup {Run(w, convs, msgs)}
  /\ queue' = Tail(queue)
  /\ UNCHANGED <<agent, opener, pending, late, disk, disturbed, made, events>>

\* enqueueWrite: the next write begins when the one before it has been answered;
\* it reads what it needs, or rejects at once if there is no database.
Begin ==
  /\ queue # <<>> /\ running = {}
  /\ LET w == Head(queue) IN
     IF db
     THEN /\ \E convs \in Records(w) : \E msgs \in Entries(w, convs) :
               running' = {Run(w, convs, msgs)}
          /\ queue' = Tail(queue)
          /\ UNCHANGED <<agent, pending>>
     ELSE Reject(w, Tail(queue)) /\ UNCHANGED running
  /\ UNCHANGED <<opener, late, disk, disturbed, made, events>>

\* A write r after its next insert or delete; a record follows its messages.
After(r) ==
  {[r EXCEPT !.msgs = @ \ {m}] : m \in r.msgs} \cup
  {[r EXCEPT !.recs = @ \ {c}] : c \in {d \in r.recs : EntriesOf(d, r.msgs) = {}}}

\* What that does to the store.
Changes(r, s) ==
  LET msgs == r.msgs \ s.msgs  recs == r.recs \ s.recs IN
  /\ stored' = IF r.write.kind = "put" THEN stored \cup msgs ELSE stored \ msgs
  /\ title' = [c \in Convs |-> IF c \in recs THEN r.gives ELSE title[c]]
  /\ named' = [c \in Convs |-> IF c \in recs /\ r.write.kind \in Names
                               THEN named[c] \cup {r.gives} ELSE named[c]]
  /\ UNCHANGED <<erased, doomed>>

Works(r) ==
  /\ r \in running /\ ~r.hung
  /\ \E s \in After(r) : running' = (running \ {r}) \cup {s} /\ Changes(r, s)
  /\ UNCHANGED <<agent, opener, pending, queue, late, disturbed, made, events>>

\* The flush.
Succeeds(r) ==
  /\ r \in running /\ ~r.hung /\ r.msgs = {} /\ r.recs = {}
  /\ running' = running \ {r}
  /\ named' = [c \in Convs |-> IF c \in r.convs /\ r.write.kind \in Names
                               THEN {r.gives} ELSE named[c]]
  /\ erased' = erased \cup (IF r.write.kind \in Deletes THEN r.convs ELSE {})
  /\ doomed' = doomed \cup r.doomed
  /\ Settle(r.write, TRUE, queue)
  /\ UNCHANGED <<opener, late, title, stored, disturbed, made, events>>

\* One of its calls fails: what it has changed stays changed.
Fails(r) ==
  /\ r \in running /\ ~r.hung
  /\ running' = running \ {r}
  /\ Fault /\ Reject(r.write, queue)
  /\ UNCHANGED <<opener, late, disk, disturbed, made>>

Hangs(r) ==
  /\ r \in running /\ ~r.hung
  /\ running' = (running \ {r}) \cup {[r EXCEPT !.hung = TRUE]}
  /\ Fault
  /\ UNCHANGED <<agent, opener, pending, queue, late, disk, disturbed, made>>

\* Mutant: the writes have no timeout.
TimesOut_Never(r) == FALSE /\ r \in running /\ UNCHANGED storeVars

\* After WRITE_TIMEOUT_MS the queue goes on, and the write too.
TimesOut(r) ==
  /\ r \in running /\ r.hung
  /\ running' = running \ {r} /\ late' = late \cup {r}
  /\ disturbed' = disturbed \cup
       (IF r.write.kind = "clear" THEN Convs ELSE {r.write.conv})
  /\ Reject(r.write, queue)
  /\ UNCHANGED <<opener, disk, made, events>>

LateWorks(r) ==
  /\ r \in late
  /\ \E s \in After(r) : late' = (late \ {r}) \cup {s} /\ Changes(r, s)
  /\ UNCHANGED <<agent, opener, pending, queue, running, disturbed, made, events>>

\* Its flush ends, or one of its calls fails.
LateEnds(r) ==
  /\ r \in late /\ late' = late \ {r}
  /\ UNCHANGED <<agent, opener, pending, queue, running, disk, disturbed, made, events>>

-----------------------------------------------------------------------------
(* The requests of phones; their lists of conversations may be old.        *)

\* The conversations that have had a record.
Known == {c \in Convs : named[c] # {}}

Request ==
  /\ events < MaxEvents /\ events' = events + 1
  /\ UNCHANGED <<stage, naming, opener, pending, running, late, disk, disturbed,
                 made>>

LoadConversation(c) ==
  /\ c \in Known /\ current' = c
  /\ Request /\ UNCHANGED <<queue, first, waiting, batch>>

NewConversation ==
  /\ ready /\ current' = 0
  /\ Request /\ UNCHANGED <<queue, first, waiting, batch>>

RenameConversation(c) ==
  /\ ready /\ c \in Known
  /\ queue' = Append(queue, Write("rename", c, 0))
  /\ Request /\ UNCHANGED <<current, first, waiting, batch>>

\* c = 0 is the request to delete all.
DeleteConversation(c) ==
  /\ ready /\ c \in Known \cup {0} /\ c \notin waiting \cup batch.ids
  /\ waiting' = waiting \cup {c}
  /\ queue' = Append(queue, Write(IF c = 0 THEN "clear" ELSE "delete", c, 0))
  /\ Request /\ UNCHANGED <<current, first, batch>>

DeleteMultiple(c, d) ==
  /\ ready /\ {c, d} \subseteq Known \ waiting /\ c # d /\ batch = NoBatch
  /\ batch' = [ids |-> {c, d}, rest |-> <<c, d>>, hit |-> FALSE]
  /\ queue' = Append(queue, Write("delete", c, 0))
  /\ Request /\ UNCHANGED <<current, first, waiting>>

\* The timeout of a handler ends before its write does: nothing is reset.
HandlerGivesUp ==
  /\ \/ \E c \in waiting : waiting' = waiting \ {c} /\ UNCHANGED batch
     \/ batch # NoBatch /\ batch' = NoBatch /\ UNCHANGED waiting
  /\ Fault
  /\ UNCHANGED <<current, stage, first, naming, opener, pending, queue, running,
                 late, disk, disturbed, made>>

StoreNext ==
  \/ \E m \in Msgs : \/ Arrives(m) \/ ArrivesFirst(m) \/ ArrivesUnready(m)
                     \/ Proceeds(m) \/ \E c \in Convs : EntryArrives(m, c)
  \/ CloseEnds \/ CloseTimesOut \/ InitEnds \/ InitFails \/ StrayEnds
  \/ Begin
  \/ \E r \in running : Works(r) \/ Succeeds(r) \/ Fails(r) \/ Hangs(r) \/ TimesOut(r)
  \/ \E r \in late : LateWorks(r) \/ LateEnds(r)
  \/ NewConversation \/ DeleteConversation(0) \/ HandlerGivesUp
  \/ \E c \in Convs : \/ NameReads(c) \/ LoadConversation(c)
                      \/ RenameConversation(c) \/ DeleteConversation(c)
                      \/ \E d \in Convs : DeleteMultiple(c, d)

StoreSpec == StoreInit /\ [][StoreNext]_storeVars

\* Calls to the database return or time out, and handlers go on.
Fairness ==
  /\ WF_storeVars(Begin)
  /\ WF_storeVars(\E r \in running : Works(r) \/ Succeeds(r) \/ TimesOut(r))
  /\ WF_storeVars(CloseEnds) /\ WF_storeVars(InitEnds)
  /\ \A m \in Msgs : WF_storeVars(Proceeds(m))

FairStoreSpec == StoreSpec /\ Fairness

-----------------------------------------------------------------------------
(* Properties.  A conversation is disturbed if a write of it was abandoned. *)

\* A conversation has the title of the last rename that succeeded, or of one that
\* failed or began since: no message stored around a rename brings the old record
\* back.
TitleIsLast ==
  \A c \in Convs \ disturbed : title[c] \in {"none"} \cup named[c]

\* A conversation whose deletion has succeeded does not come back, and no message
\* that had been given to the store before the request survives it, unless the
\* conversation had more than DeleteMax.
GoneIsGone ==
  \A c \in erased \ disturbed :
    title[c] = "none" /\ \A m \in doomed : of[m] = c => m \notin stored

\* swarm-message-handler.ts:1803 "failures must never prevent AI dispatch":
\* every message of the user reaches the daemon, whatever the store does.
EveryMessageSent ==
  \A m \in Msgs : stage[m] \notin {"new", "entry"} ~> stage[m] = "sent"

\* A write of the kind for the message, that will be answered.
InProgress(kind, m) ==
  \E w \in Range(queue) \cup {r.write : r \in running} : w.kind = kind /\ w.msg = m

\* What waits is being worked on: a message that waits for the store or for the
\* record of its conversation, and the flush of the write buffer.
NoneForgotten ==
  /\ \A m \in Msgs : /\ stage[m] = "ensuring" => opening # "no"
                     /\ stage[m] = "creating" => InProgress("create", m)
  /\ flushing # <<>> => InProgress("put", Head(flushing))

(* What the code does not keep.                                            *)

\* swarm-core.ts:145 "Messages received while the store is unavailable are held
\* here": a message that was sent belongs to a conversation of the store.
UnavailableIsHeld == \A m \in Msgs : stage[m] = "sent" => of[m] # 0

\* message-store.ts:122 nulls db so that no handle breaks "message persistence
\* for the rest of the daemon's lifetime": a ready store has a database.
ReadyMeansOpen == ready => db

\* A message in the store belongs to a conversation in the store.
NoOrphans == \A m \in stored : title[of[m]] # "none"

\* message-store.ts:269 "Delete all messages in the conversation", :283 "deletion
\* needs full scan": a deletion that succeeds leaves none of its messages.
DeletesAll ==
  [][\A r \in running : Succeeds(r) /\ r.write.kind \in Deletes =>
       \A m \in stored' : of[m] \notin r.convs \ disturbed]_storeVars

\* message-store.ts:78 the entry of a rejected write "is lost, same as if the
\* write threw": a message whose write fails is not in the store.
RejectedIsLost ==
  [][\A r \in running : Fails(r) /\ r.write.kind = "put" =>
       r.write.msg \notin stored']_storeVars

\* The title a user has given is not replaced by a generated one.
UserTitleKept == [][\A c \in Convs : title[c] = "own" => title'[c] # "auto"]_storeVars

\* Between requests the active conversation changes only if there was none or if
\* it was deleted.
ChoiceKept ==
  [][current' # current => \/ current = 0 \/ current \in erased'
                          \/ NewConversation \/ \E c \in Convs : LoadConversation(c)]_storeVars
=============================================================================
