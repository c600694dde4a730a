--------------------------- MODULE PluginSessions ---------------------------
(***************************************************************************)
(* The sessions of a spawning plugin and their file plugin-sessions.json.  *)
(* A dispatch takes the session of its conversation from memory or, after  *)
(* a restart, from the file; the end of its task saves or removes it.  A   *)
(* save marks the cached store dirty and arms a timer; the timer writes    *)
(* the store, one flush at a time; a stop kills the tasks and flushes.     *)
(* A call that times out is abandoned, not cancelled: its write may still  *)
(* land.  Dispatches are numbered, and so are the sessions they mint.      *)
(***************************************************************************)
EXTENDS Integers, Sequences, FiniteSets

CONSTANTS
  Conversations,
  MaxEntries,      \* MAX_ENTRIES
  MaxBegun,   \* bound: dispatches
  MaxFaults,       \* bound: failed or timed-out file operations, force kills
  MaxStops         \* bound: stops and crashes of the daemon

ASSUME SessionsAssumption ==
  {MaxEntries, MaxBegun, MaxFaults, MaxStops} \subseteq Nat /\ MaxEntries > 0

VARIABLES
  presets,    \* requiresPresetSessionId
  begun, minted, faults, stops,
  phase,      \* of the daemon: "up", "stopping" or "flushing"
  turn,       \* of the dispatch of each conversation: "idle", "loading", "running"
  resumed,    \* the session it resumes, or 0
  own,        \* task.sessionId: the session its process reported, or 0
  zombie,     \* a force-killed task whose close may come, or NoTask
  mem,        \* conversationSessions
  done,       \* completedSessions
  store,      \* the stores that loads of this life returned; cache is the last
  dirty, timer,   \* dirty, flushTimer
  flush,      \* flushInProgress: "idle", "mkdir" or "write"
  target,     \* the store of the flush in progress
  content,    \* what its writeFile writes
  late,       \* what abandoned writeFiles may still write
  disk,
  touched, raced, abandoned, haunted,  \* history of this life: see the actions
  last        \* history: the session each conversation should resume, or Unknown

tasks       == <<presets, begun, minted, turn, resumed, own, zombie, mem, done,
                 last, haunted>>
file        == <<content, late, disk, abandoned>>
saving      == <<dirty, timer, flush, target>>
loaded      == <<store, touched, raced>>
life        == <<phase, stops>>
sessionVars == <<tasks, file, saving, loaded, life, faults>>

Sessions == 1..MaxBegun
cache    == Len(store)
NoTask   == [own |-> 0, status |-> "none"]
Unknown  == -1
Torn     == << <<"torn", 0>> >>
Contents == {s \in UNION {[1..n -> Conversations \X Sessions] : n \in 0..MaxEntries} :
               \A i, j \in DOMAIN s : s[i][1] = s[j][1] => i = j}

Keys(s)     == {s[i][1] : i \in DOMAIN s}
Lookup(s, c) == IF c \in Keys(s) THEN (CHOOSE i \in DOMAIN s : s[i][1] = c) ELSE 0
SessionOf(s, c) == IF c \in Keys(s) THEN s[Lookup(s, c)][2] ELSE 0

SessionsTypeOK ==
  /\ presets \in BOOLEAN
  /\ begun \in 0..MaxBegun /\ minted \in 0..begun /\ faults \in 0..MaxFaults /\ stops \in 0..MaxStops
  /\ phase \in {"up", "stopping", "flushing"}
  /\ turn \in [Conversations -> {"idle", "loading", "running"}]
  /\ resumed \in [Conversations -> 0..MaxBegun] /\ own \in [Conversations -> 0..MaxBegun]
  /\ zombie \in [Conversations -> [own : 0..MaxBegun, status : {"none", "killed", "error"}]]
  /\ mem \in [Conversations -> 0..MaxBegun] /\ done \subseteq Sessions
  /\ store \in Seq(Contents) /\ Len(store) \in 0..Cardinality(Conversations)
  /\ {dirty, timer, touched, raced, abandoned, haunted} \subseteq BOOLEAN
  /\ flush \in {"idle", "mkdir", "write"} /\ target \in 0..Len(store)
  /\ content \in Contents /\ late \subseteq Contents /\ disk \in Contents \cup {Torn}
  /\ last \in [Conversations -> Unknown..MaxBegun]

Fresh ==   \* the memory of a daemon that starts
  /\ phase' = "up"
  /\ turn' = [c \in Conversations |-> "idle"] /\ zombie' = [c \in Conversations |-> NoTask]
  /\ resumed' = [c \in Conversations |-> 0] /\ own' = [c \in Conversations |-> 0]
  /\ mem' = [c \in Conversations |-> 0] /\ done' = {}
  /\ store' = <<>>
  /\ dirty' = FALSE /\ timer' = FALSE /\ flush' = "idle" /\ target' = 0
  /\ content' = <<>> /\ late' = {}
  /\ touched' = FALSE /\ raced' = FALSE /\ abandoned' = FALSE /\ haunted' = FALSE

SessionsInit ==
  /\ presets \in BOOLEAN /\ begun = 0 /\ minted = 0 /\ faults = 0 /\ stops = 0 /\ phase = "up"
  /\ turn = [c \in Conversations |-> "idle"] /\ zombie = [c \in Conversations |-> NoTask]
  /\ resumed = [c \in Conversations |-> 0] /\ own = [c \in Conversations |-> 0]
  /\ mem = [c \in Conversations |-> 0] /\ done = {}
  /\ store = <<>>
  /\ dirty = FALSE /\ timer = FALSE /\ flush = "idle" /\ target = 0
  /\ content = <<>> /\ late = {} /\ disk = <<>>
  /\ touched = FALSE /\ raced = FALSE /\ abandoned = FALSE /\ haunted = FALSE
  /\ last = [c \in Conversations |-> Unknown]

-----------------------------------------------------------------------------
\* The store.

Without(s, c) ==
  IF c \notin Keys(s) THEN s
  ELSE [i \in 1..(Len(s) - 1) |-> s[IF i < Lookup(s, c) THEN i ELSE i + 1]]

\* A key that is there keeps its place; beyond the cap the oldest go.
With(s, c, sid) ==
  LET t == IF c \in Keys(s) THEN [s EXCEPT ![Lookup(s, c)] = <<c, sid>>]
                            ELSE Append(s, <<c, sid>>)
  IN  SubSeq(t, 1 + (IF Len(t) > MaxEntries THEN Len(t) - MaxEntries ELSE 0), Len(t))

Change(s) ==
  /\ store' = [store EXCEPT ![cache] = s] /\ touched' = TRUE
  /\ dirty' = TRUE /\ timer' = TRUE
  /\ UNCHANGED <<raced, flush, target>>

\* Mutant: the session of an error is forgotten in memory only.
Finished_KeepsFile(c, reported, status) ==
  LET sid == IF reported # 0 THEN reported ELSE mem[c] IN
  CASE sid = 0 -> UNCHANGED <<mem, done, saving, loaded>>
    [] sid # 0 /\ status # "error" ->
         done' = done \cup {sid} /\ Change(With(store[cache], c, sid)) /\ UNCHANGED mem
    [] OTHER ->
         /\ done' = done \ {sid} /\ mem' = [mem EXCEPT ![c] = 0]
         /\ UNCHANGED <<saving, loaded>>

\* The end of a task in _onTaskFinished: a session that errored is forgotten.
Finished(c, reported, status) ==
  LET sid == IF reported # 0 THEN reported ELSE mem[c] IN
  CASE sid = 0 -> UNCHANGED <<mem, done, saving, loaded>>
    [] sid # 0 /\ status # "error" ->
         done' = done \cup {sid} /\ Change(With(store[cache], c, sid)) /\ UNCHANGED mem
    [] OTHER ->
         /\ done' = done \ {sid} /\ mem' = [mem EXCEPT ![c] = 0]
         /\ Change(Without(store[cache], c))

-----------------------------------------------------------------------------
\* Dispatches.

\* The session a dispatch runs with: found, or minted by a presetting plugin.
Start(c, found, resumes) ==
  /\ turn' = [turn EXCEPT ![c] = "running"]
  /\ resumed' = [resumed EXCEPT ![c] = IF resumes THEN found ELSE 0]
  /\ mem' = [mem EXCEPT ![c] = IF found = 0 /\ presets THEN minted + 1 ELSE found]
  /\ minted' = IF found = 0 /\ presets THEN minted + 1 ELSE minted
  /\ own' = [own EXCEPT ![c] = 0]

Resolve(c) ==
  /\ phase = "up" /\ turn[c] = "idle" /\ begun < MaxBegun
  /\ begun' = begun + 1
  /\ \/ /\ mem[c] # 0
        /\ Start(c, mem[c], mem[c] \in done) /\ UNCHANGED done
     \/ /\ mem[c] = 0 /\ cache # 0
        /\ LET s == SessionOf(store[cache], c) IN
           /\ Start(c, s, s # 0) /\ done' = done \cup ({s} \ {0})
     \/ /\ mem[c] = 0 /\ cache = 0
        /\ turn' = [turn EXCEPT ![c] = "loading"]
        /\ UNCHANGED <<minted, resumed, mem, own, done>>
  /\ UNCHANGED <<presets, zombie, last, haunted, file, saving, loaded, life, faults>>

\* A load ends and its store becomes the cache, whichever was there before
\* (`raced'); one that fails or times out yields an empty store.  A conversation
\* without a session in memory is lost with a load that failed; one whose session
\* was forgotten may have it back from a load that was slow.
LoadEnds(c, ok) ==
  /\ turn[c] = "loading" /\ phase = "up"
  /\ LET s == IF ok /\ disk # Torn THEN disk ELSE <<>>
         found == SessionOf(s, c)
     IN  /\ store' = Append(store, s)
         /\ Start(c, found, found # 0) /\ done' = done \cup ({found} \ {0})
  /\ last' = [k \in Conversations |->
                IF /\ mem[k] = 0
                   /\ ~ok \/ (cache # 0 /\ turn[k] # "loading" /\ last[k] = 0)
                  THEN Unknown ELSE last[k]]
  /\ raced' = (cache # 0)
  /\ faults' = IF ok THEN faults ELSE faults + 1
  /\ faults' \in 0..MaxFaults
  /\ UNCHANGED <<presets, begun, zombie, haunted, touched, file, saving, life>>

\* The process tells its session (Codex, Gemini).
Reported(c) ==
  /\ turn[c] = "running" /\ ~presets /\ own[c] = 0
  /\ LET sid == IF resumed[c] # 0 THEN resumed[c] ELSE minted + 1 IN
     /\ minted' = IF sid > minted THEN sid ELSE minted
     /\ own' = [own EXCEPT ![c] = sid] /\ mem' = [mem EXCEPT ![c] = sid]
  /\ UNCHANGED <<presets, begun, turn, resumed, zombie, done, last, haunted,
                 file, saving, loaded, life, faults>>

\* A conversation that has its session from the file only may lose it to the cap.
Remember(c, status) ==
  LET sid == IF own[c] # 0 THEN own[c] ELSE mem[c]
      pruned == {k \in Keys(store[cache]) \ Keys(store'[cache]) : k # c /\ mem[k] = 0}
  IN  last' = [k \in Conversations |->
                 IF k \in pruned THEN Unknown
                 ELSE IF k # c \/ sid = 0 THEN last[k]
                 ELSE IF status = "error" THEN 0 ELSE sid]

\* The process closes; a stop kills the tasks that run.
Closes(c, status) ==
  /\ turn[c] = "running" /\ (phase = "up" \/ status = "killed")
  /\ turn' = [turn EXCEPT ![c] = "idle"]
  /\ Finished(c, own[c], status) /\ Remember(c, status)
  /\ UNCHANGED <<presets, begun, minted, resumed, own, zombie, haunted, file, life, faults>>

\* It was killed but does not close in time: the task ends without its close.
KillTimesOut(c, status) ==
  /\ turn[c] = "running" /\ zombie[c] = NoTask /\ faults < MaxFaults
  /\ (phase = "up" \/ status = "killed")
  /\ faults' = faults + 1
  /\ turn' = [turn EXCEPT ![c] = "idle"]
  /\ zombie' = [zombie EXCEPT ![c] = [own |-> own[c], status |-> status]]
  /\ Finished(c, own[c], status) /\ Remember(c, status)
  /\ UNCHANGED <<presets, begun, minted, resumed, own, haunted, file, life>>

\* The close comes after all and ends the task again.
LateClose(c) ==
  /\ zombie[c] # NoTask
  /\ zombie' = [zombie EXCEPT ![c] = NoTask]
  /\ Finished(c, zombie[c].own, zombie[c].status)
  /\ haunted' = (haunted \/ mem' # mem \/ done' # done \/ store' # store)
  /\ UNCHANGED <<presets, begun, minted, turn, resumed, own, last, file, life, faults>>

-----------------------------------------------------------------------------
\* The debounced flush.

FlushBegins == dirty' = FALSE /\ flush' = "mkdir" /\ target' = cache

TimerFires ==
  /\ timer /\ phase # "flushing"
  /\ timer' = FALSE
  /\ IF flush = "idle" /\ dirty THEN FlushBegins ELSE UNCHANGED <<dirty, flush, target>>
  /\ UNCHANGED <<tasks, file, loaded, life, faults>>

\* The store is serialised when the directory is there.
WriteBegins ==
  /\ flush = "mkdir"
  /\ flush' = "write" /\ content' = store[target]
  /\ UNCHANGED <<tasks, late, disk, abandoned, dirty, timer, target, loaded, life, faults>>

\* Mutant: the flush does not arm the timer again.
Flushed_NoFollowup(ok) ==
  /\ flush' = "idle" /\ target' = 0
  /\ dirty' = (dirty \/ ~ok) /\ UNCHANGED timer

\* A flush that failed marks the store dirty again; the timer follows if it is.
\* The last flush, that of a stop, does neither.
Flushed(ok) ==
  /\ flush' = "idle" /\ target' = 0
  /\ dirty' = (dirty \/ ~ok)
  /\ timer' = (timer \/ (dirty' /\ phase # "flushing"))

WriteEnds ==
  /\ flush = "write"
  /\ disk' = content /\ content' = <<>> /\ Flushed(TRUE)
  /\ UNCHANGED <<tasks, late, abandoned, loaded, life, faults>>

\* mkdir fails or times out, or writeFile fails before it opened the file.
WriteFails ==
  /\ flush # "idle" /\ faults < MaxFaults /\ faults' = faults + 1
  /\ content' = <<>> /\ Flushed(FALSE)
  /\ UNCHANGED <<tasks, late, disk, abandoned, loaded, life>>

\* writeFile times out: the flush is over, the write is not (`abandoned').
WriteTimesOut ==
  /\ flush = "write" /\ faults < MaxFaults /\ faults' = faults + 1
  /\ late' = late \cup {content} /\ abandoned' = TRUE
  /\ content' = <<>> /\ Flushed(FALSE)
  /\ UNCHANGED <<tasks, disk, loaded, life>>

LateWriteLands(s) ==
  /\ s \in late
  /\ late' = late \ {s} /\ disk' = s
  /\ UNCHANGED <<tasks, content, abandoned, saving, loaded, life, faults>>

-----------------------------------------------------------------------------
\* The end of the daemon.

Stop ==
  /\ phase = "up" /\ stops < MaxStops
  /\ phase' = "stopping" /\ stops' = stops + 1
  /\ UNCHANGED <<tasks, file, saving, loaded, faults>>

\* flushSessions, once no task runs: it stops the timer, waits for the flush in
\* progress (its deadline is beyond the timeouts of a write) and writes.
StopFlushes ==
  /\ phase = "stopping" /\ \A c \in Conversations : turn[c] # "running"
  /\ flush = "idle"
  /\ phase' = "flushing" /\ timer' = FALSE
  /\ IF dirty /\ cache # 0 THEN FlushBegins ELSE UNCHANGED <<dirty, flush, target>>
  /\ UNCHANGED <<tasks, file, loaded, stops, faults>>

\* What a process that ends leaves of the writes under way.
DiskAfterEnd ==
  LET under == late \cup (IF flush = "write" THEN {content} ELSE {}) IN
  disk' \in {disk} \cup under \cup (IF under # {} THEN {Torn} ELSE {})

\* The next daemon can resume what the file has, if every write succeeded.
Exits ==
  /\ phase = "flushing" /\ flush = "idle"
  /\ last' = [c \in Conversations |->
                IF dirty \/ raced \/ abandoned \/ haunted THEN Unknown
                ELSE IF ~touched \/ c \in Keys(store[cache]) \/ last[c] = 0 THEN last[c]
                ELSE Unknown]
  /\ DiskAfterEnd /\ Fresh
  /\ UNCHANGED <<presets, begun, minted, stops, faults>>

\* The shutdown watchdog, a signal that cannot be caught, a power failure.
Crash ==
  /\ stops < MaxStops \/ phase # "up"
  /\ stops' = IF phase = "up" THEN stops + 1 ELSE stops
  /\ last' = [c \in Conversations |-> Unknown]
  /\ DiskAfterEnd /\ Fresh
  /\ UNCHANGED <<presets, begun, minted, faults>>

SessionsNext ==
  \/ \E c \in Conversations :
       \/ Resolve(c) \/ Reported(c) \/ LateClose(c)
       \/ \E ok \in BOOLEAN : LoadEnds(c, ok)
       \/ \E status \in {"completed", "killed", "error"} : Closes(c, status)
       \/ \E status \in {"killed", "error"} : KillTimesOut(c, status)
  \/ TimerFires \/ WriteBegins \/ WriteEnds \/ WriteFails \/ WriteTimesOut
  \/ \E s \in late : LateWriteLands(s)
  \/ Stop \/ StopFlushes \/ Exits \/ Crash

SessionsSpec == SessionsInit /\ [][SessionsNext]_sessionVars

\* Timers fire, and a write ends in one of its ways.
FairSessionsSpec ==
  /\ SessionsSpec
  /\ WF_sessionVars(TimerFires) /\ WF_sessionVars(WriteBegins \/ WriteFails)
  /\ WF_sessionVars(WriteEnds \/ WriteFails \/ WriteTimesOut)

-----------------------------------------------------------------------------
\* A change of the cached store that the file does not have.
Unsaved ==
  /\ phase = "up" /\ touched /\ ~raced /\ ~abandoned
  /\ disk # store[cache]

\* Every change reaches the file or the daemon ends first, whatever operations
\* failed and whatever was saved during a flush.
SavesSettle == Unsaved ~> ~Unsaved

\* As long as a change is unsaved, a timer is armed or a flush is in progress.
SaveIsUnderWay == Unsaved => timer \/ flush # "idle"

\* A dispatch resumes the session its conversation last completed, and none
\* after an error, in one life of the daemon and across an orderly restart in
\* which every write succeeded.  A late close that changed something is excused.
ResumesLast ==
  \A c \in Conversations :
    turn[c] = "running" /\ last[c] # Unknown /\ ~haunted => resumed[c] = last[c]

\* The second end of a task "is safe": the next dispatches resume as if the late
\* close had not come.
LateCloseIsSafe ==
  \A c \in Conversations :
    turn[c] = "running" /\ last[c] # Unknown => resumed[c] = last[c]

\* "Guard against concurrent writeToDisk() calls": one write at a time.
OneWriter == flush = "write" => late = {}
=============================================================================
