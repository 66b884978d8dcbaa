---------------------------- MODULE RegistryProofs ----------------------------
(***************************************************************************)
(* Proofs about the components that keep what they know in the resource    *)
(* registry: TerrestrialEndpoint, for every set of commands, any number of *)
(* crashes and registry calls that may fail, and then organizations and    *)
(* subscriptions, under the names that MCRegistry gives them.              *)
(***************************************************************************)
EXTENDS MCRegistry, QueueOpsProofs, FiniteSetTheorems


(* What the type invariant says of a greenlet in _update_queue_resource.   *)
LEMMA UpdaterFacts ==
  ASSUME TypeOK, NEW t \in Thread
  PROVE  /\ updater \in [Thread -> Updater]
         /\ updater[t] \in Updater
         /\ updater[t].pc \in UpdaterPc /\ updater[t].copy \in Seq(Cmd)
         /\ updater[t].fresh \in BOOLEAN
         /\ updater[t].keeps \subseteq Cmd /\ updater[t].goes \subseteq Cmd
  BY DEF TypeOK, Updater

(* A write whose sender is killed is as sound as the sender's.             *)
LEMMA OrphanedFacts ==
  ASSUME IInv, NEW t \in Thread
  PROVE  /\ Orphaned(t) \subseteq Seq(Cmd)
         /\ \A q \in Orphaned(t) : Sound(q)
         /\ up # "up" => Orphaned(t) = {}
  BY UpdaterFacts DEF Orphaned, IInv, UpdaterInv, ProcessInv

(* An idle greenlet is well typed and claims nothing.                      *)
LEMMA IdleFacts ==
  Idle \in Updater /\ Idle.pc = "idle" /\ Idle.keeps = {} /\ Idle.goes = {}
  BY DEF Idle, Updater, UpdaterPc

LEMMA InitIInv == Init => IInv
<1> SUFFICES ASSUME Init PROVE IInv
  OBVIOUS
<1>1. TypeOK
  <2>1. queue \in Seq(Cmd)
    BY DEF Init
  <2>2. updater \in [Thread -> Updater]
    BY IdleFacts DEF Init
  <2>3. crashes \in 0..MaxCrashes
    BY BoundAssumption DEF Init
  <2>4. QED
    BY <2>1, <2>2, <2>3 DEF Init, TypeOK
<1>2. ProcessInv /\ QueueInv /\ UpdaterInv /\ ResultInv
  BY DEF Init, Idle, ProcessInv, QueueInv, UpdaterInv, ResultInv, ResultOnce
<1>3. QED
  BY <1>1, <1>2 DEF IInv

(* Reading the resource claims nothing yet.                                *)
LEMMA FindIInv ==
  ASSUME IInv, NEW t \in Thread, Find(t)
  PROVE  IInv'
<1> USE NilAssumption DEF memory, registry, commands, returns, results, history
<1>1. TypeOK'
  BY DEF IInv, TypeOK, Find, Updater, UpdaterPc
<1>2. ProcessInv'
  BY DEF IInv, TypeOK, ProcessInv, Find, Idle
<1>3. QueueInv'
  BY DEF IInv, ProcessInv, QueueInv, Sound, Find
<1>4. UpdaterInv'
  BY DEF IInv, TypeOK, ProcessInv, QueueInv, UpdaterInv, Sound, Find, Updater, Idle
<1>5. ResultInv'
  BY DEF IInv, ProcessInv, QueueInv, ResultInv, ResultOnce, Sound, Find
<1>6. QED
  BY <1>1, <1>2, <1>3, <1>4, <1>5 DEF IInv

(* The queue in memory is sound, so its copy is.                           *)
LEMMA CopyIInv ==
  ASSUME IInv, NEW t \in Thread, Copy(t)
  PROVE  IInv'
<1> USE NilAssumption DEF memory, registry, commands, returns, results, history
<1>1. TypeOK'
  BY DEF IInv, TypeOK, Copy, Updater, UpdaterPc
<1>2. ProcessInv'
  BY DEF IInv, TypeOK, ProcessInv, Copy, Idle
<1>3. QueueInv'
  BY DEF IInv, TypeOK, ProcessInv, QueueInv, UpdaterInv, Sound, Copy
<1>4. UpdaterInv'
  BY DEF IInv, TypeOK, ProcessInv, QueueInv, UpdaterInv, Sound, Copy, Updater, Idle
<1>5. ResultInv'
  BY DEF IInv, ProcessInv, QueueInv, ResultInv, ResultOnce, Sound, Copy
<1>6. QED
  BY <1>1, <1>2, <1>3, <1>4, <1>5 DEF IInv

(* A write that is accepted makes every other one out of date.             *)
LEMMA CommitIInv ==
  ASSUME IInv, NEW t \in Thread, Commit(t)
  PROVE  IInv'
<1> USE NilAssumption DEF memory, registry, commands, returns, results, history
<1>0. /\ up = "up" /\ updater[t].pc = "update" /\ persisted # Nil
      /\ updater \in [Thread -> Updater] /\ updater[t].copy \in Seq(Cmd)
      /\ updater[t].keeps \cup updater[t].goes \subseteq Cmd
  BY UpdaterFacts DEF Commit, IInv, ProcessInv
<1>a. CASE ~updater[t].fresh
  <2>1. updater' = [updater EXCEPT ![t].pc = "find"]
        /\ UNCHANGED <<up, linkUp, client, memory, registry, history>>
    BY <1>a DEF Commit
  <2>2. TypeOK' /\ ProcessInv'
    BY <1>0, <2>1 DEF IInv, TypeOK, ProcessInv, Updater, UpdaterPc
  <2>3. QueueInv' /\ ResultInv'
    BY <2>1 DEF IInv, QueueInv, Sound, ResultInv, ResultOnce
  <2>4. UpdaterInv'
    BY <1>0, <2>1 DEF IInv, TypeOK, UpdaterInv, Sound, Updater
  <2>5. QED
    BY <2>2, <2>3, <2>4 DEF IInv
<1> SUFFICES ASSUME updater[t].fresh PROVE IInv'
  BY <1>a
<1>b. /\ persisted' = updater[t].copy /\ orphans' = {}
      /\ updater' = [u \in Thread |-> IF u = t THEN Idle
                                       ELSE [updater[u] EXCEPT !.fresh = FALSE]]
      /\ kept' = kept \cup updater[t].keeps /\ gone' = gone \cup updater[t].goes
      /\ UNCHANGED <<up, linkUp, client, memory, commands, results, lost, crashes>>
  BY DEF Commit
<1>c. \A u \in Thread : /\ updater'[u] \in Updater
                        /\ updater'[u].pc # "idle" => u # t
                        /\ u # t => /\ updater'[u].pc = updater[u].pc /\ ~updater'[u].fresh
                                    /\ updater'[u].keeps = updater[u].keeps
                                    /\ updater'[u].goes = updater[u].goes
  BY <1>0, <1>b, IdleFacts DEF Updater
<1>1. TypeOK'
  BY <1>0, <1>b, <1>c DEF IInv, TypeOK
<1>2. ProcessInv'
  BY <1>0, <1>b DEF IInv, ProcessInv, UpdaterInv
<1>3. QueueInv'
  BY <1>0, <1>b DEF IInv, QueueInv, UpdaterInv, Sound
<1>4. UpdaterInv'
  BY <1>0, <1>b, <1>c, IdleFacts DEF IInv, UpdaterInv
<1>5. ResultInv'
  BY <1>b DEF IInv, ResultInv, ResultOnce
<1>6. QED
  BY <1>1, <1>2, <1>3, <1>4, <1>5 DEF IInv

(* A call that fails leaves at most its write behind.                      *)
LEMMA UpdateFailsIInv ==
  ASSUME IInv, NEW t \in Thread, UpdateFails(t)
  PROVE  IInv'
<1> USE NilAssumption DEF memory, registry, commands, returns, results, history
<1>1. TypeOK'
  BY OrphanedFacts, IdleFacts DEF IInv, TypeOK, UpdateFails
<1>2. ProcessInv'
  BY DEF IInv, TypeOK, ProcessInv, UpdateFails, Idle
<1>3. QueueInv'
  BY OrphanedFacts DEF IInv, ProcessInv, QueueInv, Sound, UpdateFails
<1>4. UpdaterInv'
  BY DEF IInv, TypeOK, ProcessInv, QueueInv, UpdaterInv, Sound, UpdateFails, Updater, Idle
<1>5. ResultInv'
  BY DEF IInv, ProcessInv, QueueInv, ResultInv, ResultOnce, Sound, UpdateFails
<1>6. QED
  BY <1>1, <1>2, <1>3, <1>4, <1>5 DEF IInv

(* A write whose sender was killed is sound, and accepted only as long as  *)
(* there has been no other.                                                *)
LEMMA OrphanCommitIInv ==
  ASSUME IInv, OrphanCommit
  PROVE  IInv'
<1> USE NilAssumption DEF memory, registry, commands, returns, results, history
<1>0. /\ persisted' \in orphans /\ persisted' \in Seq(Cmd) /\ orphans' = {}
      /\ updater' = [u \in Thread |-> [updater[u] EXCEPT !.fresh = FALSE]]
      /\ UNCHANGED <<up, linkUp, client, memory, history>>
  BY DEF OrphanCommit, IInv, TypeOK
<1>a. \A u \in Thread : /\ updater'[u] \in Updater
                        /\ updater'[u].pc = updater[u].pc /\ ~updater'[u].fresh
                        /\ updater'[u].keeps = updater[u].keeps
                        /\ updater'[u].goes = updater[u].goes
  BY <1>0, UpdaterFacts DEF IInv, Updater
<1>1. TypeOK'
  BY <1>0, <1>a DEF IInv, TypeOK
<1>2. ProcessInv'
  BY <1>0, <1>a DEF IInv, ProcessInv
<1>3. QueueInv'
  BY <1>0 DEF IInv, ProcessInv, QueueInv, Sound
<1>4. UpdaterInv'
  BY <1>0, <1>a DEF IInv, UpdaterInv
<1>5. ResultInv'
  BY <1>0 DEF IInv, ResultInv, ResultOnce
<1>6. QED
  BY <1>1, <1>2, <1>3, <1>4, <1>5 DEF IInv

(* A new command is appended, so the queue has no duplicates.              *)
LEMMA EnqueueIInv ==
  ASSUME IInv, NEW c \in Cmd, Enqueue(c)
  PROVE  IInv'
<1> USE NilAssumption DEF memory, registry, commands, returns, results, history
<1>0. /\ queue' \in Seq(Cmd) /\ Range(queue') = Range(queue) \cup {c}
      /\ IsInjective(queue) => IsInjective(queue')
      /\ up = "up" /\ c \notin enqueued
  BY AppendFacts DEF Enqueue, Serving, IInv, TypeOK, ProcessInv, QueueInv, Sound
<1>a. /\ updater'["control"].pc = "find" /\ updater'["control"].keeps = {c} /\ updater'["control"].goes = {}
      /\ \A u \in Thread \ {"control"} : updater'[u] = updater[u]
      /\ updater' \in [Thread -> Updater] /\ up = "up" /\ persisted # Nil
  BY UpdaterFacts, EmptySeq DEF Enqueue, Serving, StartUpdate, IInv, TypeOK, ProcessInv, Thread, Updater, UpdaterPc
<1>1. TypeOK'
  BY <1>0, <1>a DEF IInv, TypeOK, Enqueue
<1>2. ProcessInv'
  BY <1>0, <1>a DEF IInv, ProcessInv, Enqueue
<1>3. QueueInv'
  <2>1. /\ enqueued' = enqueued \cup {c}
        /\ UNCHANGED <<up, persisted, orphans, kept, gone, popped, removed>>
    BY DEF Enqueue
  <2>2. \A q : Sound(q) => Sound(q)'
    BY <2>1 DEF Sound
  <2>3. /\ Sound(queue) /\ c \notin Range(queue) /\ c \notin gone
    BY <1>0 DEF IInv, ProcessInv, QueueInv, Sound
  <2>4. Sound(queue)'
    BY <1>0, <2>1, <2>3 DEF Sound
  <2>5. QED
    BY <2>1, <2>2, <2>4 DEF IInv, QueueInv
<1>4. UpdaterInv'
  <2>1. /\ \A u \in Thread \ {"control"} : updater'[u] = updater[u]
        /\ UNCHANGED <<kept, gone, popped, removed>>
        /\ enqueued' = enqueued \cup {c}
    BY <1>a DEF Enqueue
  <2>2. \A u \in Thread : updater[u].goes \subseteq enqueued
    BY DEF IInv, UpdaterInv
  <2>3. QED
    BY <1>0, <1>a, <2>1, <2>2 DEF IInv, UpdaterInv, Sound
<1>5. ResultInv'
  BY <1>0, <1>a DEF IInv, ResultInv, ResultOnce, Enqueue
<1>6. QED
  BY <1>1, <1>2, <1>3, <1>4, <1>5 DEF IInv

(* What is taken off leaves the queue and the dictionary together.         *)
LEMMA RemoveIInv ==
  ASSUME IInv, NEW S \in SUBSET Cmd, Remove(S)
  PROVE  IInv'
<1> USE NilAssumption DEF memory, registry, commands, returns, results, history
<1>0. /\ queue' \in Seq(Cmd) /\ Range(queue') = Range(queue) \ S
      /\ IsInjective(queue) => IsInjective(queue')
      /\ S \subseteq Range(queue) /\ up = "up"
  BY WithoutFacts DEF Remove, Serving, IInv, TypeOK
<1>a. /\ updater'["control"].pc = "find" /\ updater'["control"].keeps = {} /\ updater'["control"].goes = S
      /\ \A u \in Thread \ {"control"} : updater'[u] = updater[u]
      /\ updater' \in [Thread -> Updater] /\ up = "up" /\ persisted # Nil
  BY UpdaterFacts, EmptySeq DEF Remove, Serving, StartUpdate, IInv, TypeOK, ProcessInv, Thread, Updater, UpdaterPc
<1>1. TypeOK'
  BY <1>0, <1>a DEF IInv, TypeOK, Remove
<1>2. ProcessInv'
  BY <1>0, <1>a DEF IInv, ProcessInv, Remove
<1>3. QueueInv'
  BY <1>0, <1>a DEF IInv, QueueInv, Sound, Remove
<1>4. UpdaterInv'
  BY <1>0, <1>a DEF IInv, QueueInv, UpdaterInv, Sound, Remove
<1>5. ResultInv'
  BY <1>0, <1>a DEF IInv, ResultInv, ResultOnce, Remove
<1>6. QED
  BY <1>1, <1>2, <1>3, <1>4, <1>5 DEF IInv

(* A transmission changes only what has been transmitted.                  *)
LEMMA TransmitIInv ==
  ASSUME IInv, Transmit
  PROVE  IInv'
<1> USE NilAssumption DEF memory, registry, commands, returns, results, history
<1>0. Head(queue) \in Cmd
  BY TailFacts DEF Transmit, Looping, IInv, TypeOK
<1>1. TypeOK'
  BY <1>0 DEF IInv, TypeOK, Transmit
<1>2. ProcessInv'
  BY DEF IInv, TypeOK, ProcessInv, Transmit, Idle
<1>3. QueueInv'
  BY DEF IInv, ProcessInv, QueueInv, Sound, Transmit
<1>4. UpdaterInv'
  BY DEF IInv, TypeOK, ProcessInv, QueueInv, UpdaterInv, Sound, Transmit, Updater, Idle
<1>5. ResultInv'
  BY DEF IInv, ProcessInv, QueueInv, ResultInv, ResultOnce, Sound, Transmit
<1>6. QED
  BY <1>1, <1>2, <1>3, <1>4, <1>5 DEF IInv

(* The ack takes the head off a queue without duplicates.                  *)
LEMMA AcknowledgeIInv ==
  ASSUME IInv, Acknowledge
  PROVE  IInv'
<1> USE NilAssumption DEF memory, registry, commands, returns, results, history
<1>0. /\ queue # <<>> /\ up = "up" /\ Head(queue) \in Cmd /\ queue' = Tail(queue)
      /\ queue' \in Seq(Cmd) /\ Range(queue) = Range(queue') \cup {Head(queue)}
      /\ IsInjective(queue') /\ Head(queue) \notin Range(queue')
  BY TailFacts DEF Acknowledge, Looping, IInv, TypeOK, ProcessInv, QueueInv, Sound
<1>a. /\ updater'["client"].pc = "find" /\ updater'["client"].keeps = {} /\ updater'["client"].goes = {Head(queue)}
      /\ \A u \in Thread \ {"client"} : updater'[u] = updater[u]
      /\ updater' \in [Thread -> Updater] /\ up = "up" /\ persisted # Nil
  BY UpdaterFacts, EmptySeq, <1>0 DEF Acknowledge, Looping, StartUpdate, IInv, TypeOK, ProcessInv, Thread, Updater, UpdaterPc
<1>1. TypeOK'
  BY <1>0, <1>a DEF IInv, TypeOK, Acknowledge
<1>2. ProcessInv'
  BY <1>0, <1>a DEF IInv, ProcessInv, Acknowledge
<1>3. QueueInv'
  BY <1>0, <1>a DEF IInv, QueueInv, Sound, Acknowledge
<1>4. UpdaterInv'
  BY <1>0, <1>a DEF IInv, QueueInv, UpdaterInv, Sound, Acknowledge
<1>5. ResultInv'
  BY <1>0, <1>a DEF IInv, ResultInv, ResultOnce, Acknowledge
<1>6. QED
  BY <1>1, <1>2, <1>3, <1>4, <1>5 DEF IInv

(* A result is published if its command is in the dictionary.              *)
LEMMA ResultIInv ==
  ASSUME IInv, NEW c \in Cmd, Result(c)
  PROVE  IInv'
<1> USE NilAssumption DEF memory, registry, commands, returns, results, history
<1>1. TypeOK'
  BY DEF IInv, TypeOK, Result, Updater, UpdaterPc
<1>2. ProcessInv'
  BY DEF IInv, TypeOK, ProcessInv, Result, Idle
<1>3. QueueInv'
  BY DEF IInv, ProcessInv, QueueInv, Sound, Result
<1>4. UpdaterInv'
  BY DEF IInv, TypeOK, ProcessInv, QueueInv, UpdaterInv, Sound, Result, Updater, Idle
<1>5. ResultInv'
  BY DEF IInv, ProcessInv, QueueInv, ResultInv, ResultOnce, Sound, Result
<1>6. QED
  BY <1>1, <1>2, <1>3, <1>4, <1>5 DEF IInv

(* Telemetry: the client starts.                                           *)
LEMMA LinkUpIInv ==
  ASSUME IInv, LinkUp
  PROVE  IInv'
<1> USE NilAssumption DEF memory, registry, commands, returns, results, history
<1>1. TypeOK'
  BY DEF IInv, TypeOK, LinkUp, Updater, UpdaterPc
<1>2. ProcessInv'
  BY DEF IInv, TypeOK, ProcessInv, LinkUp, Idle
<1>3. QueueInv'
  BY DEF IInv, ProcessInv, QueueInv, Sound, LinkUp
<1>4. UpdaterInv'
  BY DEF IInv, TypeOK, ProcessInv, QueueInv, UpdaterInv, Sound, LinkUp, Updater, Idle
<1>5. ResultInv'
  BY DEF IInv, ProcessInv, QueueInv, ResultInv, ResultOnce, Sound, LinkUp
<1>6. QED
  BY <1>1, <1>2, <1>3, <1>4, <1>5 DEF IInv

(* Telemetry: the client is killed, perhaps in its ack callback.           *)
LEMMA LinkDownIInv ==
  ASSUME IInv, LinkDown
  PROVE  IInv'
<1> USE NilAssumption DEF memory, registry, commands, returns, results, history
<1>0. "client" \in Thread
  BY DEF Thread
<1>1. TypeOK'
  BY <1>0, OrphanedFacts, IdleFacts DEF IInv, TypeOK, LinkDown
<1>2. ProcessInv'
  BY <1>0, OrphanedFacts, UpdaterFacts, IdleFacts DEF IInv, ProcessInv, LinkDown
<1>3. QueueInv'
  BY <1>0, OrphanedFacts DEF IInv, QueueInv, Sound, LinkDown
<1>4. UpdaterInv'
  BY DEF IInv, TypeOK, ProcessInv, QueueInv, UpdaterInv, Sound, LinkDown, Updater, Idle
<1>5. ResultInv'
  BY DEF IInv, ProcessInv, QueueInv, ResultInv, ResultOnce, Sound, LinkDown
<1>6. QED
  BY <1>1, <1>2, <1>3, <1>4, <1>5 DEF IInv

(* The process starts with nothing in memory.                              *)
LEMMA StartIInv ==
  ASSUME IInv, Start
  PROVE  IInv'
<1> USE NilAssumption DEF memory, registry, commands, returns, results, history
<1>1. TypeOK'
  BY DEF IInv, TypeOK, Start, Updater, UpdaterPc
<1>2. ProcessInv'
  BY DEF IInv, TypeOK, ProcessInv, Start, Idle
<1>3. QueueInv'
  BY DEF IInv, ProcessInv, QueueInv, Sound, Start
<1>4. UpdaterInv'
  BY DEF IInv, TypeOK, ProcessInv, QueueInv, UpdaterInv, Sound, Start, Updater, Idle
<1>5. ResultInv'
  BY DEF IInv, ProcessInv, QueueInv, ResultInv, ResultOnce, Sound, Start
<1>6. QED
  BY <1>1, <1>2, <1>3, <1>4, <1>5 DEF IInv

(* What is restored is what was persisted.                                 *)
LEMMA RestoreIInv ==
  ASSUME IInv, Restore
  PROVE  IInv'
<1> USE NilAssumption DEF memory, registry, commands, returns, results, history
<1>0. /\ queue = <<>> /\ up = "starting"
      /\ persisted # Nil => /\ persisted \in Seq(Cmd) /\ queue' = persisted
                            /\ Range(queue') \subseteq Cmd
  BY ConcatEmptySeq DEF Restore, IInv, TypeOK, ProcessInv, Range
<1>a. <<>> \in Seq(Cmd) /\ Range(<<>>) = {} /\ IsInjective(<<>>)
  BY EmptySeq DEF Range, IsInjective
<1>1. TypeOK'
  <2>1. CASE persisted = Nil
    BY <1>0, <1>a, <2>1 DEF IInv, TypeOK, Restore
  <2>2. CASE persisted # Nil
    BY <1>0, <2>2 DEF IInv, TypeOK, Restore
  <2>3. QED
    BY <2>1, <2>2
<1>2. ProcessInv'
  BY DEF IInv, TypeOK, ProcessInv, Restore, Idle
<1>3. QueueInv'
  <2>1. CASE persisted = Nil
    <3>1. queue' = <<>> /\ persisted' = <<>> /\ orphans' = {} /\ kept' = {} /\ gone' = {}
      BY <1>0, <2>1 DEF IInv, ProcessInv, Restore
    <3>2. QED
      BY <1>a, <3>1 DEF QueueInv, Sound
  <2>2. CASE persisted # Nil
    BY <1>0, <2>2 DEF IInv, QueueInv, Sound, Restore
  <2>3. QED
    BY <2>1, <2>2
<1>4. UpdaterInv'
  BY DEF IInv, TypeOK, ProcessInv, QueueInv, UpdaterInv, Sound, Restore, Updater, Idle
<1>5. ResultInv'
  BY DEF IInv, ProcessInv, QueueInv, ResultInv, ResultOnce, Sound, Restore
<1>6. QED
  BY <1>1, <1>2, <1>3, <1>4, <1>5 DEF IInv

(* A crash leaves behind what was sent to the registry.                    *)
LEMMA CrashIInv ==
  ASSUME IInv, Crash
  PROVE  IInv'
<1> USE NilAssumption DEF memory, registry, commands, returns, results, history
<1>0. /\ "client" \in Thread /\ "control" \in Thread
      /\ queue' \in Seq(Cmd) /\ crashes' \in 0..MaxCrashes
      /\ \A t \in Thread : updater'[t] = Idle
      /\ updater' \in [Thread -> Updater]
  BY BoundAssumption, IdleFacts, EmptySeq DEF Thread, Crash, IInv, TypeOK
<1>1. TypeOK'
  BY <1>0, OrphanedFacts DEF IInv, TypeOK, Crash
<1>2. ProcessInv'
  BY <1>0, OrphanedFacts, IdleFacts DEF IInv, ProcessInv, Crash
<1>3. QueueInv'
  BY <1>0, OrphanedFacts DEF IInv, QueueInv, Sound, Crash
<1>4. UpdaterInv'
  BY <1>0, IdleFacts DEF UpdaterInv
<1>5. ResultInv'
  BY DEF IInv, ProcessInv, QueueInv, ResultInv, ResultOnce, Sound, Crash
<1>6. QED
  BY <1>1, <1>2, <1>3, <1>4, <1>5 DEF IInv

LEMMA StepIInv ==
  ASSUME IInv, [Next]_vars
  PROVE  IInv'
<1>1. CASE Next
  BY <1>1, FindIInv, CopyIInv, CommitIInv, UpdateFailsIInv, OrphanCommitIInv, EnqueueIInv,
     RemoveIInv, TransmitIInv, AcknowledgeIInv, ResultIInv, LinkUpIInv, LinkDownIInv,
     StartIInv, RestoreIInv, CrashIInv
  DEF Next, Update
<1>2. CASE UNCHANGED vars
  <2>1. TypeOK' /\ ProcessInv'
    BY <1>2 DEF vars, memory, registry, commands, returns, results, history, IInv, TypeOK, ProcessInv
  <2>2. QueueInv' /\ UpdaterInv' /\ ResultInv'
    BY <1>2 DEF vars, memory, registry, commands, returns, results, history, IInv, QueueInv,
                UpdaterInv, Sound, ResultInv, ResultOnce
  <2>3. QED
    BY <2>1, <2>2 DEF IInv
<1>3. QED
  BY <1>1, <1>2

(* The inductive invariant holds in every reachable state.                 *)
THEOREM Invariance == Spec => []IInv
<1>1. IInv /\ [Next]_vars => IInv'
  BY StepIInv
<1>2. QED
  BY <1>1, InitIInv, PTL DEF Spec

(* Type correctness of the endpoint.                                       *)
THEOREM TypeCorrect == Spec => []TypeOK
<1>1. IInv => TypeOK
  BY DEF IInv
<1>2. QED
  BY <1>1, Invariance, PTL

(* No crash, killed greenlet or stale write loses a command whose          *)
(* enqueue_command has returned.                                           *)
THEOREM CommandsAreDurable == Spec => []Durable
<1>1. IInv => Durable
  BY DEF IInv, QueueInv, Sound, Durable
<1>2. QED
  BY <1>1, Invariance, PTL

(* No stale write and no restart brings back a command whose taking off    *)
(* has been persisted.                                                     *)
THEOREM NothingComesBack == Spec => []GoneStaysGone
<1>1. IInv => GoneStaysGone
  <2>1. ASSUME IInv, up # "up" PROVE gone \cap Range(queue) = {}
    BY <2>1 DEF IInv, ProcessInv, Range
  <2>2. QED
    BY <2>1 DEF IInv, TypeOK, ProcessInv, QueueInv, Sound, GoneStaysGone
<1>2. QED
  BY <1>1, Invariance, PTL

(* Results are published at most once in a life of the process and dropped *)
(* only for commands that were taken off.                                  *)
THEOREM ResultsAreMatched == Spec => []ResultOnce
<1>1. IInv => ResultOnce
  BY DEF IInv, ResultInv
<1>2. QED
  BY <1>1, Invariance, PTL

(* A greenlet that is updating the persistent queue will write the queue   *)
(* as it is, or read the resource again.                                   *)
WritesQueue(t) ==
  LET u == updater[t] IN u.pc # "idle" /\ (u.pc = "update" /\ u.fresh => u.copy = queue)

(* The inductive invariant behind Settled, beside IInv: unless an update   *)
(* was killed, somebody will write the queue as it is or nobody writes at  *)
(* all, not even one that was killed.                                      *)
SettledInv ==
  /\ up # "up" /\ ~lost => persisted = Nil
  /\ up = "up" /\ ~lost =>
       \/ \E t \in Thread : WritesQueue(t)
       \/ persisted = queue /\ orphans = {} /\ \A t \in Thread : updater[t].pc = "idle"

LEMMA UpdateSettles ==
  ASSUME IInv, SettledInv, Update \/ OrphanCommit
  PROVE  SettledInv'
<1> USE DEF memory, registry, commands, returns, results, history
<1>a. \A t \in Thread : updater[t] \in Updater /\ (updater[t].pc # "idle" => up = "up")
  BY DEF IInv, TypeOK, ProcessInv
<1>1. ASSUME NEW t \in Thread, Find(t) PROVE SettledInv'
  <2>1. updater' = [updater EXCEPT ![t].pc = "copy", ![t].fresh = TRUE] /\ UNCHANGED <<up, lost>> /\ up = "up"
    BY <1>1, <1>a DEF Find
  <2>2. updater'[t].pc = "copy"
    BY <2>1, <1>a DEF IInv, TypeOK, Updater
  <2>3. WritesQueue(t)'
    BY <2>2 DEF WritesQueue
  <2>4. QED
    BY <2>1, <2>3 DEF SettledInv
<1>2. ASSUME NEW t \in Thread, Copy(t) PROVE SettledInv'
  <2>1. updater' = [updater EXCEPT ![t].pc = "update", ![t].copy = queue] /\ UNCHANGED <<up, queue>> /\ up = "up"
    BY <1>2, <1>a DEF Copy
  <2>2. updater'[t].pc = "update" /\ updater'[t].copy = queue
    BY <2>1, <1>a DEF IInv, TypeOK, Updater
  <2>3. WritesQueue(t)'
    BY <2>1, <2>2 DEF WritesQueue
  <2>4. QED
    BY <2>1, <2>3 DEF SettledInv
<1>3. ASSUME NEW t \in Thread, Commit(t) PROVE SettledInv'
  <2>1. UNCHANGED <<up, queue, lost>> /\ updater[t].pc = "update" /\ up = "up"
    BY <1>3, <1>a DEF Commit
  <2>2. CASE ~updater[t].fresh
    <3>1. updater' = [updater EXCEPT ![t].pc = "find"]
      BY <1>3, <2>2 DEF Commit
    <3>2. updater'[t].pc = "find"
      BY <3>1, <1>a DEF IInv, TypeOK, Updater
    <3>3. WritesQueue(t)'
      BY <3>2 DEF WritesQueue
    <3>4. QED
      BY <2>1, <3>3 DEF SettledInv
  <2>3. CASE updater[t].fresh
    <3>1. /\ persisted' = updater[t].copy /\ orphans' = {}
          /\ updater' = [u \in Thread |-> IF u = t THEN Idle ELSE [updater[u] EXCEPT !.fresh = FALSE]]
      BY <1>3, <2>3 DEF Commit
    <3>2. ASSUME NEW u \in Thread, u # t, updater[u].pc # "idle" PROVE WritesQueue(u)'
      <4>1. updater'[u].pc = updater[u].pc /\ updater'[u].fresh = FALSE
        BY <3>1, <3>2, <1>a DEF Updater
      <4>2. QED
        BY <3>2, <4>1 DEF WritesQueue
    <3>3. CASE \E u \in Thread : u # t /\ updater[u].pc # "idle"
      BY <2>1, <3>2, <3>3 DEF SettledInv
    <3>4. CASE \A u \in Thread : u # t => updater[u].pc = "idle"
      <4>1. ASSUME ~lost PROVE updater[t].copy = queue
        BY <2>1, <2>3, <3>4, <4>1 DEF SettledInv, WritesQueue
      <4>2. \A u \in Thread : updater'[u].pc = "idle"
        BY <3>1, <3>4, <1>a DEF Updater, Idle
      <4>3. QED
        BY <2>1, <3>1, <4>1, <4>2 DEF SettledInv
    <3>5. QED
      BY <3>3, <3>4
  <2>4. QED
    BY <2>2, <2>3
<1>4. ASSUME NEW t \in Thread, UpdateFails(t) PROVE SettledInv'
  BY <1>4 DEF UpdateFails, SettledInv
<1>5. ASSUME OrphanCommit PROVE SettledInv'
  <2>1. /\ orphans # {} /\ UNCHANGED <<up, queue, lost>> /\ persisted # Nil
        /\ updater' = [u \in Thread |-> [updater[u] EXCEPT !.fresh = FALSE]]
    BY <1>5 DEF OrphanCommit, IInv, ProcessInv
  <2>2. \A u \in Thread : updater[u].pc # "idle" => WritesQueue(u)'
    <3>1. \A u \in Thread : updater'[u].pc = updater[u].pc /\ updater'[u].fresh = FALSE
      BY <2>1, <1>a DEF Updater
    <3>2. QED
      BY <3>1 DEF WritesQueue
  <2>3. QED
    BY <2>1, <2>2 DEF SettledInv, WritesQueue
<1>6. QED
  BY <1>1, <1>2, <1>3, <1>4, <1>5 DEF Update

LEMMA StepSettles ==
  ASSUME IInv, SettledInv, [Next]_vars
  PROVE  SettledInv'
<1> USE DEF memory, registry, commands, returns, results, history
<1>a. updater \in [Thread -> Updater] /\ "control" \in Thread /\ "client" \in Thread
  BY DEF IInv, TypeOK, Thread
<1>1. CASE Update \/ OrphanCommit
  BY <1>1, UpdateSettles
<1>2. ASSUME NEW t \in Thread, NEW K, NEW G, StartUpdate(t, K, G), updater[t].pc = "idle",
             UNCHANGED <<up, lost, persisted>>
      PROVE  SettledInv'
  <2>1. updater'[t].pc = "find"
    BY <1>2, <1>a DEF StartUpdate
  <2>2. WritesQueue(t)'
    BY <2>1 DEF WritesQueue
  <2>3. QED
    BY <1>2, <2>2 DEF SettledInv
<1>3. ASSUME NEW c \in Cmd, Enqueue(c) PROVE SettledInv'
  BY <1>2, <1>3, <1>a DEF Enqueue, Serving
<1>4. ASSUME NEW S \in SUBSET Cmd, Remove(S) PROVE SettledInv'
  BY <1>2, <1>4, <1>a DEF Remove, Serving
<1>5. CASE Acknowledge
  BY <1>2, <1>5, <1>a DEF Acknowledge, Looping
<1>6. CASE UNCHANGED vars \/ Transmit \/ LinkUp \/ \E c \in Cmd : Result(c)
  <2>1. UNCHANGED <<up, lost, persisted, queue, orphans, updater>>
    BY <1>6 DEF vars, Transmit, LinkUp, Result
  <2>2. QED
    BY <2>1 DEF SettledInv, WritesQueue
<1>7. CASE LinkDown
  <2>1. CASE updater["client"].pc = "idle"
    <3>1. UNCHANGED <<up, lost, persisted, queue, orphans>>
      BY <1>7, <2>1 DEF LinkDown, Orphaned, IInv, TypeOK
    <3>2. \A t \in Thread : updater'[t] = IF t = "client" THEN Idle ELSE updater[t]
      BY <1>7, <1>a DEF LinkDown
    <3>3. \A t \in Thread : updater'[t].pc = updater[t].pc /\ (WritesQueue(t) => WritesQueue(t)')
      BY <2>1, <3>1, <3>2 DEF Idle, WritesQueue
    <3>4. QED
      BY <3>1, <3>3 DEF SettledInv
  <2>2. CASE updater["client"].pc # "idle"
    BY <1>7, <2>2 DEF LinkDown, SettledInv
  <2>3. QED
    BY <2>1, <2>2
<1>8. CASE Start
  BY <1>8 DEF Start, SettledInv
<1>9. CASE Restore
  <2>1. /\ up # "up" /\ queue = <<>> /\ UNCHANGED <<lost, orphans, updater>>
        /\ \A t \in Thread : updater[t].pc = "idle"
    BY <1>9 DEF Restore, IInv, ProcessInv
  <2>2. ASSUME ~lost' PROVE persisted = Nil /\ orphans = {} /\ persisted' = <<>> /\ queue' = queue
    BY <1>9, <2>1, <2>2 DEF Restore, SettledInv, IInv, ProcessInv
  <2>3. up' = "up"
    BY <1>9 DEF Restore
  <2>4. QED
    BY <2>1, <2>2, <2>3 DEF SettledInv
<1>10. CASE Crash
  BY <1>10 DEF Crash, SettledInv
<1>11. QED
  BY <1>1, <1>3, <1>4, <1>5, <1>6, <1>7, <1>8, <1>9, <1>10 DEF Next

(* The persistent queue settles on the queue in memory: neither a write    *)
(* that conflicts with another nor one that was killed is the last one,    *)
(* unless an update was killed and none has begun since.                   *)
THEOREM QueueSettles == Spec => []Settled
<1>1. Init => SettledInv
  BY DEF Init, SettledInv
<1>2. IInv /\ SettledInv /\ [Next]_vars => SettledInv'
  BY StepSettles
<1>3. SettledInv => Settled
  BY DEF SettledInv, Settled, WritesQueue
<1>4. QED
  BY <1>1, <1>2, <1>3, Invariance, PTL DEF Spec

-----------------------------------------------------------------------------
(* An organization                                                         *)

LEMMA OrgCardinality == \A S : OM!Cardinality(S) = Cardinality(S)
  <1>1. \A S : OM!IsFiniteSet(S) = IsFiniteSet(S)
    BY DEF OM!IsFiniteSet, IsFiniteSet
  <1>2. QED
    BY <1>1 DEF OM!Cardinality, Cardinality

(* At most one element: a set any two elements of which are equal.         *)
LEMMA AtMostOne ==
  ASSUME NEW S, \A c, d \in S : c = d PROVE Cardinality(S) <= 1
  <1>1. CASE S = {}
    BY <1>1, FS_EmptySet
  <1>2. CASE S # {}
    <2>1. PICK c \in S : S = {c}
      BY <1>2
    <2>2. Cardinality({c}) = 1
      BY FS_Singleton
    <2>3. QED
      BY <2>1, <2>2
  <1>3. QED
    BY <1>1, <1>2

Acquisition == {"AcquireResource", "AcquireResourceExclusive"}
Proposal == {n \in [kind : OM!Kind, resource : Resource \cup {Nil}, expiration : Nat, accepted : BOOLEAN] :
               n.kind \in Acquisition => n.resource \in Resource}

OrgTypeOK ==
  /\ omNow \in Nat
  /\ omRoles \subseteq Actor \X OM!Role
  /\ omCommitments \subseteq [consumer : Actor, resource : Resource, exclusive : BOOLEAN, expiration : Nat]
  /\ omNegotiation \in [Actor -> Proposal \cup {Nil}]
  /\ omRequest \in [Instance -> OM!Request \cup {Nil}]

(* What the request in progress relies on: a role is added to a member,    *)
(* the roles still to be revoked are all that the actor has, and once the  *)
(* provider has accepted an exclusive acquisition nobody has the resource. *)
AddsToMember(i) ==
  /\ OM!Doing(i, "role") => omRequest[i].actor \in omMember
  /\ (\E do \in {"membership", "enrolled", "role"} : OM!Doing(i, do)) => omRequest[i].role \in OM!Role
FoundAll(i) == OM!Doing(i, "unrole") => \A r \in OM!Role : <<omRequest[i].actor, r>> \in omRoles => r \in omRequest[i].todo
Negotiated(i) ==
  LET n == omNegotiation[omRequest[i].actor] IN
  /\ (\E do \in {"decide", "accept", "commit"} : OM!Doing(i, do)) => n \in Proposal
  /\ OM!Doing(i, "commit") => n.kind \in Acquisition
  /\ OM!Doing(i, "decide") => n.kind = "AcquireResourceExclusive"
NobodyHas(i) ==
  LET n == omNegotiation[omRequest[i].actor] IN
  (OM!Doing(i, "accept") \/ OM!Doing(i, "commit")) /\ n.kind = "AcquireResourceExclusive" =>
    OM!Exclusive(Actor, n.resource) = {}
OneHolder == \A x \in Resource : \A c, d \in OM!Exclusive(Actor, x) : c = d

OrgInv ==
  /\ OrgTypeOK /\ OM!RolesOfMembers /\ OneHolder
  /\ \A i \in Instance : AddsToMember(i) /\ FoundAll(i) /\ Negotiated(i) /\ NobodyHas(i)

LEMMA InitOrg == OM!Init => OrgInv
  BY DEF OM!Init, OrgInv, OrgTypeOK, OM!RolesOfMembers, OneHolder, OM!Exclusive, AddsToMember, FoundAll,
         Negotiated, NobodyHas, OM!Doing, OM!Request

(* Nobody acquires anything exclusively because time passes or commitments *)
(* are released.                                                           *)
LEMMA FewerHolders ==
  ASSUME OrgInv, omNow' \in Nat, omNow <= omNow', omCommitments' \subseteq omCommitments
  PROVE  \A x : OM!Exclusive(Actor, x)' \subseteq OM!Exclusive(Actor, x)
  <1>1. \A c \in omCommitments : c.expiration \in Nat
    BY DEF OrgInv, OrgTypeOK
  <1>2. omNow \in Nat
    BY DEF OrgInv, OrgTypeOK
  <1>3. QED
    BY <1>1, <1>2 DEF OM!Exclusive

(* What every step keeps when no request is served and no one is enrolled. *)
LEMMA RequestsOfOne ==
  ASSUME OrgInv, \A j, k \in Instance : j = k, NEW i \in Instance, omRequest[i] = Nil,
         UNCHANGED <<omNow, omNegotiation, omRequest>>, omMember' = omMember, OrgTypeOK', OM!RolesOfMembers',
         omCommitments' \subseteq omCommitments
  PROVE  OrgInv'
  <1>1. omNow' \in Nat /\ omNow <= omNow'
    BY DEF OrgInv, OrgTypeOK
  <1>2. OneHolder'
    BY <1>1, FewerHolders DEF OrgInv, OneHolder
  <1>3. \A j \in Instance : omRequest'[j] = Nil
    OBVIOUS
  <1>4. QED
    BY <1>2, <1>3 DEF OrgInv, AddsToMember, FoundAll, Negotiated, NobodyHas, OM!Doing

(* A request begins or ends, and nothing else changes.                     *)
LEMMA RequestChanges ==
  ASSUME OrgInv, \A j, k \in Instance : j = k, NEW i \in Instance, NEW r \in OM!Request \cup {Nil},
         omRequest' = [omRequest EXCEPT ![i] = r], UNCHANGED <<omNow, omMember, omRoles, omShared, omCommitments>>,
         omNegotiation' \in [Actor -> Proposal \cup {Nil}],
         r # Nil => AddsToMember(i)' /\ FoundAll(i)' /\ Negotiated(i)' /\ NobodyHas(i)'
  PROVE  OrgInv'
  <1>1. omRequest'[i] = r /\ \A j \in Instance : j = i
    BY DEF OrgInv, OrgTypeOK
  <1>2. OrgTypeOK' /\ OM!RolesOfMembers'
    BY DEF OrgInv, OrgTypeOK, OM!RolesOfMembers
  <1>3. OneHolder'
    BY DEF OrgInv, OneHolder, OM!Exclusive
  <1>4. r = Nil => AddsToMember(i)' /\ FoundAll(i)' /\ Negotiated(i)' /\ NobodyHas(i)'
    BY <1>1 DEF AddsToMember, FoundAll, Negotiated, NobodyHas, OM!Doing
  <1>5. QED
    BY <1>1, <1>2, <1>3, <1>4 DEF OrgInv

(* The request ends.                                                       *)
LEMMA NoRequest ==
  ASSUME OrgInv, \A j, k \in Instance : j = k, NEW i \in Instance, omRequest' = [omRequest EXCEPT ![i] = Nil],
         OrgTypeOK', OM!RolesOfMembers', OneHolder'
  PROVE  OrgInv'
  <1>1. \A j \in Instance : omRequest'[j] = Nil
    BY DEF OrgInv, OrgTypeOK
  <1>2. QED
    BY <1>1 DEF OrgInv, AddsToMember, FoundAll, Negotiated, NobodyHas, OM!Doing

LEMMA StepOrg ==
  ASSUME OrgInv, OM!OrgAssumption, OM!BoundAssumption, \A j, k \in Instance : j = k, [OM!Next]_(OM!vars) PROVE OrgInv'
  <1>1. CASE UNCHANGED OM!vars \/ OM!Tick
    <2>1. omNow' \in Nat /\ omNow <= omNow' /\ UNCHANGED <<omMember, omRoles, omShared, omCommitments, omNegotiation, omRequest>>
      BY <1>1 DEF OM!vars, OM!Tick, OrgInv, OrgTypeOK
    <2>2. \A x : OM!Exclusive(Actor, x)' \subseteq OM!Exclusive(Actor, x)
      BY <2>1, FewerHolders
    <2>3. QED
      BY <2>1, <2>2 DEF OrgInv, OrgTypeOK, OM!RolesOfMembers, OneHolder, AddsToMember, FoundAll, Negotiated, NobodyHas, OM!Doing
  <1>2. ASSUME NEW i \in Instance PROVE omRequest[i] \in OM!Request \cup {Nil} /\ omNegotiation \in [Actor -> Proposal \cup {Nil}]
    BY DEF OrgInv, OrgTypeOK
  <1>3. ASSUME NEW i \in Instance, OM!Raises(i) PROVE OrgInv'
    BY <1>2, <1>3, RequestChanges DEF OM!Raises, OM!End
  <1>4. ASSUME NEW i \in Instance, NEW a \in Actor, OM!BeginEnrollMember(i, a) \/ OM!BeginCancel(i, a) PROVE OrgInv'
    <2>1. PICK do \in {"membership", "roles"}, r \in OM!Role \cup {Nil} :
            /\ do = "membership" => r \in OM!Role
            /\ omRequest' = [omRequest EXCEPT ![i] = [do |-> do, actor |-> a, role |-> r, todo |-> {}]]
            /\ UNCHANGED <<omNow, omMember, omRoles, omShared, omCommitments, omNegotiation>>
      BY <1>4 DEF OM!BeginEnrollMember, OM!BeginCancel, OM!Receive, OM!Role
    <2>2. [do |-> do, actor |-> a, role |-> r, todo |-> {}] \in OM!Request
      BY DEF OM!Request
    <2>3. omRequest'[i].do = do /\ omRequest'[i].role = r
      BY <1>2, <2>1 DEF OrgInv, OrgTypeOK
    <2>4. AddsToMember(i)' /\ FoundAll(i)' /\ Negotiated(i)' /\ NobodyHas(i)'
      BY <2>1, <2>3 DEF AddsToMember, FoundAll, Negotiated, NobodyHas, OM!Doing
    <2>5. QED
      BY <1>2, <2>1, <2>2, <2>4, RequestChanges
  <1>5. ASSUME NEW i \in Instance, NEW a \in Actor, NEW r \in OM!Role, OM!BeginGrantRole(i, a, r) PROVE OrgInv'
    <2>1. /\ omRequest' = [omRequest EXCEPT ![i] = [do |-> "enrolled", actor |-> a, role |-> r, todo |-> {}]]
          /\ UNCHANGED <<omNow, omMember, omRoles, omShared, omCommitments, omNegotiation>>
      BY <1>5 DEF OM!BeginGrantRole, OM!Receive
    <2>2. [do |-> "enrolled", actor |-> a, role |-> r, todo |-> {}] \in OM!Request
      BY DEF OM!Request
    <2>3. omRequest'[i].do = "enrolled" /\ omRequest'[i].role = r
      BY <2>1 DEF OrgInv, OrgTypeOK
    <2>4. AddsToMember(i)' /\ FoundAll(i)' /\ Negotiated(i)' /\ NobodyHas(i)'
      BY <2>3 DEF AddsToMember, FoundAll, Negotiated, NobodyHas, OM!Doing
    <2>5. QED
      BY <1>2, <2>1, <2>2, <2>4, RequestChanges
  <1>6. ASSUME NEW i \in Instance, NEW a \in Actor, NEW r \in OM!Role, OM!RevokeRole(i, a, r) PROVE OrgInv'
    <2>1. omRoles' \subseteq omRoles /\ UNCHANGED <<omNow, omMember, omShared, omCommitments, omNegotiation, omRequest>> /\ omRequest[i] = Nil
      BY <1>6 DEF OM!RevokeRole
    <2>2. OrgTypeOK' /\ OM!RolesOfMembers'
      BY <2>1 DEF OrgInv, OrgTypeOK, OM!RolesOfMembers
    <2>3. QED
      BY <2>1, <2>2, RequestsOfOne
  <1>7. ASSUME NEW i \in Instance, NEW x \in Resource, OM!ShareResource(i, x) \/ OM!UnshareResource(i, x) PROVE OrgInv'
    <2>1. UNCHANGED <<omNow, omMember, omRoles, omCommitments, omNegotiation, omRequest>> /\ omRequest[i] = Nil
      BY <1>7 DEF OM!ShareResource, OM!UnshareResource
    <2>2. OrgTypeOK' /\ OM!RolesOfMembers'
      BY <2>1 DEF OrgInv, OrgTypeOK, OM!RolesOfMembers
    <2>3. QED
      BY <2>1, <2>2, RequestsOfOne
  <1>8. ASSUME NEW i \in Instance, NEW c \in omCommitments, OM!ReleaseCommitment(i, c) PROVE OrgInv'
    <2>1. UNCHANGED <<omNow, omMember, omRoles, omShared, omNegotiation, omRequest>> /\ omRequest[i] = Nil /\ omCommitments' \subseteq omCommitments
      BY <1>8 DEF OM!ReleaseCommitment
    <2>2. OrgTypeOK' /\ OM!RolesOfMembers'
      BY <2>1 DEF OrgInv, OrgTypeOK, OM!RolesOfMembers
    <2>3. QED
      BY <2>1, <2>2, RequestsOfOne
  <1>9. ASSUME NEW i \in Instance, OM!CreateMembership(i) PROVE OrgInv'
    <2>1. /\ omRequest[i] \in OM!Request /\ omMember' = omMember \cup {omRequest[i].actor}
          /\ omRequest' = [omRequest EXCEPT ![i].do = "role"]
          /\ UNCHANGED <<omNow, omRoles, omShared, omCommitments, omNegotiation>> /\ omRequest[i].role \in OM!Role
      BY <1>2, <1>9 DEF OM!CreateMembership, OM!Doing, OM!Then, OrgInv, AddsToMember
    <2>2. omRequest'[i] \in OM!Request /\ omRequest'[i].do = "role" /\ omRequest'[i].actor = omRequest[i].actor
          /\ omRequest'[i].role = omRequest[i].role
      BY <2>1 DEF OrgInv, OrgTypeOK, OM!Request
    <2>3. OrgTypeOK' /\ OM!RolesOfMembers' /\ OneHolder'
      BY <2>1, <2>2 DEF OrgInv, OrgTypeOK, OM!RolesOfMembers, OneHolder, OM!Exclusive
    <2>4. \A j \in Instance : j = i
      OBVIOUS
    <2>5. AddsToMember(i)' /\ FoundAll(i)' /\ Negotiated(i)' /\ NobodyHas(i)'
      BY <2>1, <2>2 DEF AddsToMember, FoundAll, Negotiated, NobodyHas, OM!Doing
    <2>6. QED
      BY <2>3, <2>4, <2>5 DEF OrgInv
  <1>10. ASSUME NEW i \in Instance, OM!AddRoleAssociation(i) PROVE OrgInv'
    <2>1. /\ omRequest[i] \in OM!Request /\ omRoles' = omRoles \cup {<<omRequest[i].actor, omRequest[i].role>>}
          /\ omRequest' = [omRequest EXCEPT ![i] = Nil] /\ omRequest[i].actor \in omMember
          /\ UNCHANGED <<omNow, omMember, omShared, omCommitments, omNegotiation>>
      BY <1>2, <1>10 DEF OM!AddRoleAssociation, OM!Doing, OM!End, OrgInv, AddsToMember
    <2>2. omRequest[i].role \in OM!Role
      BY <1>10 DEF OM!AddRoleAssociation, OrgInv, AddsToMember
    <2>3. OrgTypeOK' /\ OM!RolesOfMembers' /\ OneHolder'
      BY <2>1, <2>2 DEF OrgInv, OrgTypeOK, OM!Request, OM!RolesOfMembers, OneHolder, OM!Exclusive
    <2>4. QED
      BY <2>1, <2>3, NoRequest
  <1>11. ASSUME NEW i \in Instance, OM!IsEnrolled(i) PROVE OrgInv'
    <2>1. /\ omRequest[i] \in OM!Request /\ omRequest' = [omRequest EXCEPT ![i].do = "role"]
          /\ omRequest[i].actor \in omMember /\ omRequest[i].role \in OM!Role
          /\ UNCHANGED <<omNow, omMember, omRoles, omShared, omCommitments, omNegotiation>>
      BY <1>2, <1>11 DEF OM!IsEnrolled, OM!Doing, OM!Then, OrgInv, AddsToMember
    <2>2. omRequest'[i].do = "role" /\ omRequest'[i].actor = omRequest[i].actor /\ omRequest'[i].role = omRequest[i].role
          /\ omRequest' = [omRequest EXCEPT ![i] = [omRequest[i] EXCEPT !.do = "role"]]
          /\ [omRequest[i] EXCEPT !.do = "role"] \in OM!Request
      BY <2>1 DEF OrgInv, OrgTypeOK, OM!Request
    <2>3. AddsToMember(i)' /\ FoundAll(i)' /\ Negotiated(i)' /\ NobodyHas(i)'
      BY <2>1, <2>2 DEF AddsToMember, FoundAll, Negotiated, NobodyHas, OM!Doing
    <2>4. QED
      BY <1>2, <2>1, <2>2, <2>3, RequestChanges
  <1>12. ASSUME NEW i \in Instance, OM!FindRoles(i) PROVE OrgInv'
    <2>. DEFINE todo == {r \in OM!Role : <<omRequest[i].actor, r>> \in omRoles}
                q == [omRequest[i] EXCEPT !.do = "unrole", !.todo = todo]
    <2>1. /\ omRequest[i] \in OM!Request
          /\ UNCHANGED <<omNow, omMember, omRoles, omShared, omCommitments, omNegotiation>>
      BY <1>2, <1>12 DEF OM!FindRoles, OM!Doing
    <2>2. omRequest' = [omRequest EXCEPT ![i] = q]
      BY <1>12, <2>1 DEF OM!FindRoles, OrgInv, OrgTypeOK
    <2>3. q \in OM!Request /\ q.do = "unrole" /\ q.todo = todo /\ q.actor = omRequest[i].actor
      BY <2>1 DEF OM!Request
    <2>4. omRequest'[i] = q
      BY <2>2 DEF OrgInv, OrgTypeOK
    <2>5. FoundAll(i)'
      BY <2>1, <2>3, <2>4 DEF FoundAll
    <2>6. AddsToMember(i)' /\ Negotiated(i)' /\ NobodyHas(i)'
      BY <2>1, <2>3, <2>4 DEF AddsToMember, Negotiated, NobodyHas, OM!Doing
    <2>7. QED
      BY <1>2, <2>1, <2>2, <2>3, <2>5, <2>6, RequestChanges
  <1>13. ASSUME NEW i \in Instance, OM!DeleteRole(i) PROVE OrgInv'
    <2>1. /\ omRequest[i] \in OM!Request /\ omRequest[i].do = "unrole" /\ FoundAll(i)
          /\ UNCHANGED <<omNow, omMember, omShared, omCommitments, omNegotiation>>
      BY <1>2, <1>13 DEF OM!DeleteRole, OM!Doing, OrgInv
    <2>2. PICK r \in omRequest[i].todo :
             /\ omRoles' = omRoles \ {<<omRequest[i].actor, r>>}
             /\ omRequest' = [omRequest EXCEPT ![i].todo = omRequest[i].todo \ {r}]
      BY <1>13 DEF OM!DeleteRole
    <2>3. /\ omRequest'[i] \in OM!Request /\ omRequest'[i].do = "unrole" /\ omRequest'[i].todo = omRequest[i].todo \ {r}
          /\ omRequest'[i].actor = omRequest[i].actor /\ omRequest' \in [Instance -> OM!Request \cup {Nil}]
      BY <2>1, <2>2 DEF OrgInv, OrgTypeOK, OM!Request
    <2>4. OrgTypeOK' /\ OM!RolesOfMembers' /\ OneHolder'
      BY <2>1, <2>2, <2>3 DEF OrgInv, OrgTypeOK, OM!RolesOfMembers, OneHolder, OM!Exclusive
    <2>5. FoundAll(i)'
      BY <1>13, <2>1, <2>2, <2>3 DEF FoundAll, OM!Doing, OM!DeleteRole
    <2>6. AddsToMember(i)' /\ Negotiated(i)' /\ NobodyHas(i)'
      BY <2>1, <2>3 DEF AddsToMember, Negotiated, NobodyHas, OM!Doing
    <2>7. \A j \in Instance : j = i
      OBVIOUS
    <2>8. QED
      BY <2>4, <2>5, <2>6, <2>7 DEF OrgInv
  <1>14. ASSUME NEW i \in Instance, OM!DeleteMembership(i) PROVE OrgInv'
    <2>1. /\ omRequest[i] \in OM!Request /\ omRequest[i].todo = {} /\ FoundAll(i) /\ OM!Doing(i, "unrole")
          /\ omMember' = omMember \ {omRequest[i].actor} /\ omRequest' = [omRequest EXCEPT ![i] = Nil]
          /\ UNCHANGED <<omNow, omRoles, omShared, omCommitments, omNegotiation>>
      BY <1>2, <1>14 DEF OM!DeleteMembership, OM!Doing, OM!End, OrgInv
    <2>2. \A g \in omRoles : g[2] \in OM!Role /\ g = <<g[1], g[2]>> /\ g[1] \in omMember
      BY DEF OrgInv, OrgTypeOK, OM!RolesOfMembers
    <2>3. \A g \in omRoles : g[1] # omRequest[i].actor
      BY <2>1, <2>2 DEF FoundAll
    <2>4. OM!RolesOfMembers'
      BY <2>1, <2>2, <2>3 DEF OM!RolesOfMembers
    <2>5. OrgTypeOK' /\ OneHolder'
      BY <2>1 DEF OrgInv, OrgTypeOK, OneHolder, OM!Exclusive
    <2>6. QED
      BY <2>1, <2>4, <2>5, NoRequest
  <1>15. ASSUME NEW i \in Instance, OM!Commit(i) PROVE OrgInv'
    <2>. DEFINE n == omNegotiation[omRequest[i].actor]
                c == [consumer |-> omRequest[i].actor, resource |-> n.resource,
                      exclusive |-> n.kind = "AcquireResourceExclusive", expiration |-> n.expiration]
    <2>1. /\ omRequest[i] \in OM!Request /\ OM!Doing(i, "commit") /\ Negotiated(i) /\ NobodyHas(i)
          /\ omCommitments' = omCommitments \cup {c}
          /\ omNegotiation' = [omNegotiation EXCEPT ![omRequest[i].actor] = Nil] /\ omRequest' = [omRequest EXCEPT ![i] = Nil]
          /\ UNCHANGED <<omNow, omMember, omRoles, omShared>>
      BY <1>2, <1>15 DEF OM!Commit, OM!Doing, OM!End, OrgInv
    <2>2. omRequest[i].actor \in Actor /\ n \in Proposal /\ n.resource \in Resource
      BY <2>1 DEF OM!Request, Negotiated, Proposal
    <2>3. OrgTypeOK' /\ OM!RolesOfMembers'
      <3>1. c \in [consumer : Actor, resource : Resource, exclusive : BOOLEAN, expiration : Nat]
        BY <2>2 DEF Proposal
      <3>2. omCommitments' \subseteq [consumer : Actor, resource : Resource, exclusive : BOOLEAN, expiration : Nat]
        BY <2>1, <3>1 DEF OrgInv, OrgTypeOK
      <3>3. omNegotiation' \in [Actor -> Proposal \cup {Nil}]
        BY <1>2, <2>1
      <3>4. QED
        BY <2>1, <3>2, <3>3 DEF OrgInv, OrgTypeOK, OM!RolesOfMembers
    <2>4. ASSUME NEW x \in Resource PROVE \A d, e \in OM!Exclusive(Actor, x)' : d = e
      <3>1. OM!Exclusive(Actor, x)' \subseteq OM!Exclusive(Actor, x) \cup {c}
        BY <2>1 DEF OM!Exclusive
      <3>2. c \in OM!Exclusive(Actor, x)' => x = n.resource /\ n.kind = "AcquireResourceExclusive"
        BY <2>1 DEF OM!Exclusive
      <3>3. c \in OM!Exclusive(Actor, x)' => OM!Exclusive(Actor, x) = {}
        BY <2>1, <3>2 DEF NobodyHas
      <3>4. \A d, e \in OM!Exclusive(Actor, x) : d = e
        BY DEF OrgInv, OneHolder
      <3>. HIDE DEF c
      <3>5. QED
        BY <3>1, <3>3, <3>4
    <2>5. OneHolder'
      BY <2>4 DEF OneHolder
    <2>6. QED
      BY <2>1, <2>3, <2>5, NoRequest
  <1>16. ASSUME NEW i \in Instance, NEW a \in Actor, NEW k \in OM!Kind, NEW x \in Resource \cup {Nil}, NEW t \in 0..MaxExpiration,
                OM!Propose(i, a, k, x, t)
         PROVE  OrgInv'
    <2>. DEFINE n == [kind |-> k, resource |-> x, expiration |-> t, accepted |-> FALSE]
                do == IF k = "AcquireResourceExclusive" THEN "decide" ELSE "open"
                q == [do |-> do, actor |-> a, role |-> Nil, todo |-> {}]
    <2>1. /\ omNegotiation' = [omNegotiation EXCEPT ![a] = n] /\ omRequest' = [omRequest EXCEPT ![i] = q]
          /\ (x = Nil) = (k \in {"Enrollment", "RequestRole"})
          /\ UNCHANGED <<omNow, omMember, omRoles, omShared, omCommitments>>
      BY <1>16 DEF OM!Propose, OM!Receive
    <2>2. n \in Proposal
      BY <2>1 DEF OM!BoundAssumption, Proposal, Acquisition, OM!Kind
    <2>3. q \in OM!Request /\ omNegotiation' \in [Actor -> Proposal \cup {Nil}] /\ omNegotiation'[a] = n
      BY <1>2, <2>1, <2>2 DEF OM!Request
    <2>4. omRequest'[i] = q
      BY <2>1 DEF OrgInv, OrgTypeOK
    <2>5. AddsToMember(i)' /\ FoundAll(i)' /\ NobodyHas(i)'
      BY <2>4 DEF AddsToMember, FoundAll, NobodyHas, OM!Doing
    <2>6. Negotiated(i)'
      BY <2>1, <2>2, <2>3, <2>4 DEF Negotiated, OM!Doing
    <2>7. QED
      BY <2>1, <2>3, <2>5, <2>6, RequestChanges
  <1>17. ASSUME NEW i \in Instance, OM!Opened(i) PROVE OrgInv'
    BY <1>2, <1>17, RequestChanges DEF OM!Opened, OM!End
  <1>18. ASSUME NEW i \in Instance, OM!Decide(i) PROVE OrgInv'
    <2>. DEFINE a == omRequest[i].actor
                n == omNegotiation[a]
                q == [omRequest[i] EXCEPT !.do = "accept"]
    <2>1. /\ omRequest[i] \in OM!Request /\ OM!Doing(i, "decide") /\ n \in Proposal /\ n.kind = "AcquireResourceExclusive"
          /\ n.resource \in Resource /\ UNCHANGED <<omNow, omMember, omRoles, omShared, omCommitments>>
      BY <1>2, <1>18 DEF OM!Decide, OM!Doing, OrgInv, Negotiated, Proposal, Acquisition
    <2>2. a \in Actor
      BY <2>1 DEF OM!Request
    <2>3. CASE omNegotiation' = [omNegotiation EXCEPT ![a] = Nil] /\ OM!End(i)
      <3>1. omNegotiation' \in [Actor -> Proposal \cup {Nil}]
        BY <1>2, <2>3
      <3>2. QED
        BY <1>2, <2>1, <2>3, <3>1, RequestChanges DEF OM!End
    <2>4. CASE OM!Exclusive(Actor, n.resource) = {} /\ omNegotiation' = [omNegotiation EXCEPT ![a].accepted = TRUE] /\ OM!Then(i, "accept")
      <3>1. /\ omNegotiation' \in [Actor -> Proposal \cup {Nil}] /\ omNegotiation'[a] \in Proposal
            /\ omNegotiation'[a].kind = n.kind /\ omNegotiation'[a].resource = n.resource
        BY <1>2, <2>1, <2>2, <2>4 DEF Proposal
      <3>2. omRequest' = [omRequest EXCEPT ![i] = q] /\ q \in OM!Request /\ q.do = "accept" /\ q.actor = a
        BY <1>2, <2>1, <2>4 DEF OM!Then, OM!Request
      <3>3. omRequest'[i] = q
        BY <3>2 DEF OrgInv, OrgTypeOK
      <3>. HIDE DEF q, a, n
      <3>4. AddsToMember(i)' /\ FoundAll(i)' /\ Negotiated(i)'
        BY <2>1, <3>1, <3>2, <3>3 DEF AddsToMember, FoundAll, Negotiated, OM!Doing
      <3>5. NobodyHas(i)'
        BY <2>1, <2>4, <3>1, <3>2, <3>3 DEF NobodyHas, OM!Exclusive
      <3>6. QED
        BY <2>1, <3>1, <3>2, <3>4, <3>5, RequestChanges
    <2>5. QED
      BY <1>18, <2>3, <2>4 DEF OM!Decide
  <1>19. ASSUME NEW i \in Instance, NEW a \in Actor, NEW yes \in BOOLEAN, OM!Answer(i, a, yes) PROVE OrgInv'
    <2>1. /\ omRequest[i] = Nil /\ omNegotiation[a] \in Proposal /\ omNegotiation[a].kind # "AcquireResourceExclusive"
          /\ UNCHANGED <<omNow, omMember, omRoles, omShared, omCommitments>>
      BY <1>2, <1>19 DEF OM!Answer, OM!Receive
    <2>2. CASE ~yes
      <3>1. omNegotiation' = [omNegotiation EXCEPT ![a] = Nil] /\ omRequest' = [omRequest EXCEPT ![i] = Nil]
        BY <1>2, <1>19, <2>1, <2>2 DEF OM!Answer, OrgInv, OrgTypeOK
      <3>2. omNegotiation' \in [Actor -> Proposal \cup {Nil}]
        BY <1>2, <3>1
      <3>3. QED
        BY <2>1, <3>1, <3>2, RequestChanges
    <2>3. CASE yes
      <3>. DEFINE q == [do |-> "accept", actor |-> a, role |-> Nil, todo |-> {}]
      <3>1. omNegotiation' = [omNegotiation EXCEPT ![a].accepted = TRUE] /\ omRequest' = [omRequest EXCEPT ![i] = q]
        BY <1>19, <2>3 DEF OM!Answer, OM!Receive
      <3>2. q \in OM!Request /\ omRequest'[i] = q
        BY <3>1 DEF OM!Request, OrgInv, OrgTypeOK
      <3>3. /\ omNegotiation' \in [Actor -> Proposal \cup {Nil}] /\ omNegotiation'[a] \in Proposal
            /\ omNegotiation'[a].kind # "AcquireResourceExclusive"
        BY <1>2, <2>1, <3>1 DEF Proposal
      <3>4. AddsToMember(i)' /\ FoundAll(i)' /\ Negotiated(i)' /\ NobodyHas(i)'
        BY <3>2, <3>3 DEF AddsToMember, FoundAll, Negotiated, NobodyHas, OM!Doing
      <3>5. QED
        BY <2>1, <3>1, <3>2, <3>3, <3>4, RequestChanges
    <2>4. QED
      BY <2>2, <2>3
  <1>20. ASSUME NEW i \in Instance, OM!AcceptAction(i) PROVE OrgInv'
    <2>. DEFINE a == omRequest[i].actor
                n == omNegotiation[a]
    <2>1. /\ omRequest[i] \in OM!Request /\ OM!Doing(i, "accept") /\ n \in Proposal /\ NobodyHas(i)
          /\ UNCHANGED <<omNow, omMember, omRoles, omShared, omCommitments>>
      BY <1>2, <1>20 DEF OM!AcceptAction, OM!Doing, OrgInv, Negotiated
    <2>2. a \in Actor /\ n.kind \in OM!Kind
      BY <2>1 DEF OM!Request, Proposal
    <2>3. CASE n.kind \in {"Enrollment", "RequestRole"}
      <3>1. PICK do \in {"membership", "enrolled"}, r \in OM!Role :
               omRequest' = [omRequest EXCEPT ![i].do = do, ![i].role = r]
        BY <1>20, <2>3 DEF OM!AcceptAction, OM!Role
      <3>. DEFINE q == [omRequest[i] EXCEPT !.do = do, !.role = r]
      <3>2. omRequest' = [omRequest EXCEPT ![i] = q] /\ q \in OM!Request /\ q.do = do /\ q.role = r
        BY <2>1, <3>1 DEF OrgInv, OrgTypeOK, OM!Request
      <3>3. omRequest'[i] = q
        BY <3>2 DEF OrgInv, OrgTypeOK
      <3>4. omNegotiation' \in [Actor -> Proposal \cup {Nil}]
        BY <1>2, <1>20, <2>2, <2>3 DEF OM!AcceptAction
      <3>. HIDE DEF q
      <3>5. AddsToMember(i)' /\ FoundAll(i)' /\ Negotiated(i)' /\ NobodyHas(i)'
        BY <3>2, <3>3 DEF AddsToMember, FoundAll, Negotiated, NobodyHas, OM!Doing
      <3>6. QED
        BY <2>1, <3>2, <3>4, <3>5, RequestChanges
    <2>4. CASE n.kind \in Acquisition
      <3>. DEFINE q == [omRequest[i] EXCEPT !.do = "commit"]
      <3>1. OM!Then(i, "commit") /\ UNCHANGED omNegotiation
        BY <1>20, <2>4 DEF OM!AcceptAction, Acquisition
      <3>2. omRequest' = [omRequest EXCEPT ![i] = q] /\ q \in OM!Request /\ q.do = "commit" /\ q.actor = a
        BY <2>1, <3>1 DEF OM!Then, OrgInv, OrgTypeOK, OM!Request
      <3>3. omRequest'[i] = q
        BY <3>2 DEF OrgInv, OrgTypeOK
      <3>. HIDE DEF q
      <3>4. AddsToMember(i)' /\ FoundAll(i)' /\ Negotiated(i)'
        BY <2>1, <2>4, <3>1, <3>2, <3>3 DEF AddsToMember, FoundAll, Negotiated, OM!Doing
      <3>5. NobodyHas(i)'
        BY <2>1, <3>1, <3>2, <3>3 DEF NobodyHas, OM!Exclusive
      <3>6. QED
        BY <1>2, <2>1, <3>1, <3>2, <3>4, <3>5, RequestChanges
    <2>5. QED
      BY <2>2, <2>3, <2>4 DEF OM!Kind, Acquisition
  <1>21. QED
    BY <1>1, <1>3, <1>4, <1>5, <1>6, <1>7, <1>8, <1>9, <1>10, <1>11, <1>12, <1>13, <1>14, <1>15, <1>16, <1>17,
       <1>18, <1>19, <1>20 DEF OM!Next

(* Whoever has a role of the Org is a member of it, whichever call raises  *)
(* and whatever is revoked or cancelled, when one instance of the service  *)
(* serves the Org. With two, one may cancel a membership between the check *)
(* and the association of a grant the other is executing.                  *)
THEOREM RolesBelongToMembers ==
  ASSUME \A j, k \in Instance : j = k PROVE OM!Spec => []RolesOfMembers
  <1>1. OrgInv /\ [OM!Next]_(OM!vars) => OrgInv'
    BY SuiteAssumption, StepOrg
  <1>2. OrgInv => RolesOfMembers
    BY DEF OrgInv, RolesOfMembers
  <1>3. QED
    BY InitOrg, <1>1, <1>2, PTL DEF OM!Spec

(* Nobody acquires a resource that another actor has exclusively, between  *)
(* the provider's check and the commitment included, when one instance of  *)
(* the service serves the Org.                                             *)
THEOREM OneHoldsExclusively ==
  ASSUME \A j, k \in Instance : j = k PROVE OM!Spec => []OneExclusive
  <1>1. OrgInv /\ [OM!Next]_(OM!vars) => OrgInv'
    BY SuiteAssumption, StepOrg
  <1>2. OrgInv => OneExclusive
    BY AtMostOne, OrgCardinality DEF OrgInv, OneHolder, OneExclusive, OM!OneExclusive
  <1>3. QED
    BY InitOrg, <1>1, <1>2, PTL DEF OM!Spec

-----------------------------------------------------------------------------
(* Subscriptions                                                           *)

(* The parents of topics exist, and the topics of subscriptions do.        *)
TopicInv ==
  /\ DOMAIN psTopics \subseteq Topic
  /\ \A t \in DOMAIN psTopics : psTopics[t] \in DOMAIN psTopics \cup {Root}
  /\ psSubs \in [Subscription -> PS!Record \cup {Nil}]
  /\ \A s \in Subscription : PS!Exists(s) => psSubs[s].topics \subseteq DOMAIN psTopics

(* What is bound while a request is being served: what the others want,    *)
(* and of the subscription's own keys those that are bound already, or not *)
(* yet unbound.                                                            *)
ServingInv ==
  psRequest # Nil =>
    LET s == psRequest.sub IN
    /\ psRequest \in PS!Request /\ PS!Exists(s)
    /\ psRequest.do = "bind" =>
         /\ ~PS!Active(s) /\ psRequest.todo \subseteq PS!Keys(s)
         /\ psBindings \ psExcused = (PS!Wanting \cup {psSubs[s].xn} \X (PS!Keys(s) \ psRequest.todo)) \ psExcused
    /\ psRequest.do = "unbind" =>
         /\ PS!Active(s) /\ psRequest.todo \subseteq PS!Keys(s)
         /\ psBindings \ psExcused = (PS!WantedByOthers(s) \cup {psSubs[s].xn} \X psRequest.todo) \ psExcused
    /\ psRequest.do \in {"rename", "reattach"} => ~PS!Active(s) /\ psBindings \ psExcused = PS!Wanting \ psExcused

SubInv == TopicInv /\ ServingInv /\ PS!BindingsMatchActivation

(* A new topic is in the trees of its parent and is the only change.       *)
LEMMA TreeGrows ==
  ASSUME TopicInv, PS!PubSubAssumption, NEW t \in Topic \ DOMAIN psTopics, NEW parent \in DOMAIN psTopics \cup {Root},
         psTopics' = [u \in DOMAIN psTopics \cup {t} |-> IF u = t THEN parent ELSE psTopics[u]],
         NEW T \in SUBSET DOMAIN psTopics
  PROVE  /\ PS!Tree(T) \subseteq PS!Tree(T)' /\ PS!Tree(T)' \subseteq PS!Tree(T) \cup {t}
         /\ t \in PS!Tree(T)' => parent \in PS!Tree(T)
  <1>. DEFINE D == DOMAIN psTopics
  <1>1. DOMAIN psTopics' = D \cup {t} /\ psTopics'[t] = parent /\ \A u \in D : psTopics'[u] = psTopics[u]
    OBVIOUS
  <1>2. \A u \in D : psTopics[u] # t
    BY DEF TopicInv, PS!PubSubAssumption
  <1>3. parent # t
    BY DEF PS!PubSubAssumption
  <1>4. PS!Tree(T) \subseteq PS!Tree(T)'
    <2>1. ASSUME NEW U \in SUBSET (D \cup {t}), PS!Closed(T, U)' PROVE PS!Closed(T, U \cap D)
      BY <1>1, <2>1 DEF PS!Closed
    <2>2. QED
      BY <1>1, <2>1 DEF PS!Tree
  <1>5. PS!Closed(T, PS!Tree(T))
    <2>1. \A u \in D : psTopics[u] \in PS!Tree(T) => u \in PS!Tree(T)
      BY DEF PS!Tree, PS!Closed
    <2>2. QED
      BY <2>1 DEF PS!Closed, PS!Tree
  <1>a. PICK V \in SUBSET (D \cup {t}) : V = IF parent \in PS!Tree(T) THEN PS!Tree(T) \cup {t} ELSE PS!Tree(T)
    BY DEF PS!Tree
  <1>6. PS!Closed(T, V)'
    <2>2. T \cap (D \cup {t}) \subseteq V
      BY <1>5, <1>a DEF PS!Closed
    <2>3. ASSUME NEW u \in D \cup {t}, psTopics'[u] \in V PROVE u \in V
      <3>1. CASE u = t
        BY <1>1, <1>3, <1>a, <2>3, <3>1
      <3>2. CASE u \in D
        <4>1. psTopics[u] \in PS!Tree(T)
          BY <1>1, <1>2, <1>a, <2>3, <3>2
        <4>2. QED
          BY <1>5, <1>a, <3>2, <4>1 DEF PS!Closed
      <3>3. QED
        BY <3>1, <3>2
    <2>4. QED
      BY <1>1, <2>2, <2>3 DEF PS!Closed
  <1>7. PS!Tree(T)' \subseteq V
    BY <1>1, <1>6 DEF PS!Tree
  <1>8. t \notin PS!Tree(T)
    BY DEF PS!Tree
  <1>9. QED
    BY <1>4, <1>7, <1>8, <1>a

(* A topic without children leaves the trees it was in.                    *)
LEMMA TreeShrinks ==
  ASSUME TopicInv, NEW t \in DOMAIN psTopics, \A u \in DOMAIN psTopics : psTopics[u] # t,
         psTopics' = [u \in DOMAIN psTopics \ {t} |-> psTopics[u]],
         NEW T \in SUBSET DOMAIN psTopics
  PROVE  PS!Tree(T \ {t})' = PS!Tree(T) \ {t}
  <1>. DEFINE D == DOMAIN psTopics
  <1>1. DOMAIN psTopics' = D \ {t} /\ \A u \in D \ {t} : psTopics'[u] = psTopics[u]
    OBVIOUS
  <1>2. ASSUME NEW U \in SUBSET D, PS!Closed(T, U) PROVE PS!Closed(T \ {t}, U \ {t})'
    BY <1>1, <1>2 DEF PS!Closed
  <1>3. ASSUME NEW U \in SUBSET (D \ {t}), PS!Closed(T \ {t}, U)' PROVE PS!Closed(T, U \cup {t})
    BY <1>1, <1>3 DEF PS!Closed
  <1>4. PS!Tree(T \ {t})' \subseteq PS!Tree(T) \ {t}
    BY <1>1, <1>2 DEF PS!Tree
  <1>5. PS!Tree(T) \ {t} \subseteq PS!Tree(T \ {t})'
    BY <1>1, <1>3 DEF PS!Tree
  <1>6. QED
    BY <1>4, <1>5

LEMMA InitSub == PS!Init => SubInv
  BY DEF PS!Init, SubInv, TopicInv, ServingInv, PS!BindingsMatchActivation, PS!Exists, PS!Active, PS!Wanting

(* Bindings that change only where they are excused.                       *)
LEMMA OnlyExcused ==
  ASSUME PS!BindingsMatchActivation, psRequest = Nil, psRequest' = Nil, NEW B, psExcused' = psExcused \cup B,
         psBindings' \ B = psBindings \ B, PS!Wanting' \ B = PS!Wanting \ B
  PROVE  PS!BindingsMatchActivation'
  <1>1. psBindings \ psExcused = PS!Wanting \ psExcused
    BY DEF PS!BindingsMatchActivation
  <1>2. psBindings' \ psExcused' = PS!Wanting' \ psExcused'
    BY <1>1
  <1>3. QED
    BY <1>2 DEF PS!BindingsMatchActivation

LEMMA ResourcesStep ==
  ASSUME SubInv, PS!PubSubAssumption, psRequest = Nil, PS!Resources PROVE SubInv'
  <1>1. TopicInv /\ PS!BindingsMatchActivation
    BY DEF SubInv, BindingsMatchActivation
  <1>2. ASSUME NEW t \in Topic, NEW parent \in Topic \cup {Root}, PS!CreateTopic(t, parent) PROVE SubInv'
    <2>. DEFINE B == {<<psSubs[s].xn, t>> : s \in {s \in Subscription : PS!Active(s) /\ parent \in PS!Keys(s)}}
    <2>1. /\ t \notin DOMAIN psTopics /\ parent \in DOMAIN psTopics \cup {Root} /\ psExcused' = psExcused \cup B
          /\ psTopics' = [u \in DOMAIN psTopics \cup {t} |-> IF u = t THEN parent ELSE psTopics[u]]
          /\ UNCHANGED <<psSubs, psBindings, psRequest>>
      BY <1>2 DEF PS!CreateTopic, PS!Excuse
    <2>2. TopicInv'
      BY <1>1, <2>1 DEF TopicInv, PS!Exists
    <2>3. \A s \in Subscription : (PS!Active(s)' <=> PS!Active(s)) /\ (PS!Exists(s)' <=> PS!Exists(s)) /\ psSubs'[s] = psSubs[s]
      BY <2>1 DEF PS!Active, PS!Exists
    <2>4. ASSUME NEW s \in Subscription, PS!Active(s) PROVE PS!Wanted(s) \subseteq PS!Wanted(s)' /\ PS!Wanted(s)' \subseteq PS!Wanted(s) \cup B
      <3>1. PICK T \in SUBSET DOMAIN psTopics : T = psSubs[s].topics
        BY <1>1, <2>4 DEF TopicInv, PS!Active
      <3>2. /\ PS!Tree(T) \subseteq PS!Tree(T)' /\ PS!Tree(T)' \subseteq PS!Tree(T) \cup {t}
            /\ t \in PS!Tree(T)' => parent \in PS!Tree(T)
        BY <1>1, <2>1, TreeGrows
      <3>3. PS!Keys(s)' = psSubs[s].streams \cup psSubs[s].points \cup PS!Tree(T)' /\ PS!Keys(s) = psSubs[s].streams \cup psSubs[s].points \cup PS!Tree(T)
        BY <2>1, <3>1 DEF PS!Keys, PS!Tree, PS!Closed
      <3>4. t \in PS!Keys(s)' \ PS!Keys(s) => <<psSubs[s].xn, t>> \in B
        BY <2>4, <3>2, <3>3
      <3>5. PS!Keys(s) \subseteq PS!Keys(s)' /\ PS!Keys(s)' \subseteq PS!Keys(s) \cup {t}
        BY <3>2, <3>3
      <3>. HIDE DEF B
      <3>6. PS!Wanted(s)' = {psSubs[s].xn} \X PS!Keys(s)'
        BY <2>1 DEF PS!Wanted
      <3>7. QED
        BY <3>4, <3>5, <3>6 DEF PS!Wanted
    <2>. HIDE DEF B
    <2>5. PS!Wanting \subseteq PS!Wanting' /\ PS!Wanting' \subseteq PS!Wanting \cup B
      BY <2>3, <2>4 DEF PS!Wanting
    <2>6. PS!BindingsMatchActivation'
      BY <1>1, <2>1, <2>5, OnlyExcused
    <2>7. QED
      BY <2>1, <2>2, <2>6 DEF SubInv, ServingInv
  <1>3. ASSUME NEW t \in Topic, PS!DeleteTopic(t) PROVE SubInv'
    <2>. DEFINE B == {<<psSubs[s].xn, t>> : s \in {s \in Subscription : PS!Active(s) /\ t \in PS!Keys(s)}}
    <2>1. /\ t \in DOMAIN psTopics /\ (\A u \in DOMAIN psTopics : psTopics[u] # t) /\ psExcused' = psExcused \cup B
          /\ psTopics' = [u \in DOMAIN psTopics \ {t} |-> psTopics[u]]
          /\ psSubs' = [s \in Subscription |-> IF PS!Exists(s) THEN [psSubs[s] EXCEPT !.topics = @ \ {t}] ELSE Nil]
          /\ UNCHANGED <<psBindings, psRequest>>
      BY <1>3 DEF PS!DeleteTopic, PS!Excuse
    <2>2. \A s \in Subscription : PS!Exists(s) =>
             /\ psSubs[s] \in PS!Record /\ psSubs'[s] \in PS!Record /\ psSubs'[s].xn = psSubs[s].xn
             /\ psSubs'[s].activated = psSubs[s].activated /\ psSubs'[s].streams = psSubs[s].streams
             /\ psSubs'[s].points = psSubs[s].points /\ psSubs'[s].topics = psSubs[s].topics \ {t}
      BY <1>1, <2>1 DEF TopicInv, PS!Exists, PS!Record
    <2>3. \A s \in Subscription : ~PS!Exists(s) => psSubs'[s] = Nil
      BY <2>1
    <2>4. \A s \in Subscription : (PS!Exists(s)' => PS!Exists(s)) /\ (PS!Active(s)' => PS!Active(s))
      BY <2>2, <2>3 DEF PS!Exists, PS!Active
    <2>5. TopicInv'
      BY <1>1, <2>1, <2>2, <2>3, <2>4 DEF TopicInv, PS!Exists
    <2>6. ASSUME NEW s \in Subscription, PS!Active(s) PROVE PS!Active(s)' /\ PS!Wanted(s)' \ B = PS!Wanted(s) \ B
      <3>1. PS!Exists(s) /\ psSubs'[s] # Nil
        BY <2>2, <2>6 DEF PS!Active, PS!PubSubAssumption
      <3>2. PICK T \in SUBSET DOMAIN psTopics : T = psSubs[s].topics
        BY <1>1, <3>1 DEF TopicInv
      <3>3. PS!Tree(T \ {t})' = PS!Tree(T) \ {t}
        BY <1>1, <2>1, TreeShrinks
      <3>4. PS!Tree(psSubs[s].topics)' = PS!Tree(T \ {t})'
        BY <2>2, <3>1, <3>2 DEF PS!Tree, PS!Closed
      <3>5. PS!Keys(s)' = psSubs[s].streams \cup psSubs[s].points \cup PS!Tree(T \ {t})'
            /\ PS!Keys(s) = psSubs[s].streams \cup psSubs[s].points \cup PS!Tree(T)
        BY <2>2, <3>1, <3>2, <3>4 DEF PS!Keys
      <3>6. PS!Keys(s)' \ {t} = PS!Keys(s) \ {t} /\ PS!Keys(s)' \subseteq PS!Keys(s)
        BY <3>3, <3>5
      <3>7. t \in PS!Keys(s) => <<psSubs[s].xn, t>> \in B
        BY <2>6
      <3>8. PS!Wanted(s)' = {psSubs[s].xn} \X PS!Keys(s)'
        BY <2>2, <3>1 DEF PS!Wanted
      <3>. HIDE DEF B
      <3>9. PS!Active(s)'
        BY <2>2, <2>6, <3>1 DEF PS!Active, PS!Exists
      <3>10. QED
        BY <3>6, <3>7, <3>8, <3>9 DEF PS!Wanted
    <2>. HIDE DEF B
    <2>7. PS!Wanting' \ B = PS!Wanting \ B
      BY <2>4, <2>6 DEF PS!Wanting
    <2>8. PS!BindingsMatchActivation'
      BY <1>1, <2>1, <2>7, OnlyExcused
    <2>9. QED
      BY <2>1, <2>5, <2>8 DEF SubInv, ServingInv
  <1>4. ASSUME NEW st \in Stream, PS!CreateStream(st) PROVE SubInv'
    <2>1. UNCHANGED <<psTopics, psSubs, psBindings, psRequest, psExcused>>
      BY <1>4 DEF PS!CreateStream
    <2>2. TopicInv' /\ PS!Wanting' = PS!Wanting
      BY <1>1, <2>1 DEF TopicInv, PS!Exists, PS!Wanting, PS!Wanted, PS!Active, PS!Keys, PS!Tree, PS!Closed
    <2>3. PS!BindingsMatchActivation'
      BY <1>1, <2>1, <2>2, OnlyExcused
    <2>4. QED
      BY <2>1, <2>2, <2>3 DEF SubInv, ServingInv
  <1>5. ASSUME NEW st \in Stream, PS!DeleteStream(st) PROVE SubInv'
    <2>. DEFINE B == {<<psSubs[s].xn, st>> : s \in {s \in Subscription : PS!Active(s) /\ st \in PS!Keys(s)}}
    <2>1. /\ psExcused' = psExcused \cup B /\ UNCHANGED <<psTopics, psBindings, psRequest>>
          /\ psSubs' = [s \in Subscription |-> IF PS!Exists(s) THEN [psSubs[s] EXCEPT !.streams = @ \ {st}] ELSE Nil]
      BY <1>5 DEF PS!DeleteStream, PS!Excuse
    <2>2. \A s \in Subscription : PS!Exists(s) =>
             /\ psSubs[s] \in PS!Record /\ psSubs'[s] \in PS!Record /\ psSubs'[s].xn = psSubs[s].xn
             /\ psSubs'[s].activated = psSubs[s].activated /\ psSubs'[s].streams = psSubs[s].streams \ {st}
             /\ psSubs'[s].points = psSubs[s].points /\ psSubs'[s].topics = psSubs[s].topics
      BY <1>1, <2>1 DEF TopicInv, PS!Exists, PS!Record
    <2>3. \A s \in Subscription : ~PS!Exists(s) => psSubs'[s] = Nil
      BY <2>1
    <2>4. \A s \in Subscription : (PS!Exists(s)' => PS!Exists(s)) /\ (PS!Active(s)' => PS!Active(s))
      BY <2>2, <2>3 DEF PS!Exists, PS!Active
    <2>5. TopicInv'
      BY <1>1, <2>1, <2>2, <2>3, <2>4 DEF TopicInv, PS!Exists
    <2>6. ASSUME NEW s \in Subscription, PS!Active(s) PROVE PS!Active(s)' /\ PS!Wanted(s)' \ B = PS!Wanted(s) \ B
      <3>1. PS!Exists(s) /\ psSubs'[s] # Nil
        BY <2>2, <2>6 DEF PS!Active, PS!PubSubAssumption
      <3>2. PS!Tree(psSubs[s].topics)' = PS!Tree(psSubs[s].topics)
        BY <2>1, <2>2, <3>1 DEF PS!Tree, PS!Closed
      <3>3. PS!Keys(s)' = (psSubs[s].streams \ {st}) \cup psSubs[s].points \cup PS!Tree(psSubs[s].topics)
            /\ PS!Keys(s) = psSubs[s].streams \cup psSubs[s].points \cup PS!Tree(psSubs[s].topics)
        BY <2>2, <3>1, <3>2 DEF PS!Keys
      <3>4. PS!Keys(s)' \ {st} = PS!Keys(s) \ {st} /\ PS!Keys(s)' \subseteq PS!Keys(s)
        BY <3>3
      <3>5. st \in PS!Keys(s) => <<psSubs[s].xn, st>> \in B
        BY <2>6
      <3>6. PS!Wanted(s)' = {psSubs[s].xn} \X PS!Keys(s)'
        BY <2>2, <3>1 DEF PS!Wanted
      <3>. HIDE DEF B
      <3>7. PS!Active(s)'
        BY <2>2, <2>6, <3>1 DEF PS!Active, PS!Exists
      <3>8. QED
        BY <3>4, <3>5, <3>6, <3>7 DEF PS!Wanted
    <2>. HIDE DEF B
    <2>7. PS!Wanting' \ B = PS!Wanting \ B
      BY <2>4, <2>6 DEF PS!Wanting
    <2>8. PS!BindingsMatchActivation'
      BY <1>1, <2>1, <2>7, OnlyExcused
    <2>9. QED
      BY <2>1, <2>5, <2>8 DEF SubInv, ServingInv
  <1>6. QED
    BY <1>2, <1>3, <1>4, <1>5 DEF PS!Resources

(* What a subscription that is not active wants is no one's.               *)
LEMMA WantingOf ==
  ASSUME NEW s \in Subscription
  PROVE  /\ PS!Wanting = IF PS!Active(s) THEN PS!WantedByOthers(s) \cup PS!Wanted(s) ELSE PS!WantedByOthers(s)
         /\ PS!Wanting' = IF PS!Active(s)' THEN PS!WantedByOthers(s)' \cup PS!Wanted(s)' ELSE PS!WantedByOthers(s)'
  BY DEF PS!Wanting, PS!WantedByOthers

(* One subscription changes, and what the others want does not.            *)
LEMMA OneChanges ==
  ASSUME TopicInv, NEW s \in Subscription, UNCHANGED psTopics, NEW r \in PS!Record \cup {Nil},
         psSubs' = [psSubs EXCEPT ![s] = r], r # Nil => r.topics \subseteq DOMAIN psTopics
  PROVE  /\ TopicInv' /\ psSubs'[s] = r /\ PS!WantedByOthers(s)' = PS!WantedByOthers(s)
  <1>1. psSubs'[s] = r /\ \A o \in Subscription \ {s} : psSubs'[o] = psSubs[o]
    BY DEF TopicInv
  <1>2. TopicInv'
    BY <1>1 DEF TopicInv, PS!Exists
  <1>3. \A o \in Subscription \ {s} : (PS!Active(o)' <=> PS!Active(o)) /\ PS!Wanted(o)' = PS!Wanted(o)
    BY <1>1 DEF PS!Active, PS!Exists, PS!Wanted, PS!Keys, PS!Tree, PS!Closed
  <1>4. PS!WantedByOthers(s)' = PS!WantedByOthers(s)
    BY <1>3 DEF PS!WantedByOthers
  <1>5. QED
    BY <1>1, <1>2, <1>4

LEMMA SameWants ==
  ASSUME UNCHANGED <<psTopics, psSubs>>
  PROVE  /\ PS!Wanting' = PS!Wanting
         /\ \A s : (PS!Exists(s)' <=> PS!Exists(s)) /\ (PS!Active(s)' <=> PS!Active(s)) /\ PS!Wanted(s)' = PS!Wanted(s) /\ PS!Keys(s)' = PS!Keys(s)
         /\ \A s : PS!WantedByOthers(s)' = PS!WantedByOthers(s)
         /\ TopicInv => TopicInv'
  <1>1. \A s : (PS!Exists(s)' <=> PS!Exists(s)) /\ (PS!Active(s)' <=> PS!Active(s)) /\ PS!Wanted(s)' = PS!Wanted(s) /\ PS!Keys(s)' = PS!Keys(s)
    BY DEF PS!Exists, PS!Active, PS!Wanted, PS!Keys, PS!Tree, PS!Closed
  <1>2. QED
    BY <1>1 DEF PS!Wanting, PS!WantedByOthers, TopicInv

LEMMA RequestsStep ==
  ASSUME SubInv, PS!PubSubAssumption, psRequest = Nil, PS!Requests PROVE SubInv'
  <1>1. TopicInv /\ PS!BindingsMatchActivation /\ psBindings \ psExcused = PS!Wanting \ psExcused
    BY DEF SubInv, PS!BindingsMatchActivation
  <1>2. ASSUME NEW s \in Subscription, NEW op \in {"activate", "deactivate", "move"}, NEW to \in Name,
               NEW do \in {"bind", "unbind", "rename"}, NEW K, PS!Begin(op, s, to, do, K), PS!Exists(s),
               UNCHANGED <<psTopics, psSubs, psBindings, psExcused>>,
               do = "bind" => ~PS!Active(s) /\ K = PS!Keys(s), do = "unbind" => PS!Active(s) /\ K = PS!Keys(s),
               do = "rename" => ~PS!Active(s) /\ K = {}
        PROVE  SubInv'
    <2>1. PS!Keys(s) \subseteq PS!Key
      BY <1>1, <1>2 DEF TopicInv, PS!Exists, PS!Keys, PS!Tree, PS!Key, PS!Record
    <2>2. psRequest' = [op |-> op, sub |-> s, to |-> to, was |-> PS!Active(s), do |-> do, todo |-> K]
      BY <1>2 DEF PS!Begin
    <2>3. PS!Active(s) \in BOOLEAN
      BY <1>1, <1>2 DEF PS!Active, PS!Exists, TopicInv, PS!Record
    <2>4. K \subseteq PS!Key
      BY <1>2, <2>1
    <2>5. psRequest' \in PS!Request
      BY <1>2, <2>2, <2>3, <2>4 DEF PS!Request
    <2>6. psRequest'.sub = s /\ psRequest'.do = do /\ psRequest'.todo = K
      BY <2>2
    <2>7. /\ PS!Wanting' = PS!Wanting /\ TopicInv' /\ PS!Exists(s)' /\ (PS!Active(s)' <=> PS!Active(s))
          /\ PS!Keys(s)' = PS!Keys(s) /\ PS!WantedByOthers(s)' = PS!WantedByOthers(s) /\ psSubs'[s] = psSubs[s]
      BY <1>1, <1>2, SameWants
    <2>8. PS!Active(s) => PS!Wanting = PS!WantedByOthers(s) \cup {psSubs[s].xn} \X PS!Keys(s)
      BY WantingOf DEF PS!Wanted
    <2>9. ServingInv'
      <3>1. CASE do = "bind"
        BY <1>1, <1>2, <2>5, <2>6, <2>7, <3>1 DEF ServingInv
      <3>2. CASE do = "unbind"
        BY <1>1, <1>2, <2>5, <2>6, <2>7, <2>8, <3>2 DEF ServingInv
      <3>3. CASE do = "rename"
        BY <1>1, <1>2, <2>5, <2>6, <2>7, <3>3 DEF ServingInv
      <3>4. QED
        BY <3>1, <3>2, <3>3
    <2>10. psRequest' # Nil
      BY <2>5 DEF PS!PubSubAssumption
    <2>11. QED
      BY <2>7, <2>9, <2>10 DEF SubInv, PS!BindingsMatchActivation
  <1>3. ASSUME NEW s \in Subscription, PS!BeginActivate(s) PROVE SubInv'
    <2>1. psSubs[s].xn \in Name
      BY <1>1, <1>3 DEF PS!BeginActivate, PS!Exists, TopicInv, PS!Record
    <2>2. QED
      BY <1>2, <1>3, <2>1 DEF PS!BeginActivate
  <1>4. ASSUME NEW s \in Subscription, PS!BeginDeactivate(s) PROVE SubInv'
    <2>1. psSubs[s].xn \in Name /\ PS!Exists(s)
      BY <1>1, <1>4 DEF PS!BeginDeactivate, PS!Active, PS!Exists, TopicInv, PS!Record
    <2>2. QED
      BY <1>2, <1>4, <2>1 DEF PS!BeginDeactivate
  <1>5. ASSUME NEW s \in Subscription, NEW to \in Name, PS!BeginMove(s, to) PROVE SubInv'
    <2>1. CASE PS!Active(s)
      BY <1>2, <1>5, <2>1 DEF PS!BeginMove
    <2>2. CASE ~PS!Active(s)
      BY <1>2, <1>5, <2>2 DEF PS!BeginMove
    <2>3. QED
      BY <2>1, <2>2
  <1>6. ASSUME NEW s \in Subscription, NEW xn \in Name, NEW S \in SUBSET Stream, NEW P \in SUBSET Point,
               NEW T \in SUBSET Topic, PS!CreateSubscription(s, xn, S, P, T)
        PROVE  SubInv'
    <2>. DEFINE r == [xn |-> xn, activated |-> FALSE, streams |-> S, points |-> P, topics |-> T]
    <2>1. /\ ~PS!Exists(s) /\ r.topics \subseteq DOMAIN psTopics /\ psSubs' = [psSubs EXCEPT ![s] = r]
          /\ UNCHANGED <<psTopics, psBindings, psRequest, psExcused>>
      BY <1>6 DEF PS!CreateSubscription
    <2>2. r \in PS!Record
      BY DEF PS!Record
    <2>3. TopicInv' /\ psSubs'[s] = r /\ PS!WantedByOthers(s)' = PS!WantedByOthers(s)
      BY <1>1, <2>1, <2>2, OneChanges
    <2>4. ~PS!Active(s)' /\ ~PS!Active(s)
      BY <2>1, <2>3 DEF PS!Active
    <2>5. PS!Wanting' = PS!Wanting
      BY <2>3, <2>4, WantingOf
    <2>6. PS!BindingsMatchActivation'
      BY <1>1, <2>1, <2>5 DEF PS!BindingsMatchActivation
    <2>7. QED
      BY <2>1, <2>3, <2>6 DEF SubInv, ServingInv
  <1>7. ASSUME NEW s \in Subscription, PS!DeleteSubscription(s) PROVE SubInv'
    <2>1. PICK undeclared : /\ psBindings' = {b \in psBindings : b[1] \notin undeclared}
                            /\ psExcused' = psExcused \cup {b \in PS!WantedByOthers(s) : b[1] \in undeclared}
                            /\ ~PS!Active(s) /\ psSubs' = [psSubs EXCEPT ![s] = Nil]
                            /\ UNCHANGED <<psTopics, psRequest>>
      BY <1>7 DEF PS!DeleteSubscription, PS!Excuse
    <2>2. TopicInv' /\ psSubs'[s] = Nil /\ PS!WantedByOthers(s)' = PS!WantedByOthers(s)
      BY <1>1, <2>1, OneChanges
    <2>3. ~PS!Active(s)'
      BY <2>2 DEF PS!Active, PS!Exists
    <2>4. PS!Wanting' = PS!Wanting /\ PS!Wanting = PS!WantedByOthers(s)
      BY <2>1, <2>2, <2>3, WantingOf
    <2>5. psBindings' \ psExcused' = PS!Wanting' \ psExcused'
      BY <1>1, <2>1, <2>4
    <2>6. QED
      BY <2>1, <2>2, <2>5 DEF SubInv, ServingInv, PS!BindingsMatchActivation
  <1>8. QED
    BY <1>3, <1>4, <1>5, <1>6, <1>7 DEF PS!Requests

LEMMA ServeStep ==
  ASSUME SubInv, PS!PubSubAssumption, psRequest # Nil, PS!Serve PROVE SubInv'
  <1>a. PICK s \in Subscription, xn \in Name : s = psRequest.sub /\ xn = psSubs[s].xn
    BY DEF SubInv, ServingInv, PS!Request, TopicInv, PS!Exists, PS!Record
  <1>1. TopicInv /\ ServingInv /\ psRequest \in PS!Request /\ PS!Exists(s) /\ psSubs[s] \in PS!Record
        /\ psRequest.sub = s /\ psSubs[s].xn = xn
    BY <1>a DEF SubInv, ServingInv, TopicInv, PS!Exists
  <1>2. ASSUME NEW k \in PS!Key, PS!Bind(k) PROVE SubInv'
    <2>1. /\ psRequest.do = "bind" /\ k \in psRequest.todo /\ psRequest' = [psRequest EXCEPT !.todo = psRequest.todo \ {k}]
          /\ UNCHANGED <<psTopics, psSubs>>
          /\ \/ psBindings' = psBindings \cup {<<xn, k>>} /\ psExcused' = psExcused \ {<<xn, k>>}
             \/ psExcused' = psExcused \cup {<<xn, k>>} /\ psBindings' = psBindings
      BY <1>1, <1>2 DEF PS!Bind, PS!Excuse
    <2>2. /\ psRequest' \in PS!Request /\ psRequest'.do = "bind" /\ psRequest'.sub = s /\ psRequest'.todo = psRequest.todo \ {k}
      BY <1>1, <2>1 DEF PS!Request
    <2>3. /\ PS!Wanting' = PS!Wanting /\ TopicInv' /\ PS!Exists(s)' /\ (PS!Active(s)' <=> PS!Active(s))
          /\ PS!Keys(s)' = PS!Keys(s) /\ psSubs'[s] = psSubs[s]
      BY <1>1, <2>1, SameWants
    <2>4. /\ ~PS!Active(s) /\ psRequest.todo \subseteq PS!Keys(s)
          /\ psBindings \ psExcused = (PS!Wanting \cup {xn} \X (PS!Keys(s) \ psRequest.todo)) \ psExcused
      BY <1>1, <2>1 DEF ServingInv
    <2>5. {xn} \X (PS!Keys(s) \ (psRequest.todo \ {k})) = {xn} \X (PS!Keys(s) \ psRequest.todo) \cup {<<xn, k>>}
      BY <2>1, <2>4
    <2>6. psBindings' \ psExcused' = (PS!Wanting \cup {xn} \X (PS!Keys(s) \ (psRequest.todo \ {k}))) \ psExcused'
      BY <2>1, <2>4, <2>5
    <2>7. ServingInv'
      BY <1>1, <2>2, <2>3, <2>4, <2>6 DEF ServingInv
    <2>8. QED
      BY <2>2, <2>3, <2>7 DEF SubInv, PS!BindingsMatchActivation, PS!PubSubAssumption
  <1>3. ASSUME NEW k \in PS!Key, PS!Unbind(k) PROVE SubInv'
    <2>1. /\ psRequest.do = "unbind" /\ k \in psRequest.todo /\ psRequest' = [psRequest EXCEPT !.todo = psRequest.todo \ {k}]
          /\ UNCHANGED <<psTopics, psSubs>>
          /\ \/ /\ psBindings' = psBindings \ {<<xn, k>>}
                /\ IF <<xn, k>> \in PS!WantedByOthers(s) THEN psExcused' = psExcused \cup {<<xn, k>>}
                                                      ELSE psExcused' = psExcused \ {<<xn, k>>}
             \/ psExcused' = psExcused \cup {<<xn, k>>} /\ psBindings' = psBindings
      BY <1>1, <1>3 DEF PS!Unbind, PS!Excuse
    <2>2. /\ psRequest' \in PS!Request /\ psRequest'.do = "unbind" /\ psRequest'.sub = s /\ psRequest'.todo = psRequest.todo \ {k}
      BY <1>1, <2>1 DEF PS!Request
    <2>3. /\ PS!WantedByOthers(s)' = PS!WantedByOthers(s) /\ TopicInv' /\ PS!Exists(s)' /\ (PS!Active(s)' <=> PS!Active(s))
          /\ PS!Keys(s)' = PS!Keys(s) /\ psSubs'[s] = psSubs[s]
      BY <1>1, <2>1, SameWants
    <2>4. /\ PS!Active(s) /\ psRequest.todo \subseteq PS!Keys(s)
          /\ psBindings \ psExcused = (PS!WantedByOthers(s) \cup {xn} \X psRequest.todo) \ psExcused
      BY <1>1, <2>1 DEF ServingInv
    <2>5. {xn} \X (psRequest.todo \ {k}) = ({xn} \X psRequest.todo) \ {<<xn, k>>}
      OBVIOUS
    <2>6. psBindings' \ psExcused' = (PS!WantedByOthers(s) \cup {xn} \X (psRequest.todo \ {k})) \ psExcused'
      BY <2>1, <2>4, <2>5
    <2>7. ServingInv'
      BY <1>1, <2>2, <2>3, <2>4, <2>6 DEF ServingInv
    <2>8. QED
      BY <2>2, <2>3, <2>7 DEF SubInv, PS!BindingsMatchActivation, PS!PubSubAssumption
  <1>4. CASE PS!Bound \/ PS!Unbound
    <2>a. PICK on \in BOOLEAN : on = (psRequest.do = "bind")
      OBVIOUS
    <2>b. PICK r : r = [psSubs[s] EXCEPT !.activated = on]
      OBVIOUS
    <2>1. /\ psRequest.todo = {} /\ psSubs' = [psSubs EXCEPT ![s].activated = on]
          /\ psRequest.do \in {"bind", "unbind"} /\ UNCHANGED <<psTopics, psBindings, psExcused>>
          /\ psRequest' = IF psRequest.do = "unbind" /\ psRequest.op = "move" THEN [psRequest EXCEPT !.do = "rename"] ELSE Nil
      BY <1>1, <1>4, <2>a DEF PS!Bound, PS!Unbound
    <2>2. psSubs' = [psSubs EXCEPT ![s] = r] /\ r \in PS!Record /\ r.xn = xn /\ r.activated = on /\ r.streams = psSubs[s].streams
          /\ r.points = psSubs[s].points /\ r.topics = psSubs[s].topics /\ r.topics \subseteq DOMAIN psTopics
      BY <1>1, <2>1, <2>b DEF PS!Record, TopicInv
    <2>3. TopicInv' /\ psSubs'[s] = r /\ PS!WantedByOthers(s)' = PS!WantedByOthers(s)
      BY <1>1, <2>1, <2>2, OneChanges
    <2>4. r # Nil
      BY <2>2 DEF PS!PubSubAssumption
    <2>5. PS!Exists(s)' /\ (PS!Active(s)' <=> on) /\ PS!Keys(s)' = PS!Keys(s) /\ PS!Wanted(s)' = {xn} \X PS!Keys(s)
      BY <2>1, <2>2, <2>3, <2>4 DEF PS!Exists, PS!Active, PS!Keys, PS!Wanted, PS!Tree, PS!Closed
    <2>6. PS!Wanting' = IF on THEN PS!WantedByOthers(s) \cup {xn} \X PS!Keys(s) ELSE PS!WantedByOthers(s)
      BY <1>1, <2>3, <2>5, WantingOf
    <2>7. psBindings' \ psExcused' = PS!Wanting' \ psExcused'
      <3>1. CASE on
        <4>1. ~PS!Active(s) /\ psBindings \ psExcused = (PS!Wanting \cup {xn} \X PS!Keys(s)) \ psExcused
          BY <1>1, <2>1, <2>a, <3>1 DEF ServingInv
        <4>2. PS!Wanting = PS!WantedByOthers(s)
          BY <1>1, <4>1, WantingOf
        <4>3. QED
          BY <2>1, <2>6, <3>1, <4>1, <4>2
      <3>2. CASE ~on
        <4>1. psBindings \ psExcused = (PS!WantedByOthers(s) \cup {xn} \X {}) \ psExcused
          BY <1>1, <2>1, <2>a, <3>2 DEF ServingInv
        <4>2. QED
          BY <2>1, <2>6, <3>2, <4>1
      <3>3. QED
        BY <3>1, <3>2
    <2>8. ServingInv'
      <3>1. CASE psRequest' = Nil
        BY <3>1 DEF ServingInv
      <3>2. CASE psRequest' # Nil
        <4>1. psRequest' = [psRequest EXCEPT !.do = "rename"] /\ ~on
          BY <2>1, <2>a, <3>2
        <4>2. psRequest' \in PS!Request /\ psRequest'.do = "rename" /\ psRequest'.sub = s
          BY <1>1, <4>1 DEF PS!Request
        <4>3. QED
          BY <2>5, <2>7, <4>1, <4>2 DEF ServingInv
      <3>3. QED
        BY <3>1, <3>2
    <2>9. QED
      BY <2>3, <2>7, <2>8 DEF SubInv, PS!BindingsMatchActivation
  <1>5. CASE PS!Rename
    <2>b. PICK r : r = [psSubs[s] EXCEPT !.xn = psRequest.to]
      OBVIOUS
    <2>1. /\ psRequest.do = "rename" /\ psSubs' = [psSubs EXCEPT ![s].xn = psRequest.to]
          /\ UNCHANGED <<psTopics, psBindings, psExcused>>
          /\ psRequest' = IF psRegisters THEN [psRequest EXCEPT !.do = "reattach"] ELSE Nil
      BY <1>1, <1>5 DEF PS!Rename
    <2>2. psSubs' = [psSubs EXCEPT ![s] = r] /\ r \in PS!Record /\ r.activated = psSubs[s].activated
          /\ r.topics = psSubs[s].topics /\ r.topics \subseteq DOMAIN psTopics
      BY <1>1, <2>1, <2>b DEF PS!Record, TopicInv, PS!Request
    <2>3. TopicInv' /\ psSubs'[s] = r /\ PS!WantedByOthers(s)' = PS!WantedByOthers(s)
      BY <1>1, <2>1, <2>2, OneChanges
    <2>4. ~PS!Active(s) /\ psBindings \ psExcused = PS!Wanting \ psExcused
      BY <1>1, <2>1 DEF ServingInv
    <2>5. PS!Exists(s)' /\ ~PS!Active(s)'
      BY <1>1, <2>2, <2>3, <2>4 DEF PS!Exists, PS!Active, PS!PubSubAssumption
    <2>6. PS!Wanting' = PS!Wanting
      BY <1>1, <2>3, <2>4, <2>5, WantingOf
    <2>7. ServingInv'
      <3>1. CASE psRequest' = Nil
        BY <3>1 DEF ServingInv
      <3>2. CASE psRequest' # Nil
        <4>1. psRequest' \in PS!Request /\ psRequest'.do = "reattach" /\ psRequest'.sub = s
          BY <1>1, <2>1, <3>2 DEF PS!Request
        <4>2. QED
          BY <2>1, <2>4, <2>5, <2>6, <4>1 DEF ServingInv
      <3>3. QED
        BY <3>1, <3>2
    <2>8. QED
      BY <2>1, <2>3, <2>4, <2>6, <2>7 DEF SubInv, PS!BindingsMatchActivation
  <1>6. CASE PS!Reattach
    <2>1. /\ psRequest.do = "reattach" /\ UNCHANGED <<psTopics, psSubs, psBindings, psExcused>>
          /\ psRequest' = IF psRequest.was THEN [psRequest EXCEPT !.do = "bind", !.todo = PS!Keys(s)] ELSE Nil
      BY <1>1, <1>6 DEF PS!Reattach
    <2>2. ~PS!Active(s) /\ psBindings \ psExcused = PS!Wanting \ psExcused
      BY <1>1, <2>1 DEF ServingInv
    <2>3. /\ PS!Wanting' = PS!Wanting /\ TopicInv' /\ PS!Exists(s)' /\ (PS!Active(s)' <=> PS!Active(s))
          /\ PS!Keys(s)' = PS!Keys(s) /\ psSubs'[s] = psSubs[s]
      BY <1>1, <2>1, SameWants
    <2>4. PS!Keys(s) \subseteq PS!Key
      BY <1>1 DEF TopicInv, PS!Keys, PS!Tree, PS!Key, PS!Record
    <2>5. ServingInv'
      <3>1. CASE psRequest' = Nil
        BY <3>1 DEF ServingInv
      <3>2. CASE psRequest' # Nil
        <4>1. psRequest' \in PS!Request /\ psRequest'.do = "bind" /\ psRequest'.sub = s /\ psRequest'.todo = PS!Keys(s)
          BY <1>1, <2>1, <2>4, <3>2 DEF PS!Request
        <4>2. QED
          BY <2>1, <2>2, <2>3, <4>1 DEF ServingInv
      <3>3. QED
        BY <3>1, <3>2
    <2>6. QED
      BY <2>1, <2>2, <2>3, <2>5 DEF SubInv, PS!BindingsMatchActivation
  <1>7. CASE PS!Raises
    <2>1. /\ psRequest' = Nil /\ UNCHANGED <<psTopics, psSubs, psBindings>>
          /\ psExcused' = psExcused \cup (IF psRequest.do \in {"bind", "unbind"} THEN PS!Wanted(s) ELSE {})
      BY <1>1, <1>7 DEF PS!Raises, PS!Excuse
    <2>2. PS!Wanting' = PS!Wanting /\ TopicInv'
      BY <1>1, <2>1, SameWants
    <2>3. PS!Wanted(s) = {xn} \X PS!Keys(s)
      BY <1>1 DEF PS!Wanted
    <2>4. psBindings' \ psExcused' = PS!Wanting' \ psExcused'
      <3>1. CASE psRequest.do = "bind"
        <4>1. psBindings \ psExcused = (PS!Wanting \cup {xn} \X (PS!Keys(s) \ psRequest.todo)) \ psExcused
          BY <1>1, <3>1 DEF ServingInv
        <4>2. {xn} \X (PS!Keys(s) \ psRequest.todo) \subseteq PS!Wanted(s)
          BY <2>3
        <4>3. QED
          BY <2>1, <2>2, <3>1, <4>1, <4>2
      <3>2. CASE psRequest.do = "unbind"
        <4>1. /\ psBindings \ psExcused = (PS!WantedByOthers(s) \cup {xn} \X psRequest.todo) \ psExcused
              /\ PS!Active(s) /\ psRequest.todo \subseteq PS!Keys(s)
          BY <1>1, <3>2 DEF ServingInv
        <4>2. {xn} \X psRequest.todo \subseteq PS!Wanted(s) /\ PS!Wanting = PS!WantedByOthers(s) \cup PS!Wanted(s)
          BY <1>1, <2>3, <4>1, WantingOf
        <4>3. QED
          BY <2>1, <2>2, <3>2, <4>1, <4>2
      <3>3. CASE psRequest.do \in {"rename", "reattach"}
        BY <1>1, <2>1, <2>2, <3>3 DEF ServingInv
      <3>4. QED
        BY <1>1, <3>1, <3>2, <3>3 DEF PS!Request
    <2>5. QED
      BY <2>1, <2>2, <2>4 DEF SubInv, ServingInv, PS!BindingsMatchActivation
  <1>8. QED
    BY <1>2, <1>3, <1>4, <1>5, <1>6, <1>7 DEF PS!Serve

(* Between requests a queue has the bindings of its active subscriptions,  *)
(* and no other but those that are excused, for any number of topics,      *)
(* streams, subscriptions and queues, wherever the registry raises.        *)
THEOREM BindingsFollowActivation == PS!Spec => []BindingsMatchActivation
  <1>1. SubInv /\ [PS!Next]_(PS!vars) => SubInv'
    <2>1. SUFFICES ASSUME SubInv, [PS!Next]_(PS!vars) PROVE SubInv'
      OBVIOUS
    <2>2. CASE PS!Next
      BY <2>1, <2>2, SuiteAssumption, ResourcesStep, RequestsStep, ServeStep DEF PS!Next
    <2>3. CASE UNCHANGED PS!vars
      <3>1. UNCHANGED <<psTopics, psSubs, psBindings, psExcused, psRequest>>
        BY <2>3 DEF PS!vars
      <3>2. PS!Wanting' = PS!Wanting /\ TopicInv'
        BY <2>1, <3>1, SameWants DEF SubInv
      <3>3. ServingInv'
        BY <2>1, <3>1, <3>2, SameWants DEF SubInv, ServingInv
      <3>4. QED
        BY <2>1, <3>1, <3>2, <3>3 DEF SubInv, PS!BindingsMatchActivation
    <2>4. QED
      BY <2>1, <2>2, <2>3
  <1>2. SubInv => BindingsMatchActivation
    BY DEF SubInv, BindingsMatchActivation
  <1>3. QED
    BY InitSub, <1>1, <1>2, PTL DEF PS!Spec
===============================================================================
