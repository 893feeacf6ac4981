-------------------------- MODULE SupervisorProofs --------------------------
(***************************************************************************)
(* The supervisor, for any number of tasks, names, resumers and calls; and *)
(* then module Serving, for any runs, front ends and resumers.             *)
(***************************************************************************)
EXTENDS Serving, TLAPS

\* What a resumer works on.
Sending(r) == rpc[r] = "sending"

\* The strengthening.  The sender of a call is in one place at most: in the map, in one
\* resumer's hand, or used up, and then the channel is not empty.
ResumerKnows ==
  \A r \in Resumer :
    /\ rpc[r] # "idle" =>
         /\ about[r] \in Call
         /\ about[r].n \in 1 .. calls[about[r].task]
    /\ Sending(r) =>
         /\ held[r] \in Call
         /\ held[r].n <= calls[held[r].task]
         /\ NameOf[held[r].task] = NameOf[about[r].task]
         /\ pending[NameOf[held[r].task]] # held[r]

OneHolder == \A r, s \in Resumer : Sending(r) /\ Sending(s) /\ held[r] = held[s] => r = s

UsedUp ==
  \A t \in Task : chan[t] # None =>
    /\ pending[NameOf[t]] # Current(t)
    /\ \A r \in Resumer : Sending(r) => held[r] # Current(t)

\* An entry carries the number of a call that was made.
Numbered == \A x \in Name : pending[x] # None => pending[x].n > 0

SupInv ==
  /\ TypeOK
  /\ EntryOutlivesNoCall
  /\ Numbered
  /\ ResumerKnows
  /\ OneHolder
  /\ UsedUp
  /\ SenderSomewhere

\* The start state satisfies SupInv.
LEMMA InitSup == Init => SupInv
BY DEF Init, SupInv, TypeOK, EntryOutlivesNoCall, Numbered, ResumerKnows, OneHolder,
       UsedUp, SenderSomewhere, Sending

\* The name of a task is a name, and its current call is a call.
LEMMA CurrentIsCall ==
  ASSUME TypeOK, NEW t \in Task
  PROVE  /\ Current(t) \in Call /\ Current(t) # None /\ Current(t) # Closed
         /\ Current(t).task = t /\ Current(t).n = calls[t]
         /\ calls[t] \in Nat /\ NameOf[t] \in Name
BY NamesOfTasks, MarksAreFresh DEF TypeOK, Current, Call

\* Steps that change nothing but a caller's place and result.
LEMMA CallerMoves ==
  ASSUME SupInv, NEW t \in Task, UNCHANGED <<pending, calls, chan, resumers>>,
         TypeOK',
         \A u \in Task \ {t} : pc'[u] = pc[u],
         pc'[t] = "waiting" => pc[t] = "waiting",
         pc'[t] = "idle" => chan[t] # None \/ pc[t] = "idle"
  PROVE  SupInv'
<1>1. UNCHANGED <<rpc, about, held>>
  BY DEF resumers
<1>2. \A u \in Task : Current(u)' = Current(u)
  BY DEF Current
<1>3. EntryOutlivesNoCall'
  <2> SUFFICES ASSUME NEW x \in Name, pending[x] # None
               PROVE  /\ NameOf[pending[x].task] = x
                      /\ pending[x] = [task |-> pending[x].task, n |-> calls[pending[x].task]]
                      /\ pc'[pending[x].task] # "idle"
    BY DEF EntryOutlivesNoCall, Current
  <2>1. /\ NameOf[pending[x].task] = x
        /\ pending[x] = Current(pending[x].task)
        /\ pc[pending[x].task] # "idle"
        /\ pending[x].task \in Task
    BY DEF SupInv, EntryOutlivesNoCall, TypeOK, Call
  <2>2. pending[x].task = t => chan[t] = None
    BY <2>1 DEF SupInv, UsedUp
  <2> QED
    BY <2>1, <2>2 DEF Current
<1>4. Numbered' /\ ResumerKnows' /\ OneHolder'
  BY <1>1 DEF SupInv, Numbered, ResumerKnows, OneHolder, Sending
<1>5. UsedUp'
  BY <1>1 DEF SupInv, UsedUp, Sending, Current
<1>6. SenderSomewhere'
  BY <1>1 DEF SupInv, SenderSomewhere, Current
<1> QED
  BY <1>3, <1>4, <1>5, <1>6 DEF SupInv

\* A new call: its number is new.
LEMMA DelegateSup == ASSUME SupInv, NEW t \in Task, Delegate(t) PROVE SupInv'
<1> DEFINE c == [task |-> t, n |-> calls[t] + 1]
<1>1. /\ pc[t] = "idle" /\ pending[NameOf[t]] = None
      /\ calls' = [calls EXCEPT ![t] = @ + 1]
      /\ pending' = [pending EXCEPT ![NameOf[t]] = c]
      /\ chan' = [chan EXCEPT ![t] = None]
      /\ pc' = [pc EXCEPT ![t] = "waiting"]
      /\ UNCHANGED <<outcome, rpc, about, held>>
  BY DEF Delegate, MayCall, resumers
<1>2. TypeOK /\ NameOf[t] \in Name /\ calls[t] \in Nat
  BY CurrentIsCall DEF SupInv
<1>3. c \in Call /\ c # None /\ c.task = t /\ c.n = calls[t] + 1
  BY <1>2, MarksAreFresh DEF Call
<1> HIDE DEF c
<1>4. /\ calls'[t] = calls[t] + 1 /\ \A u \in Task \ {t} : calls'[u] = calls[u]
      /\ pc'[t] = "waiting" /\ \A u \in Task \ {t} : pc'[u] = pc[u]
      /\ chan'[t] = None /\ \A u \in Task \ {t} : chan'[u] = chan[u]
      /\ pending'[NameOf[t]] = c /\ \A x \in Name \ {NameOf[t]} : pending'[x] = pending[x]
  BY <1>1, <1>2 DEF TypeOK
<1>5. TypeOK'
  BY <1>1, <1>2, <1>3 DEF TypeOK
<1>6. c = [task |-> t, n |-> calls'[t]]
  BY <1>4 DEF c
<1>7. EntryOutlivesNoCall'
  <2> SUFFICES ASSUME NEW x \in Name, pending'[x] # None
               PROVE  /\ NameOf[pending'[x].task] = x
                      /\ pending'[x] = [task |-> pending'[x].task,
                                        n |-> calls'[pending'[x].task]]
                      /\ pc'[pending'[x].task] # "idle"
    BY DEF EntryOutlivesNoCall, Current
  <2>1. CASE x = NameOf[t]
    BY <1>3, <1>4, <1>6, <2>1
  <2>2. CASE x # NameOf[t]
    <3>1. pending'[x] = pending[x] /\ pending[x] # None
      BY <1>4, <2>2
    <3>2. /\ NameOf[pending[x].task] = x /\ pending[x].task \in Task
          /\ pending[x] = [task |-> pending[x].task, n |-> calls[pending[x].task]]
          /\ pc[pending[x].task] # "idle"
      BY <3>1 DEF SupInv, EntryOutlivesNoCall, Current, TypeOK, Call
    <3>3. pending[x].task # t
      BY <2>2, <3>2
    <3> QED
      BY <1>4, <3>1, <3>2, <3>3
  <2> QED
    BY <2>1, <2>2
<1>8. Numbered'
  BY <1>2, <1>3, <1>4 DEF SupInv, Numbered
<1>9. ASSUME NEW r \in Resumer, rpc[r] = "sending"
      PROVE  /\ held[r] \in Call /\ held[r].task \in Task /\ held[r].n \in Nat
             /\ held[r].n <= calls[held[r].task] /\ held[r] # c
             /\ NameOf[held[r].task] \in Name
  BY <1>2, <1>3, <1>9, NamesOfTasks DEF SupInv, ResumerKnows, Sending, Call
<1>10. ResumerKnows'
  <2>1. ASSUME NEW r \in Resumer, rpc[r] # "idle"
        PROVE  about[r] \in Call /\ about[r].n \in 1 .. calls'[about[r].task]
    BY <1>2, <1>4, <2>1 DEF SupInv, ResumerKnows, Call, TypeOK
  <2>2. ASSUME NEW r \in Resumer, rpc[r] = "sending"
        PROVE  /\ held[r].n <= calls'[held[r].task]
               /\ NameOf[held[r].task] = NameOf[about[r].task]
               /\ pending'[NameOf[held[r].task]] # held[r]
    <3>1. held[r].n <= calls'[held[r].task]
      BY <1>2, <1>4, <1>9, <2>2 DEF TypeOK
    <3>2. /\ NameOf[held[r].task] = NameOf[about[r].task]
          /\ pending[NameOf[held[r].task]] # held[r]
      BY <2>2 DEF SupInv, ResumerKnows, Sending
    <3> QED
      BY <1>4, <1>9, <2>2, <3>1, <3>2
  <2> QED
    BY <1>1, <1>9, <2>1, <2>2 DEF ResumerKnows, Sending
<1>11. OneHolder'
  BY <1>1 DEF SupInv, OneHolder, Sending
<1>12. UsedUp'
  <2> SUFFICES ASSUME NEW u \in Task, chan'[u] # None
               PROVE  /\ pending'[NameOf[u]] # [task |-> u, n |-> calls'[u]]
                      /\ \A r \in Resumer :
                           rpc[r] = "sending" => held[r] # [task |-> u, n |-> calls'[u]]
    BY <1>1 DEF UsedUp, Sending, Current
  <2>1. u # t /\ chan[u] # None /\ calls'[u] = calls[u]
    BY <1>4
  <2>2. /\ pending[NameOf[u]] # [task |-> u, n |-> calls[u]]
        /\ \A r \in Resumer : rpc[r] = "sending" => held[r] # [task |-> u, n |-> calls[u]]
    BY <2>1 DEF SupInv, UsedUp, Sending, Current
  <2>3. NameOf[u] \in Name
    BY NamesOfTasks
  <2> QED
    BY <1>3, <1>4, <2>1, <2>2, <2>3
<1>13. SenderSomewhere'
  <2> SUFFICES ASSUME NEW u \in Task, pc'[u] = "waiting", chan'[u] = None
               PROVE  \/ pending'[NameOf[u]] = [task |-> u, n |-> calls'[u]]
                      \/ \E r \in Resumer : /\ rpc[r] = "sending"
                                            /\ held[r] = [task |-> u, n |-> calls'[u]]
    BY <1>1 DEF SenderSomewhere, Current
  <2>1. CASE u = t
    BY <1>4, <1>6, <2>1
  <2>2. CASE u # t
    <3>1. pc[u] = "waiting" /\ chan[u] = None /\ calls'[u] = calls[u] /\ NameOf[u] \in Name
      BY <1>4, <2>2, NamesOfTasks
    <3>2. \/ pending[NameOf[u]] = [task |-> u, n |-> calls[u]]
          \/ \E r \in Resumer : /\ rpc[r] = "sending"
                                /\ held[r] = [task |-> u, n |-> calls[u]]
      BY <3>1 DEF SupInv, SenderSomewhere, Current
    <3>3. [task |-> u, n |-> calls[u]] # None
      BY <1>2, MarksAreFresh DEF TypeOK, Call
    <3>4. pending[NameOf[u]] # None => NameOf[u] # NameOf[t]
      BY <1>1
    <3> QED
      BY <1>4, <3>1, <3>2, <3>3, <3>4
  <2> QED
    BY <2>1, <2>2
<1> QED
  BY <1>5, <1>7, <1>8, <1>10, <1>11, <1>12, <1>13 DEF SupInv

\* A call that is turned away has a number too.
LEMMA RejectedSup == ASSUME SupInv, NEW t \in Task, DelegateRejected(t) PROVE SupInv'
<1>1. /\ pc[t] = "idle"
      /\ calls' = [calls EXCEPT ![t] = @ + 1]
      /\ pc' = [pc EXCEPT ![t] = "idle"]
      /\ outcome' = [outcome EXCEPT ![t] = "already_pending"]
      /\ UNCHANGED <<pending, chan, rpc, about, held>>
  BY DEF DelegateRejected, MayCall, Return, resumers
<1>2. TypeOK /\ NameOf[t] \in Name /\ calls[t] \in Nat
  BY CurrentIsCall DEF SupInv
<1>3. /\ calls'[t] = calls[t] + 1 /\ \A u \in Task \ {t} : calls'[u] = calls[u]
      /\ pc' = pc
  BY <1>1, <1>2 DEF TypeOK
<1>4. TypeOK'
  BY <1>1, <1>2 DEF TypeOK
<1>5. ASSUME NEW x \in Name, pending[x] # None
      PROVE  /\ NameOf[pending[x].task] = x /\ pending[x].task \in Task \ {t}
             /\ pending[x] = [task |-> pending[x].task, n |-> calls[pending[x].task]]
             /\ pc[pending[x].task] # "idle"
  BY <1>1, <1>2, <1>5 DEF SupInv, EntryOutlivesNoCall, Current, TypeOK, Call
<1>6. EntryOutlivesNoCall'
  <2> SUFFICES ASSUME NEW x \in Name, pending[x] # None
               PROVE  /\ NameOf[pending[x].task] = x
                      /\ pending[x] = [task |-> pending[x].task, n |-> calls'[pending[x].task]]
                      /\ pc[pending[x].task] # "idle"
    BY <1>1, <1>3 DEF EntryOutlivesNoCall, Current
  <2> QED
    BY <1>3, <1>5
<1>7. Numbered' /\ OneHolder'
  BY <1>1 DEF SupInv, Numbered, OneHolder, Sending
<1>8. ResumerKnows'
  <2>1. ASSUME NEW r \in Resumer, rpc[r] # "idle"
        PROVE  about[r] \in Call /\ about[r].n \in 1 .. calls'[about[r].task]
    BY <1>2, <1>3, <2>1 DEF SupInv, ResumerKnows, Call, TypeOK
  <2>2. ASSUME NEW r \in Resumer, rpc[r] = "sending"
        PROVE  /\ held[r] \in Call
               /\ held[r].n <= calls'[held[r].task]
               /\ NameOf[held[r].task] = NameOf[about[r].task]
               /\ pending[NameOf[held[r].task]] # held[r]
    <3>1. /\ held[r] \in Call /\ held[r].n <= calls[held[r].task]
          /\ NameOf[held[r].task] = NameOf[about[r].task]
          /\ pending[NameOf[held[r].task]] # held[r]
      BY <2>2 DEF SupInv, ResumerKnows, Sending
    <3>2. held[r].n <= calls'[held[r].task]
      BY <1>2, <1>3, <3>1 DEF TypeOK, Call
    <3> QED
      BY <3>1, <3>2
  <2> QED
    BY <1>1, <2>1, <2>2 DEF ResumerKnows, Sending
<1>9. UsedUp'
  <2> SUFFICES ASSUME NEW u \in Task, chan[u] # None
               PROVE  /\ pending[NameOf[u]] # [task |-> u, n |-> calls'[u]]
                      /\ \A r \in Resumer :
                           rpc[r] = "sending" => held[r] # [task |-> u, n |-> calls'[u]]
    BY <1>1 DEF UsedUp, Sending, Current
  <2>1. CASE u # t
    BY <1>3, <2>1 DEF SupInv, UsedUp, Sending, Current
  <2>2. CASE u = t
    <3>1. pending[NameOf[t]] # [task |-> t, n |-> calls'[t]]
      <4>1. [task |-> t, n |-> calls'[t]] # None
        BY <1>2, <1>3, MarksAreFresh DEF Call
      <4>2. pending[NameOf[t]] # None => pending[NameOf[t]].task # t
        BY <1>2, <1>5
      <4>3. [task |-> t, n |-> calls'[t]].task = t
        OBVIOUS
      <4> QED
        BY <4>1, <4>2, <4>3
    <3>2. ASSUME NEW r \in Resumer, rpc[r] = "sending"
          PROVE  held[r] # [task |-> t, n |-> calls'[t]]
      BY <1>2, <1>3, <3>2 DEF SupInv, ResumerKnows, Sending, Call
    <3> QED
      BY <2>2, <3>1, <3>2
  <2> QED
    BY <2>1, <2>2
<1>10. SenderSomewhere'
  <2> SUFFICES ASSUME NEW u \in Task, pc[u] = "waiting", chan[u] = None
               PROVE  \/ pending[NameOf[u]] = [task |-> u, n |-> calls'[u]]
                      \/ \E r \in Resumer : /\ rpc[r] = "sending"
                                            /\ held[r] = [task |-> u, n |-> calls'[u]]
    BY <1>1, <1>3 DEF SenderSomewhere, Current
  <2> QED
    BY <1>1, <1>3 DEF SupInv, SenderSomewhere, Current
<1> QED
  BY <1>4, <1>6, <1>7, <1>8, <1>9, <1>10 DEF SupInv

\* The clean-up after a timeout takes out whatever stands under the name; a namesake that
\* waits behind that entry finds its channel closed.
LEMMA CleanupSup == ASSUME SupInv, NEW t \in Task, Cleanup(t) PROVE SupInv'
<1> DEFINE x0 == NameOf[t]
<1>1. /\ pc[t] = "cleanup"
      /\ pending' = [pending EXCEPT ![x0] = None]
      /\ chan' = DropSender(pending[x0])
      /\ pc' = [pc EXCEPT ![t] = "idle"]
      /\ outcome' = [outcome EXCEPT ![t] = "timeout"]
      /\ UNCHANGED <<calls, rpc, about, held>>
  BY DEF Cleanup, Return, resumers
<1>2. TypeOK /\ x0 \in Name
  BY CurrentIsCall DEF SupInv
<1>3. /\ pending'[x0] = None /\ \A x \in Name \ {x0} : pending'[x] = pending[x]
      /\ pc'[t] = "idle" /\ \A u \in Task \ {t} : pc'[u] = pc[u]
  BY <1>1, <1>2 DEF TypeOK
<1>4. \A u \in Task : Current(u) \in Call /\ Current(u) # None /\ NameOf[u] \in Name
  BY <1>2, CurrentIsCall
<1>5. ASSUME NEW u \in Task
      PROVE  chan'[u] = chan[u]
             \/ (chan'[u] = Closed /\ pending[x0] = Current(u) /\ NameOf[u] = x0)
  <2>1. CASE pending[x0] # None /\ ReceiverAlive(pending[x0])
    <3>1. chan' = [chan EXCEPT ![pending[x0].task] = Closed]
      BY <1>1, <2>1 DEF DropSender
    <3>2. pending[x0] = Current(pending[x0].task) /\ NameOf[pending[x0].task] = x0
      BY <1>2, <2>1 DEF SupInv, EntryOutlivesNoCall
    <3>3. pending[x0].task = u => chan'[u] = Closed
      BY <1>2, <3>1 DEF TypeOK
    <3>4. pending[x0].task # u => chan'[u] = chan[u]
      BY <1>2, <3>1 DEF TypeOK
    <3> QED
      BY <3>2, <3>3, <3>4
  <2>2. CASE ~(pending[x0] # None /\ ReceiverAlive(pending[x0]))
    BY <1>1, <2>2 DEF DropSender
  <2> QED
    BY <2>1, <2>2
<1>6. \A u \in Task : pending[x0] = Current(u) /\ pc[u] = "waiting" => chan'[u] = Closed
  <2> SUFFICES ASSUME NEW u \in Task, pending[x0] = Current(u), pc[u] = "waiting"
               PROVE  chan'[u] = Closed
    OBVIOUS
  <2>1. Current(u).task = u /\ Current(u) # None
    BY <1>4 DEF Current
  <2>2. ReceiverAlive(pending[x0])
    BY <2>1 DEF ReceiverAlive
  <2>3. chan' = [chan EXCEPT ![u] = Closed]
    BY <1>1, <2>1, <2>2 DEF DropSender
  <2> QED
    BY <1>2, <2>3 DEF TypeOK
<1>7. TypeOK'
  <2>1. chan' \in [Task -> Call \cup {None, Closed}]
    BY <1>1, <1>2 DEF TypeOK, DropSender
  <2> QED
    BY <1>1, <1>2, <2>1 DEF TypeOK
<1> HIDE DEF x0
<1>8. EntryOutlivesNoCall'
  <2> SUFFICES ASSUME NEW x \in Name, pending'[x] # None
               PROVE  /\ NameOf[pending'[x].task] = x
                      /\ pending'[x] = [task |-> pending'[x].task,
                                        n |-> calls[pending'[x].task]]
                      /\ pc'[pending'[x].task] # "idle"
    BY <1>1 DEF EntryOutlivesNoCall, Current
  <2>1. x # x0 /\ pending'[x] = pending[x]
    BY <1>3
  <2>2. /\ NameOf[pending[x].task] = x /\ pending[x].task \in Task
        /\ pending[x] = [task |-> pending[x].task, n |-> calls[pending[x].task]]
        /\ pc[pending[x].task] # "idle"
    BY <1>2, <2>1 DEF SupInv, EntryOutlivesNoCall, Current, TypeOK, Call
  <2>3. pending[x].task # t
    BY <2>1, <2>2 DEF x0
  <2> QED
    BY <1>3, <2>1, <2>2, <2>3
<1>9. Numbered'
  BY <1>3 DEF SupInv, Numbered
<1>10. ASSUME NEW r \in Resumer, rpc[r] = "sending"
       PROVE  pending'[NameOf[held[r].task]] # held[r]
  <2>1. /\ held[r] \in Call /\ pending[NameOf[held[r].task]] # held[r]
        /\ NameOf[held[r].task] \in Name
    BY <1>10, NamesOfTasks DEF SupInv, ResumerKnows, Sending, Call
  <2> QED
    BY <1>3, <2>1, MarksAreFresh
<1>11. ResumerKnows' /\ OneHolder'
  BY <1>1, <1>10 DEF SupInv, ResumerKnows, OneHolder, Sending
<1>12. UsedUp'
  <2> SUFFICES ASSUME NEW u \in Task, chan'[u] # None
               PROVE  /\ pending'[NameOf[u]] # Current(u)
                      /\ \A r \in Resumer : rpc[r] = "sending" => held[r] # Current(u)
    BY <1>1 DEF UsedUp, Sending, Current
  <2>1. CASE chan'[u] = chan[u]
    BY <1>3, <1>4, <2>1 DEF SupInv, UsedUp, Sending
  <2>2. CASE pending[x0] = Current(u) /\ NameOf[u] = x0
    <3>1. pending'[NameOf[u]] # Current(u)
      BY <1>3, <1>4, <2>2
    <3>2. ASSUME NEW r \in Resumer, rpc[r] = "sending" PROVE held[r] # Current(u)
      <4>1. pending[NameOf[held[r].task]] # held[r]
        BY <3>2 DEF SupInv, ResumerKnows, Sending
      <4>2. Current(u).task = u
        BY DEF Current
      <4> QED
        BY <2>2, <4>1, <4>2
    <3> QED
      BY <3>1, <3>2
  <2> QED
    BY <1>5, <2>1, <2>2
<1>13. SenderSomewhere'
  <2> SUFFICES ASSUME NEW u \in Task, pc'[u] = "waiting", chan'[u] = None
               PROVE  \/ pending'[NameOf[u]] = Current(u)
                      \/ \E r \in Resumer : rpc[r] = "sending" /\ held[r] = Current(u)
    BY <1>1 DEF SenderSomewhere, Current
  <2>1. pc[u] = "waiting" /\ chan[u] = None
    BY <1>3, <1>5, MarksAreFresh
  <2>2. \/ pending[NameOf[u]] = Current(u)
        \/ \E r \in Resumer : rpc[r] = "sending" /\ held[r] = Current(u)
    BY <2>1 DEF SupInv, SenderSomewhere
  <2>3. NameOf[u] = x0 => pending[NameOf[u]] # Current(u)
    BY <1>6, <2>1, MarksAreFresh
  <2> QED
    BY <1>3, <1>4, <2>2, <2>3
<1> QED
  BY <1>7, <1>8, <1>9, <1>11, <1>12, <1>13 DEF SupInv

\* A resumer reads an entry.
LEMMA ReadInfoSup ==
  ASSUME SupInv, NEW r \in Resumer, NEW x \in Name, ReadInfo(r, x)
  PROVE  SupInv'
<1>1. /\ rpc[r] = "idle" /\ pending[x] # None
      /\ about' = [about EXCEPT ![r] = pending[x]]
      /\ rpc' = [rpc EXCEPT ![r] = "working"]
      /\ UNCHANGED <<pending, chan, held, calls, pc, outcome>>
  BY DEF ReadInfo, callers
<1>2. TypeOK
  BY DEF SupInv
<1>3. /\ rpc'[r] = "working" /\ about'[r] = pending[x]
      /\ \A s \in Resumer \ {r} : rpc'[s] = rpc[s] /\ about'[s] = about[s]
  BY <1>1, <1>2 DEF TypeOK
<1>4. TypeOK'
  BY <1>1, <1>2 DEF TypeOK
<1>5. \A s \in Resumer : Sending(s)' <=> Sending(s)
  BY <1>1, <1>3 DEF Sending
<1>6. pending[x] \in Call /\ pending[x].n \in 1 .. calls[pending[x].task]
  <2>1. /\ pending[x] \in Call /\ pending[x].n > 0
        /\ pending[x] = [task |-> pending[x].task, n |-> calls[pending[x].task]]
    BY <1>1, <1>2 DEF SupInv, EntryOutlivesNoCall, Numbered, TypeOK, Current
  <2>2. pending[x].n = calls[pending[x].task] /\ pending[x].n \in Nat
    BY <2>1 DEF Call
  <2> QED
    BY <2>1, <2>2
<1>7. ResumerKnows'
  <2> SUFFICES ASSUME NEW s \in Resumer
               PROVE  /\ rpc'[s] # "idle" =>
                           /\ about'[s] \in Call
                           /\ about'[s].n \in 1 .. calls[about'[s].task]
                      /\ rpc'[s] = "sending" =>
                           /\ held[s] \in Call
                           /\ held[s].n <= calls[held[s].task]
                           /\ NameOf[held[s].task] = NameOf[about'[s].task]
                           /\ pending[NameOf[held[s].task]] # held[s]
    BY <1>1 DEF ResumerKnows, Sending
  <2>1. CASE s = r
    BY <1>3, <1>6, <2>1
  <2>2. CASE s # r
    BY <1>3, <2>2 DEF SupInv, ResumerKnows, Sending
  <2> QED
    BY <2>1, <2>2
<1>8. EntryOutlivesNoCall' /\ Numbered'
  BY <1>1 DEF SupInv, EntryOutlivesNoCall, Numbered, Current
<1>9. OneHolder'
  BY <1>1, <1>3 DEF SupInv, OneHolder, Sending
<1>10. UsedUp'
  BY <1>1, <1>3 DEF SupInv, UsedUp, Sending, Current
<1>11. SenderSomewhere'
  BY <1>1, <1>3 DEF SupInv, SenderSomewhere, Current
<1> QED
  BY <1>4, <1>7, <1>8, <1>9, <1>10, <1>11 DEF SupInv

\* A resumer leaves what it has read about.
LEMMA LeaveSup == ASSUME SupInv, NEW r \in Resumer, Leave(r) PROVE SupInv'
<1>1. /\ rpc[r] = "working"
      /\ rpc' = [rpc EXCEPT ![r] = "idle"]
      /\ about' = [about EXCEPT ![r] = None]
      /\ UNCHANGED <<pending, chan, held, calls, pc, outcome>>
  BY DEF Leave, callers
<1>2. TypeOK
  BY DEF SupInv
<1>3. /\ rpc'[r] = "idle"
      /\ \A s \in Resumer \ {r} : rpc'[s] = rpc[s] /\ about'[s] = about[s]
  BY <1>1, <1>2 DEF TypeOK
<1>4. TypeOK'
  BY <1>1, <1>2 DEF TypeOK
<1>5. ResumerKnows'
  BY <1>1, <1>3 DEF SupInv, ResumerKnows, Sending
<1>6. EntryOutlivesNoCall' /\ Numbered'
  BY <1>1 DEF SupInv, EntryOutlivesNoCall, Numbered, Current
<1>7. OneHolder'
  BY <1>1, <1>3 DEF SupInv, OneHolder, Sending
<1>8. UsedUp'
  BY <1>1, <1>3 DEF SupInv, UsedUp, Sending, Current
<1>9. SenderSomewhere'
  BY <1>1, <1>3 DEF SupInv, SenderSomewhere, Current
<1> QED
  BY <1>4, <1>5, <1>6, <1>7, <1>8, <1>9 DEF SupInv

\* A resumer takes the entry out: the sender changes hands.
LEMMA TakeTaskSup == ASSUME SupInv, NEW r \in Resumer, TakeTask(r) PROVE SupInv'
<1> DEFINE x0 == NameOf[about[r].task]
<1>1. /\ rpc[r] = "working" /\ pending[x0] # None
      /\ rpc' = [rpc EXCEPT ![r] = "sending"]
      /\ held' = [held EXCEPT ![r] = pending[x0]]
      /\ pending' = [pending EXCEPT ![x0] = None]
      /\ UNCHANGED <<chan, about, calls, pc, outcome>>
  BY DEF TakeTask, callers
<1>2. TypeOK
  BY DEF SupInv
<1>3. about[r] \in Call /\ x0 \in Name
  BY <1>1, NamesOfTasks DEF SupInv, ResumerKnows, Call
<1>4. /\ pending[x0] \in Call /\ NameOf[pending[x0].task] = x0
      /\ pending[x0] = Current(pending[x0].task) /\ pending[x0].task \in Task
  BY <1>1, <1>2, <1>3 DEF SupInv, EntryOutlivesNoCall, TypeOK, Call
<1>5. /\ rpc'[r] = "sending" /\ held'[r] = pending[x0]
      /\ \A s \in Resumer \ {r} : rpc'[s] = rpc[s] /\ held'[s] = held[s]
      /\ pending'[x0] = None /\ \A x \in Name \ {x0} : pending'[x] = pending[x]
  BY <1>1, <1>2, <1>3 DEF TypeOK
<1>6. TypeOK'
  BY <1>1, <1>2, <1>3 DEF TypeOK
<1>7. NameOf[pending[x0].task] = NameOf[about[r].task]
  BY <1>4
<1> HIDE DEF x0
<1>8. EntryOutlivesNoCall' /\ Numbered'
  BY <1>1, <1>5 DEF SupInv, EntryOutlivesNoCall, Numbered, Current
<1>9. pending[x0].n <= calls[pending[x0].task]
  <2>1. pending[x0].n = calls[pending[x0].task]
    BY <1>4 DEF Current
  <2>2. calls[pending[x0].task] \in Nat
    BY <1>2, <1>4 DEF TypeOK
  <2> QED
    BY <2>1, <2>2
<1>10. ASSUME NEW s \in Resumer \ {r}, rpc[s] = "sending"
       PROVE  /\ held[s] \in Call
              /\ held[s].n <= calls[held[s].task]
              /\ NameOf[held[s].task] = NameOf[about[s].task]
              /\ pending[NameOf[held[s].task]] # held[s]
              /\ NameOf[held[s].task] \in Name
              /\ held[s] # pending[x0]
  <2>1. /\ held[s] \in Call
        /\ held[s].n <= calls[held[s].task]
        /\ NameOf[held[s].task] = NameOf[about[s].task]
        /\ pending[NameOf[held[s].task]] # held[s]
    BY <1>10 DEF SupInv, ResumerKnows, Sending
  <2>2. NameOf[held[s].task] \in Name
    BY <2>1, NamesOfTasks DEF Call
  <2>3. held[s] # pending[x0]
    BY <1>4, <2>1
  <2> QED
    BY <2>1, <2>2, <2>3
<1>11. ResumerKnows'
  <2> SUFFICES ASSUME NEW s \in Resumer
               PROVE  /\ rpc'[s] # "idle" =>
                           /\ about[s] \in Call
                           /\ about[s].n \in 1 .. calls[about[s].task]
                      /\ rpc'[s] = "sending" =>
                           /\ held'[s] \in Call
                           /\ held'[s].n <= calls[held'[s].task]
                           /\ NameOf[held'[s].task] = NameOf[about[s].task]
                           /\ pending'[NameOf[held'[s].task]] # held'[s]
    BY <1>1 DEF ResumerKnows, Sending
  <2>1. CASE s = r
    <3>1. about[r] \in Call /\ about[r].n \in 1 .. calls[about[r].task]
      BY <1>1 DEF SupInv, ResumerKnows
    <3>2. pending'[NameOf[pending[x0].task]] # pending[x0]
      BY <1>1, <1>4, <1>5
    <3> QED
      BY <1>4, <1>5, <1>7, <1>9, <2>1, <3>1, <3>2
  <2>2. CASE s # r
    <3>1. rpc[s] # "idle" => about[s] \in Call /\ about[s].n \in 1 .. calls[about[s].task]
      BY DEF SupInv, ResumerKnows
    <3>2. rpc[s] = "sending" => pending'[NameOf[held[s].task]] # held[s]
      BY <1>5, <1>10, <2>2, MarksAreFresh
    <3> QED
      BY <1>5, <1>10, <2>2, <3>1, <3>2
  <2> QED
    BY <2>1, <2>2
<1>12. OneHolder'
  <2> SUFFICES ASSUME NEW s \in Resumer, NEW u \in Resumer,
                      rpc'[s] = "sending", rpc'[u] = "sending", held'[s] = held'[u]
               PROVE  s = u
    BY DEF OneHolder, Sending
  <2>1. CASE s = r \/ u = r
    BY <1>5, <1>10, <2>1
  <2>2. CASE s # r /\ u # r
    BY <1>5, <2>2 DEF SupInv, OneHolder, Sending
  <2> QED
    BY <2>1, <2>2
<1>13. UsedUp'
  <2> SUFFICES ASSUME NEW u \in Task, chan[u] # None
               PROVE  /\ pending'[NameOf[u]] # Current(u)
                      /\ \A s \in Resumer : rpc'[s] = "sending" => held'[s] # Current(u)
    BY <1>1 DEF UsedUp, Sending, Current
  <2>1. /\ pending[NameOf[u]] # Current(u)
        /\ \A s \in Resumer : rpc[s] = "sending" => held[s] # Current(u)
    BY DEF SupInv, UsedUp, Sending
  <2>2. Current(u) # None /\ NameOf[u] \in Name /\ Current(u).task = u
    BY <1>2, CurrentIsCall
  <2>3. pending[x0] # Current(u)
    BY <1>4, <2>1, <2>2
  <2> QED
    BY <1>5, <2>1, <2>2, <2>3
<1>14. SenderSomewhere'
  <2> SUFFICES ASSUME NEW u \in Task, pc[u] = "waiting", chan[u] = None
               PROVE  \/ pending'[NameOf[u]] = Current(u)
                      \/ \E s \in Resumer : rpc'[s] = "sending" /\ held'[s] = Current(u)
    BY <1>1 DEF SenderSomewhere, Current
  <2>1. CASE pending[NameOf[u]] = Current(u)
    BY <1>5, <2>1, NamesOfTasks
  <2>2. CASE \E s \in Resumer : rpc[s] = "sending" /\ held[s] = Current(u)
    BY <1>1, <1>5, <2>2
  <2> QED
    BY <2>1, <2>2 DEF SupInv, SenderSomewhere, Sending
<1> QED
  BY <1>6, <1>8, <1>11, <1>12, <1>13, <1>14 DEF SupInv

\* A resumer uses the sender up.
LEMMA SendSup == ASSUME SupInv, NEW r \in Resumer, SendAnswer(r) PROVE SupInv'
<1>1. /\ rpc[r] = "sending"
      /\ chan' = IF ReceiverAlive(held[r])
                 THEN [chan EXCEPT ![held[r].task] = about[r]]
                 ELSE chan
      /\ rpc' = [rpc EXCEPT ![r] = "idle"]
      /\ about' = [about EXCEPT ![r] = None]
      /\ held' = [held EXCEPT ![r] = None]
      /\ UNCHANGED <<pending, calls, pc, outcome>>
  BY DEF SendAnswer, callers
<1>2. TypeOK
  BY DEF SupInv
<1>3. /\ rpc'[r] = "idle"
      /\ \A s \in Resumer \ {r} :
           rpc'[s] = rpc[s] /\ about'[s] = about[s] /\ held'[s] = held[s]
  BY <1>1, <1>2 DEF TypeOK
<1>4. /\ about[r] \in Call /\ held[r] \in Call /\ held[r].task \in Task
      /\ pending[NameOf[held[r].task]] # held[r]
  BY <1>1 DEF SupInv, ResumerKnows, Sending, Call
<1>5. TypeOK'
  BY <1>1, <1>2, <1>4 DEF TypeOK
<1>6. ASSUME NEW u \in Task
      PROVE  chan'[u] = chan[u] \/ (chan'[u] = about[r] /\ held[r] = Current(u))
  <2>1. CASE ReceiverAlive(held[r])
    <3>1. held[r] = Current(held[r].task)
      BY <2>1 DEF ReceiverAlive
    <3>2. held[r].task = u => chan'[u] = about[r]
      BY <1>1, <1>2, <2>1 DEF TypeOK
    <3>3. held[r].task # u => chan'[u] = chan[u]
      BY <1>1, <1>2, <2>1 DEF TypeOK
    <3> QED
      BY <3>1, <3>2, <3>3
  <2>2. CASE ~ReceiverAlive(held[r])
    BY <1>1, <2>2
  <2> QED
    BY <2>1, <2>2
<1>7. ASSUME NEW u \in Task, pc[u] = "waiting", held[r] = Current(u)
      PROVE  chan'[u] # None
  <2>1. Current(u).task = u
    BY <1>2, CurrentIsCall
  <2>2. ReceiverAlive(held[r])
    BY <1>7, <2>1 DEF ReceiverAlive
  <2>3. chan' = [chan EXCEPT ![u] = about[r]]
    BY <1>1, <1>7, <2>1, <2>2
  <2> QED
    BY <1>2, <1>4, <2>3, MarksAreFresh DEF TypeOK
<1>8. ResumerKnows'
  BY <1>1, <1>3 DEF SupInv, ResumerKnows, Sending
<1>9. EntryOutlivesNoCall' /\ Numbered'
  BY <1>1 DEF SupInv, EntryOutlivesNoCall, Numbered, Current
<1>10. OneHolder'
  BY <1>1, <1>3 DEF SupInv, OneHolder, Sending
<1>11. UsedUp'
  <2> SUFFICES ASSUME NEW u \in Task, chan'[u] # None
               PROVE  /\ pending[NameOf[u]] # Current(u)
                      /\ \A s \in Resumer : rpc'[s] = "sending" => held'[s] # Current(u)
    BY <1>1 DEF UsedUp, Sending, Current
  <2>1. CASE chan'[u] = chan[u]
    BY <1>3, <2>1 DEF SupInv, UsedUp, Sending
  <2>2. CASE held[r] = Current(u)
    <3>1. Current(u).task = u
      BY <1>2, CurrentIsCall
    <3>2. pending[NameOf[u]] # Current(u)
      BY <1>4, <2>2, <3>1
    <3>3. \A s \in Resumer \ {r} : rpc[s] = "sending" => held[s] # Current(u)
      BY <1>1, <2>2 DEF SupInv, OneHolder, Sending
    <3> QED
      BY <1>3, <3>2, <3>3
  <2> QED
    BY <1>6, <2>1, <2>2
<1>12. SenderSomewhere'
  <2> SUFFICES ASSUME NEW u \in Task, pc[u] = "waiting", chan'[u] = None
               PROVE  \/ pending[NameOf[u]] = Current(u)
                      \/ \E s \in Resumer : rpc'[s] = "sending" /\ held'[s] = Current(u)
    BY <1>1 DEF SenderSomewhere, Current
  <2>1. held[r] # Current(u)
    BY <1>7
  <2>2. chan[u] = None
    BY <1>6, <2>1
  <2> QED
    BY <1>3, <2>1, <2>2 DEF SupInv, SenderSomewhere, Sending
<1> QED
  BY <1>5, <1>8, <1>9, <1>10, <1>11, <1>12 DEF SupInv

\* Every step preserves SupInv.
LEMMA StepSup == SupInv /\ [Next]_vars => SupInv'
<1> SUFFICES ASSUME SupInv, [Next]_vars PROVE SupInv'
  OBVIOUS
<1>0. TypeOK
  BY DEF SupInv
<1>1. ASSUME NEW t \in Task, Delegate(t) PROVE SupInv'
  BY <1>1, DelegateSup
<1>2. ASSUME NEW t \in Task, DelegateRejected(t) PROVE SupInv'
  BY <1>2, RejectedSup
<1>3. ASSUME NEW t \in Task, ReceiveAnswer(t) \/ ReceiveClosed(t) PROVE SupInv'
  <2>1. /\ TypeOK' /\ pc'[t] = "idle" /\ chan[t] # None
        /\ \A u \in Task \ {t} : pc'[u] = pc[u]
        /\ UNCHANGED <<pending, calls, chan, resumers>>
    BY <1>0, <1>3, MarksAreFresh DEF ReceiveAnswer, ReceiveClosed, Return, TypeOK, resumers
  <2> QED
    BY <2>1, CallerMoves
<1>4. ASSUME NEW t \in Task, Expire(t) PROVE SupInv'
  <2>1. /\ TypeOK' /\ pc'[t] = "expired"
        /\ \A u \in Task \ {t} : pc'[u] = pc[u]
        /\ UNCHANGED <<pending, calls, chan, resumers>>
    BY <1>0, <1>4 DEF Expire, TypeOK, resumers
  <2> QED
    BY <2>1, CallerMoves
<1>5. ASSUME NEW t \in Task, DropReceiver(t) PROVE SupInv'
  <2>1. /\ TypeOK' /\ pc'[t] = "cleanup"
        /\ \A u \in Task \ {t} : pc'[u] = pc[u]
        /\ UNCHANGED <<pending, calls, chan, resumers>>
    BY <1>0, <1>5 DEF DropReceiver, TypeOK, resumers
  <2> QED
    BY <2>1, CallerMoves
<1>6. ASSUME NEW t \in Task, Cleanup(t) PROVE SupInv'
  BY <1>6, CleanupSup
<1>7. ASSUME NEW t \in Task, Abort(t) PROVE SupInv'
  <2>1. /\ TypeOK' /\ pc'[t] = "aborted"
        /\ \A u \in Task \ {t} : pc'[u] = pc[u]
        /\ UNCHANGED <<pending, calls, chan, resumers>>
    BY <1>0, <1>7 DEF Abort, TypeOK, resumers
  <2> QED
    BY <2>1, CallerMoves
<1>8. ASSUME NEW r \in Resumer, NEW x \in Name, ReadInfo(r, x) PROVE SupInv'
  BY <1>8, ReadInfoSup
<1>9. ASSUME NEW r \in Resumer, ResumerStep(r) PROVE SupInv'
  BY <1>9, TakeTaskSup, LeaveSup, SendSup DEF ResumerStep, NotPending
<1>10. CASE UNCHANGED vars
  BY <1>10 DEF vars, SupInv, TypeOK, EntryOutlivesNoCall, Numbered, ResumerKnows, OneHolder,
               UsedUp, SenderSomewhere, Sending, Current
<1> QED
  BY <1>1, <1>2, <1>3, <1>4, <1>5, <1>6, <1>7, <1>8, <1>9, <1>10 DEF Next, CallerStep

\* The strengthened invariant of the supervisor.
THEOREM SupInvariant == Spec => []SupInv
  BY InitSup, StepSup, PTL DEF Spec

\* Type correctness.
THEOREM TypeCorrect == Spec => []TypeOK
<1>1. SupInv => TypeOK
  BY DEF SupInv
<1> QED
  BY <1>1, SupInvariant, PTL

\* No wake-up is lost, whatever namesakes, timeouts and resumers do to the map.
THEOREM NoLostWakeup == Spec => []SenderSomewhere
<1>1. SupInv => SenderSomewhere
  BY DEF SupInv
<1> QED
  BY <1>1, SupInvariant, PTL

\* No entry is left behind by a call that has returned.
THEOREM EntriesAreOfOpenCalls == Spec => []EntryOutlivesNoCall
<1>1. SupInv => EntryOutlivesNoCall
  BY DEF SupInv
<1> QED
  BY <1>1, SupInvariant, PTL

----------------------------------------------------------------------------

\* What a step can do to a channel that is not empty: it is emptied by a new call of its
\* task, and otherwise it stays as it is.
LEMMA FullChannelStays ==
  ASSUME SupInv, [Next]_vars, NEW t \in Task, chan[t] # None, calls'[t] = calls[t]
  PROVE  chan'[t] = chan[t]
<1>0. TypeOK /\ calls[t] \in Nat
  BY DEF SupInv, TypeOK
<1>1. ASSUME NEW u \in Task, Delegate(u) PROVE chan'[t] = chan[t]
  <2>1. calls' = [calls EXCEPT ![u] = @ + 1] /\ chan' = [chan EXCEPT ![u] = None]
    BY <1>1 DEF Delegate
  <2>2. u # t
    BY <1>0, <2>1 DEF TypeOK
  <2> QED
    BY <1>0, <2>1, <2>2 DEF TypeOK
<1>2. ASSUME NEW u \in Task, Cleanup(u) PROVE chan'[t] = chan[t]
  <2> DEFINE c == pending[NameOf[u]]
  <2>1. chan' = DropSender(c)
    BY <1>2 DEF Cleanup
  <2>2. CASE c # None /\ ReceiverAlive(c)
    <3>1. c = Current(c.task) /\ NameOf[c.task] = NameOf[u]
      BY <2>2, NamesOfTasks DEF SupInv, EntryOutlivesNoCall
    <3>2. c.task # t
      BY <3>1 DEF SupInv, UsedUp
    <3>3. chan' = [chan EXCEPT ![c.task] = Closed]
      BY <2>1, <2>2 DEF DropSender
    <3> QED
      BY <1>0, <3>2, <3>3 DEF TypeOK
  <2>3. CASE ~(c # None /\ ReceiverAlive(c))
    BY <2>1, <2>3 DEF DropSender
  <2> QED
    BY <2>2, <2>3
<1>3. ASSUME NEW r \in Resumer, SendAnswer(r) PROVE chan'[t] = chan[t]
  <2>1. CASE ReceiverAlive(held[r])
    <3>1. held[r] = Current(held[r].task) /\ rpc[r] = "sending"
      BY <1>3, <2>1 DEF ReceiverAlive, SendAnswer
    <3>2. held[r].task # t
      BY <3>1 DEF SupInv, UsedUp, Sending
    <3>3. chan' = [chan EXCEPT ![held[r].task] = about[r]]
      BY <1>3, <2>1 DEF SendAnswer
    <3> QED
      BY <1>0, <3>2, <3>3 DEF TypeOK
  <2>2. CASE ~ReceiverAlive(held[r])
    BY <1>3, <2>2 DEF SendAnswer
  <2> QED
    BY <2>1, <2>2
<1>4. ASSUME NEW u \in Task, DelegateRejected(u) \/ ReceiveAnswer(u) \/ ReceiveClosed(u)
                              \/ Expire(u) \/ DropReceiver(u) \/ Abort(u)
      PROVE  chan'[t] = chan[t]
  BY <1>4 DEF DelegateRejected, ReceiveAnswer, ReceiveClosed, Expire, DropReceiver, Abort
<1>5. ASSUME NEW r \in Resumer, TakeTask(r) \/ Leave(r) \/ \E x \in Name : ReadInfo(r, x)
      PROVE  chan'[t] = chan[t]
  BY <1>5 DEF TakeTask, Leave, ReadInfo
<1>6. CASE UNCHANGED vars
  BY <1>6 DEF vars
<1> QED
  BY <1>1, <1>2, <1>3, <1>4, <1>5, <1>6 DEF Next, CallerStep, ResumerStep, NotPending

\* A call is answered once, however many resumers race for it.
THEOREM OneAnswer == Spec => AnsweredOnce
<1>1. SupInv /\ [Next]_vars =>
        [\A t \in Task : chan[t] # None /\ calls'[t] = calls[t] => chan'[t] = chan[t]]_vars
  BY FullChannelStays
<1> QED
  BY <1>1, SupInvariant, PTL DEF Spec, AnsweredOnce

----------------------------------------------------------------------------

\* A task that has its name to itself is served: the strengthening says that the channel
\* of such a task is never closed and holds what its own resumers have sent.
Alone(t) == \A u \in Task \ {t} : NameOf[u] # NameOf[t]

\* A step keeps the promise to such a task.
LEMMA StepAlone == SupInv /\ AloneIsServed /\ [Next]_vars => AloneIsServed'
<1> SUFFICES ASSUME SupInv, AloneIsServed, [Next]_vars, NEW t \in Task, Alone(t)
             PROVE  /\ outcome'[t] \notin {"already_pending", "dropped"}
                    /\ chan'[t] # Closed
                    /\ chan'[t] # None => /\ chan'[t].task = t
                                          /\ calls'[t] = 1 => chan'[t] = [task |-> t, n |-> calls'[t]]
  BY DEF AloneIsServed, Alone, Current
<1> DEFINE Served == /\ outcome'[t] \notin {"already_pending", "dropped"}
                     /\ chan'[t] # Closed
                     /\ chan'[t] # None => /\ chan'[t].task = t
                                           /\ calls'[t] = 1 => chan'[t] = [task |-> t, n |-> calls'[t]]
<1>0. /\ TypeOK /\ calls[t] \in Nat
      /\ outcome[t] \notin {"already_pending", "dropped"}
      /\ chan[t] # Closed
      /\ chan[t] # None => /\ chan[t].task = t
                           /\ calls[t] = 1 => chan[t] = [task |-> t, n |-> calls[t]]
  BY DEF SupInv, TypeOK, AloneIsServed, Alone, Current
<1>1. CASE UNCHANGED <<outcome[t], chan[t], calls[t]>>
  BY <1>0, <1>1
<1>2. ASSUME NEW u \in Task, Delegate(u) PROVE Served
  <2>1. /\ outcome' = outcome /\ chan' = [chan EXCEPT ![u] = None]
        /\ calls' = [calls EXCEPT ![u] = @ + 1]
    BY <1>2 DEF Delegate
  <2>2. CASE u = t
    BY <1>0, <2>1, <2>2, MarksAreFresh DEF TypeOK
  <2>3. CASE u # t
    BY <1>0, <1>1, <2>1, <2>3 DEF TypeOK
  <2> QED
    BY <2>2, <2>3
<1>3. ASSUME NEW u \in Task, DelegateRejected(u) PROVE Served
  <2>1. pending[NameOf[u]] # None /\ pc[u] = "idle" /\ NameOf[u] \in Name
    BY <1>3, NamesOfTasks DEF DelegateRejected, MayCall
  <2>2. /\ pending[NameOf[u]].task \in Task /\ NameOf[pending[NameOf[u]].task] = NameOf[u]
        /\ pending[NameOf[u]].task # u
    BY <1>0, <2>1 DEF SupInv, EntryOutlivesNoCall, TypeOK, Call
  <2>3. u # t
    BY <2>2 DEF Alone
  <2>4. /\ outcome' = [outcome EXCEPT ![u] = "already_pending"]
        /\ chan' = chan /\ calls' = [calls EXCEPT ![u] = @ + 1]
    BY <1>3 DEF DelegateRejected, Return
  <2> QED
    BY <1>0, <1>1, <2>3, <2>4 DEF TypeOK
<1>4. ASSUME NEW u \in Task, ReceiveAnswer(u) PROVE Served
  <2>1. outcome' = [outcome EXCEPT ![u] = "ok"] /\ chan' = chan /\ calls' = calls
    BY <1>4 DEF ReceiveAnswer, Return
  <2>2. outcome'[t] \in {outcome[t], "ok"}
    BY <1>0, <2>1 DEF TypeOK
  <2> QED
    BY <1>0, <2>1, <2>2
<1>5. ASSUME NEW u \in Task, ReceiveClosed(u) PROVE Served
  <2>1. /\ outcome' = [outcome EXCEPT ![u] = "dropped"] /\ chan' = chan /\ calls' = calls
        /\ chan[u] = Closed
    BY <1>5 DEF ReceiveClosed, Return
  <2>2. u # t
    BY <1>0, <2>1
  <2> QED
    BY <1>0, <1>1, <2>1, <2>2 DEF TypeOK
<1>6. ASSUME NEW u \in Task, Expire(u) \/ DropReceiver(u) \/ Abort(u) PROVE Served
  BY <1>0, <1>6 DEF Expire, DropReceiver, Abort
<1>7. ASSUME NEW u \in Task, Cleanup(u) PROVE Served
  <2> DEFINE c == pending[NameOf[u]]
  <2>1. /\ chan' = DropSender(c) /\ calls' = calls /\ pc[u] = "cleanup"
        /\ outcome' = [outcome EXCEPT ![u] = "timeout"]
    BY <1>7 DEF Cleanup, Return
  <2>2. outcome'[t] \in {outcome[t], "timeout"}
    BY <1>0, <2>1 DEF TypeOK
  <2>3. chan'[t] = chan[t]
    <3>1. CASE c # None /\ ReceiverAlive(c)
      <4>1. NameOf[c.task] = NameOf[u] /\ pc[c.task] # "cleanup"
        BY <3>1, NamesOfTasks DEF SupInv, EntryOutlivesNoCall, ReceiverAlive
      <4>2. c.task # u
        BY <2>1, <4>1
      <4>3. c.task # t
        BY <4>1, <4>2 DEF Alone
      <4>4. chan' = [chan EXCEPT ![c.task] = Closed]
        BY <2>1, <3>1 DEF DropSender
      <4> QED
        BY <1>0, <4>3, <4>4 DEF TypeOK
    <3>2. CASE ~(c # None /\ ReceiverAlive(c))
      BY <2>1, <3>2 DEF DropSender
    <3> QED
      BY <3>1, <3>2
  <2> QED
    BY <1>0, <2>1, <2>2, <2>3
<1>8. ASSUME NEW r \in Resumer, SendAnswer(r) PROVE Served
  <2>1. /\ chan' = IF ReceiverAlive(held[r])
                   THEN [chan EXCEPT ![held[r].task] = about[r]]
                   ELSE chan
        /\ UNCHANGED <<outcome, calls>>
        /\ rpc[r] = "sending"
    BY <1>8 DEF SendAnswer, callers
  <2>2. CASE ReceiverAlive(held[r]) /\ held[r].task = t
    <3>1. /\ about[r] \in Call /\ about[r].n \in 1 .. calls[about[r].task]
          /\ NameOf[about[r].task] = NameOf[t]
      BY <2>1, <2>2 DEF SupInv, ResumerKnows, Sending
    <3>2. about[r].task = t
      BY <3>1 DEF Alone, Call
    <3>3. calls[t] = 1 => about[r] = [task |-> t, n |-> 1]
      BY <3>1, <3>2 DEF Call
    <3>4. chan'[t] = about[r]
      BY <1>0, <2>1, <2>2 DEF TypeOK
    <3>5. about[r] # Closed
      BY <3>1, MarksAreFresh
    <3> QED
      BY <1>0, <2>1, <3>2, <3>3, <3>4, <3>5
  <2>3. CASE ~(ReceiverAlive(held[r]) /\ held[r].task = t)
    <3>1. chan'[t] = chan[t]
      BY <1>0, <2>1, <2>3 DEF TypeOK
    <3> QED
      BY <1>1, <2>1, <3>1
  <2> QED
    BY <2>2, <2>3
<1>9. ASSUME NEW r \in Resumer, TakeTask(r) \/ Leave(r) \/ \E x \in Name : ReadInfo(r, x)
      PROVE  Served
  BY <1>0, <1>9 DEF TakeTask, Leave, ReadInfo, callers
<1>10. CASE UNCHANGED vars
  BY <1>0, <1>10 DEF vars
<1> QED
  BY <1>2, <1>3, <1>4, <1>5, <1>6, <1>7, <1>8, <1>9, <1>10 DEF Next, CallerStep, ResumerStep, NotPending

\* A task whose name nobody shares is never turned away or dropped.
THEOREM UniqueNamesAreServed == Spec => []AloneIsServed
<1>1. Init => AloneIsServed
  BY MarksAreFresh DEF Init, AloneIsServed
<1> QED
  BY <1>1, StepAlone, SupInvariant, PTL DEF Spec

----------------------------------------------------------------------------
(***************************************************************************)
(* Serving is a use of the supervisor, whose invariants it inherits, and   *)
(* what the local agent leaves to an operator is not passed.               *)
(***************************************************************************)

ServingTypes ==
  /\ autoApprove \in BOOLEAN
  /\ input \in BOOLEAN
  /\ result \in [Task -> BOOLEAN]
  /\ listed \in [Resumer -> SUBSET Name]

\* A resumer sees the tasks of its own supervisor only.
ListsOwn == \A r \in Resumer : \A x \in listed[r] : x[1] = SupervisorOf(r)

WorksOnOwn == \A r \in Resumer : rpc[r] # "idle" => NameOf[about[r].task][1] = SupervisorOf(r)

\* An answer that reaches a call was made for a task of its name.
AnswersOfName == \A t \in Task : chan[t] \in Call => NameOf[chan[t].task] = NameOf[t]

OfRun(t) == FrontEndOf[t] = "run"

\* Nothing in a run carries the flag, and where the local agent is past its test, or an
\* answer is on its way, no gate is concerned.
Unflagged == \A t \in Task : OfRun(t) => ~result[t]

SendsNoGate == \A r \in LocalAgent : Sending(r) => NameOf[about[r].task] \notin SaysGate

AnswersNoGate == \A t \in Task : OfRun(t) /\ chan[t] \in Call => NameOf[t] \notin SaysGate

PassesNoGate == \A t \in Task : OfRun(t) /\ outcome[t] = "ok" => NameOf[t] \notin SaysGate

Unapproved == Unflagged /\ SendsNoGate /\ AnswersNoGate /\ PassesNoGate

ServInv ==
  /\ SupInv
  /\ ServingTypes
  /\ ListsOwn
  /\ WorksOnOwn
  /\ AnswersOfName
  /\ ~autoApprove /\ ~input => Unapproved

----------------------------------------------------------------------------

\* Every step of Serving is a step of the supervisor, or leaves it alone.
LEMMA StepIsSupervisors == [ServingNext]_servingVars => [Next]_vars
<1> SUFFICES ASSUME [ServingNext]_servingVars PROVE [Next]_vars
  OBVIOUS
<1>1. CASE UNCHANGED servingVars
  BY <1>1 DEF servingVars
<1>2. ASSUME NEW t \in Task, Begin(t) \/ Wake(t) \/ Cancel(t)
      PROVE  Next
  BY <1>2 DEF Begin, Wake, Receive, Cancel, Next, CallerStep
<1>3. ASSUME NEW r \in Resumer, Resume(r)
      PROVE  [Next]_vars
  <2>1. CASE List(r)
    BY <2>1 DEF List
  <2>2. ASSUME NEW x \in Name, LookAt(r, x)
        PROVE  [Next]_vars
    BY <2>2 DEF LookAt, Next
  <2>3. CASE Skip(r) \/ Answer(r)
    BY <2>3 DEF Skip, Answer, Next, ResumerStep
  <2> QED
    BY <1>3, <2>1, <2>2, <2>3 DEF Resume
<1> QED
  BY <1>1, <1>2, <1>3 DEF ServingNext

\* Every behaviour of Serving is a behaviour of the supervisor.
THEOREM ServingIsSupervisor == ServingSpec => Spec
<1>1. ServingInit => Init
  BY DEF ServingInit
<1> QED
  BY <1>1, StepIsSupervisors, PTL DEF ServingSpec, Spec

----------------------------------------------------------------------------

\* The three kinds of supervisors are different ones, and only runs have the local
\* agent's.
LEMMA Supervisors ==
  ASSUME NEW t \in Task
  PROVE  /\ NameOf[t][1] = RunSupervisor <=> OfRun(t)
         /\ NameOf[t][1] # ApiSupervisor
<1>1. /\ FrontEndOf[t] \in FrontEnd /\ NameOf[t][1] = ExecutorSupervisor(t)
  BY FrontEndsOfTasks, NamesAreQualified
<1>2. /\ RunSupervisor # ManagerSupervisor /\ RunSupervisor # RequestSupervisor(t)
      /\ ApiSupervisor # ManagerSupervisor /\ ApiSupervisor # RequestSupervisor(t)
      /\ ApiSupervisor # RunSupervisor
  BY DEF RunSupervisor, ManagerSupervisor, ApiSupervisor, RequestSupervisor
<1> QED
  BY <1>1, <1>2 DEF ExecutorSupervisor, FrontEnd, OfRun

\* In a run that was not approved when it was started, no payload says it is.
LEMMA GivenIsFalse ==
  ASSUME ServInv, ~autoApprove, ~input, NEW t \in Task, OfRun(t)
  PROVE  ~Given(t)
BY LinesOfTasks, RunsHaveOneFrontEnd DEF ServInv, Unapproved, Unflagged, Given, OfRun

\* The start state satisfies ServInv.
LEMMA InitServ == ServingInit => ServInv
<1> SUFFICES ASSUME ServingInit PROVE ServInv
  OBVIOUS
<1>1. Init /\ SupInv
  BY InitSup DEF ServingInit
<1>2. ServingTypes /\ ListsOwn
  BY DEF ServingInit, ServingTypes, ListsOwn
<1>3. WorksOnOwn
  BY <1>1 DEF Init, WorksOnOwn
<1>4. \A t \in Task : chan[t] \notin Call /\ outcome[t] # "ok"
  BY <1>1, MarksAreFresh DEF Init
<1>5. Unflagged
  BY DEF ServingInit, Unflagged
<1>6. SendsNoGate
  BY <1>1, AgentsResume DEF Init, SendsNoGate, Sending
<1> QED
  BY <1>1, <1>2, <1>3, <1>4, <1>5, <1>6
  DEF ServInv, AnswersOfName, Unapproved, AnswersNoGate, PassesNoGate

\* What a task does but for receiving an answer: no resumer moves, no channel is filled.
LEMMA CallerKeeps ==
  ASSUME ServInv, SupInv', UNCHANGED <<resumers, wiring, result, listed>>,
         \A t \in Task : chan'[t] \in Call => chan'[t] = chan[t],
         \A t \in Task : outcome'[t] = "ok" => outcome[t] = "ok"
  PROVE  ServInv'
<1>1. UNCHANGED <<rpc, about, held, autoApprove, input, result, listed>>
  BY DEF resumers, wiring
<1>2. ServingTypes' /\ ListsOwn' /\ WorksOnOwn'
  BY <1>1 DEF ServInv, ServingTypes, ListsOwn, WorksOnOwn, SupervisorOf
<1>3. AnswersOfName'
  BY DEF ServInv, AnswersOfName
<1>4. ASSUME ~autoApprove', ~input' PROVE Unapproved'
  <2>1. Unapproved
    BY <1>1, <1>4 DEF ServInv
  <2>2. Unflagged' /\ SendsNoGate'
    BY <1>1, <2>1 DEF Unapproved, Unflagged, SendsNoGate, Sending, OfRun
  <2>3. AnswersNoGate' /\ PassesNoGate'
    BY <2>1 DEF Unapproved, AnswersNoGate, PassesNoGate, OfRun
  <2> QED
    BY <2>2, <2>3 DEF Unapproved
<1> QED
  BY <1>2, <1>3, <1>4 DEF ServInv
\* Every step of a task but the receipt of an answer.
LEMMA CallerServ ==
  ASSUME ServInv, SupInv', NEW t \in Task,
         Begin(t) \/ Cancel(t) \/ (Wake(t) /\ ~Receive(t))
  PROVE  ServInv'
<1>0. TypeOK
  BY DEF ServInv, SupInv
<1>1. CASE \/ Delegate(t) \/ DelegateRejected(t) \/ ReceiveClosed(t) \/ Expire(t)
           \/ DropReceiver(t) \/ Abort(t)
  <2>1. \A u \in Task : chan'[u] \in Call => chan'[u] = chan[u]
    BY <1>0, <1>1, MarksAreFresh
    DEF TypeOK, Delegate, DelegateRejected, ReceiveClosed, Expire, DropReceiver, Abort
  <2>2. \A u \in Task : outcome'[u] = "ok" => outcome[u] = "ok"
    BY <1>0, <1>1
    DEF TypeOK, Delegate, DelegateRejected, ReceiveClosed, Expire, DropReceiver, Abort, Return
  <2>3. UNCHANGED resumers
    BY <1>1 DEF Delegate, DelegateRejected, ReceiveClosed, Expire, DropReceiver, Abort
  <2>4. UNCHANGED <<wiring, result, listed>> \/ Receive(t)
    BY DEF Begin, Cancel, Wake
  <2>5. ~ReceiveAnswer(t)
    BY <1>0, <1>1, MarksAreFresh
    DEF TypeOK, Delegate, DelegateRejected, ReceiveClosed, Expire, DropReceiver, Abort, MayCall,
        ReceiveAnswer, Return
  <2> QED
    BY <2>1, <2>2, <2>3, <2>4, <2>5, CallerKeeps DEF Receive
<1>2. CASE Cleanup(t)
  <2>1. chan' = DropSender(pending[NameOf[t]]) /\ pc[t] = "cleanup"
        /\ outcome' = [outcome EXCEPT ![t] = "timeout"] /\ UNCHANGED resumers
    BY <1>2 DEF Cleanup, Return
  <2>2. \A u \in Task : chan'[u] \in Call => chan'[u] = chan[u]
    BY <1>0, <2>1, MarksAreFresh DEF TypeOK, DropSender
  <2>3. \A u \in Task : outcome'[u] = "ok" => outcome[u] = "ok"
    BY <1>0, <2>1 DEF TypeOK
  <2>4. UNCHANGED <<wiring, result, listed>>
    BY <2>1 DEF Begin, Cancel, Wake, Receive, ReceiveAnswer
  <2> QED
    BY <2>1, <2>2, <2>3, <2>4, CallerKeeps
<1> QED
  BY <1>1, <1>2 DEF Begin, Cancel, Wake

\* A task receives an answer: it is for a task of its name, which is no gate.
LEMMA ReceiveServ ==
  ASSUME ServInv, SupInv', NEW t \in Task, Receive(t)
  PROVE  ServInv'
<1>0. TypeOK /\ ServingTypes
  BY DEF ServInv, SupInv
<1>1. /\ chan[t] \in Call /\ outcome' = [outcome EXCEPT ![t] = "ok"]
      /\ UNCHANGED <<chan, rpc, about, held, autoApprove, input, listed>>
  BY <1>0 DEF Receive, ReceiveAnswer, Return, TypeOK, resumers, wiring
<1>2. PICK flag \in IF FrontEndOf[t] = "run" THEN {Answered(chan[t].task)} ELSE BOOLEAN :
        result' = [result EXCEPT ![t] = flag]
  BY DEF Receive
<1>3. flag \in BOOLEAN
  <2>1. Answered(chan[t].task) \in BOOLEAN
    BY DEF Answered
  <2> QED
    BY <2>1
<1>4. ServingTypes' /\ ListsOwn' /\ WorksOnOwn' /\ AnswersOfName'
  <2>1. ServingTypes'
    BY <1>0, <1>1, <1>2, <1>3 DEF ServingTypes
  <2>2. ListsOwn' /\ WorksOnOwn' /\ AnswersOfName'
    BY <1>1 DEF ServInv, ListsOwn, WorksOnOwn, AnswersOfName, SupervisorOf
  <2> QED
    BY <2>1, <2>2
<1>5. ASSUME ~autoApprove', ~input' PROVE Unapproved'
  <2>1. Unapproved /\ ~autoApprove /\ ~input
    BY <1>1, <1>5 DEF ServInv
  <2>2. OfRun(t) => NameOf[t] \notin SaysGate
    BY <1>1, <2>1 DEF Unapproved, AnswersNoGate
  <2>3. OfRun(t) => ~flag
    <3> SUFFICES ASSUME OfRun(t) PROVE ~flag
      OBVIOUS
    <3> DEFINE u == chan[t].task
    <3>1. u \in Task /\ NameOf[u] = NameOf[t]
      BY <1>1 DEF ServInv, AnswersOfName, Call
    <3> HIDE DEF u
    <3>2. OfRun(u)
      BY <3>1, Supervisors
    <3>3. ~Given(u)
      BY <2>1, <3>1, <3>2, GivenIsFalse
    <3>4. ~Answered(u)
      BY <2>2, <3>1, <3>3 DEF Answered
    <3> QED
      BY <1>2, <3>4 DEF OfRun, u
  <2>4. Unflagged'
    BY <1>0, <1>2, <2>1, <2>3 DEF Unapproved, Unflagged, ServingTypes, OfRun
  <2>5. PassesNoGate'
    BY <1>0, <1>1, <2>1, <2>2 DEF Unapproved, PassesNoGate, TypeOK, OfRun
  <2>6. SendsNoGate' /\ AnswersNoGate'
    BY <1>1, <2>1 DEF Unapproved, SendsNoGate, AnswersNoGate, Sending, OfRun
  <2> QED
    BY <2>4, <2>5, <2>6 DEF Unapproved
<1> QED
  BY <1>4, <1>5 DEF ServInv
\* A resumer lists what its own supervisor holds.
LEMMA ListServ ==
  ASSUME ServInv, SupInv', NEW r \in Resumer, List(r)
  PROVE  ServInv'
<1> DEFINE own == {x \in Name : x[1] = SupervisorOf(r) /\ pending[x] # None}
<1>1. /\ listed' = [listed EXCEPT ![r] = own]
      /\ UNCHANGED <<chan, outcome, rpc, about, held, autoApprove, input, result>>
  BY DEF List, vars, wiring
<1>2. own \in SUBSET Name /\ \A x \in own : x[1] = SupervisorOf(r)
  OBVIOUS
<1> HIDE DEF own
<1>3. ServingTypes' /\ ListsOwn'
  BY <1>1, <1>2 DEF ServInv, ServingTypes, ListsOwn, SupervisorOf
<1>4. WorksOnOwn' /\ AnswersOfName' /\ (Unapproved => Unapproved')
  BY <1>1 DEF ServInv, WorksOnOwn, AnswersOfName, SupervisorOf, Unapproved, Unflagged, SendsNoGate,
              AnswersNoGate, PassesNoGate, Sending, OfRun
<1> QED
  BY <1>1, <1>3, <1>4 DEF ServInv

\* What a resumer does to the state that ServInv is about, when it neither lists nor sends:
\* what it works on afterwards is of its own supervisor, and if it holds a sender then, the
\* local agent has not left the task.
LEMMA ResumerKeeps ==
  ASSUME ServInv, SupInv', NEW r \in Resumer,
         UNCHANGED <<chan, outcome, wiring, result>>,
         listed' \in [Resumer -> SUBSET Name],
         \A s \in Resumer : listed'[s] \subseteq listed[s],
         \A s \in Resumer \ {r} : rpc'[s] = rpc[s] /\ about'[s] = about[s],
         rpc'[r] # "idle" => NameOf[about'[r].task][1] = SupervisorOf(r),
         rpc'[r] = "sending" /\ ~autoApprove /\ ~input /\ r \in LocalAgent =>
           NameOf[about'[r].task] \notin SaysGate
  PROVE  ServInv'
<1>1. UNCHANGED <<autoApprove, input>>
  BY DEF wiring
<1>2. ServingTypes' /\ ListsOwn'
  BY <1>1 DEF ServInv, ServingTypes, ListsOwn, SupervisorOf
<1>3. WorksOnOwn' /\ AnswersOfName'
  BY DEF ServInv, WorksOnOwn, AnswersOfName, SupervisorOf
<1>4. ASSUME ~autoApprove', ~input' PROVE Unapproved'
  <2>1. Unapproved /\ ~autoApprove /\ ~input
    BY <1>1, <1>4 DEF ServInv
  <2>2. SendsNoGate'
    BY <2>1, AgentsResume DEF Unapproved, SendsNoGate, Sending
  <2>3. Unflagged' /\ AnswersNoGate' /\ PassesNoGate'
    BY <2>1 DEF Unapproved, Unflagged, AnswersNoGate, PassesNoGate, OfRun
  <2> QED
    BY <2>2, <2>3 DEF Unapproved
<1> QED
  BY <1>2, <1>3, <1>4 DEF ServInv

\* A resumer reads about a task, which is of its own supervisor.
LEMMA LookServ ==
  ASSUME ServInv, SupInv', NEW r \in Resumer, NEW x \in Name, LookAt(r, x)
  PROVE  ServInv'
<1>0. TypeOK /\ ServingTypes
  BY DEF ServInv, SupInv
<1>1. x \in listed[r] /\ listed' = [listed EXCEPT ![r] = @ \ {x}] /\ UNCHANGED <<wiring, result>>
  BY DEF LookAt
<1>2. /\ listed' \in [Resumer -> SUBSET Name]
      /\ \A s \in Resumer : listed'[s] \subseteq listed[s]
  BY <1>0, <1>1 DEF ServingTypes
<1>3. CASE ReadInfo(r, x)
  <2>1. /\ pending[x] # None /\ UNCHANGED <<chan, outcome>>
        /\ rpc' = [rpc EXCEPT ![r] = "working"] /\ about' = [about EXCEPT ![r] = pending[x]]
    BY <1>3 DEF ReadInfo, callers
  <2>2. NameOf[pending[x].task] = x /\ x[1] = SupervisorOf(r)
    BY <1>1, <2>1 DEF ServInv, SupInv, EntryOutlivesNoCall, ListsOwn
  <2>3. /\ rpc'[r] = "working" /\ about'[r] = pending[x]
        /\ \A s \in Resumer \ {r} : rpc'[s] = rpc[s] /\ about'[s] = about[s]
    BY <1>0, <2>1 DEF TypeOK
  <2> QED
    BY <1>1, <1>2, <2>1, <2>2, <2>3, ResumerKeeps
<1>4. CASE rpc[r] = "idle" /\ UNCHANGED vars
  <2>1. UNCHANGED <<chan, outcome, rpc, about>>
    BY <1>4 DEF vars
  <2> QED
    BY <1>1, <1>2, <1>4, <2>1, ResumerKeeps
<1> QED
  BY <1>3, <1>4 DEF LookAt

\* A resumer leaves a task, or finds it gone, or takes it, past the local agent's test.
LEMMA DecideServ ==
  ASSUME ServInv, SupInv', NEW r \in Resumer,
         Skip(r) \/ (Answer(r) /\ ~SendAnswer(r))
  PROVE  ServInv'
<1>0. TypeOK /\ ServingTypes
  BY DEF ServInv, SupInv
<1>1. /\ rpc[r] = "working" /\ UNCHANGED <<wiring, result, listed>>
      /\ Leave(r) \/ (TakeTask(r) /\ ~Leaves(r, about[r].task))
  BY DEF Skip, Answer, NotPending
<1>2. /\ listed' \in [Resumer -> SUBSET Name]
      /\ \A s \in Resumer : listed'[s] \subseteq listed[s]
  BY <1>0, <1>1 DEF ServingTypes
<1>3. CASE Leave(r)
  <2>1. /\ rpc' = [rpc EXCEPT ![r] = "idle"] /\ about' = [about EXCEPT ![r] = None]
        /\ UNCHANGED <<chan, outcome>>
    BY <1>3 DEF Leave, callers
  <2>2. /\ rpc'[r] = "idle"
        /\ \A s \in Resumer \ {r} : rpc'[s] = rpc[s] /\ about'[s] = about[s]
    BY <1>0, <2>1 DEF TypeOK
  <2> QED
    BY <1>1, <1>2, <2>1, <2>2, ResumerKeeps
<1>4. CASE TakeTask(r) /\ ~Leaves(r, about[r].task)
  <2> DEFINE u == about[r].task
  <2>1. /\ rpc' = [rpc EXCEPT ![r] = "sending"] /\ UNCHANGED <<about, chan, outcome>>
    BY <1>4 DEF TakeTask, callers
  <2>2. /\ rpc'[r] = "sending"
        /\ \A s \in Resumer \ {r} : rpc'[s] = rpc[s] /\ about'[s] = about[s]
    BY <1>0, <2>1 DEF TypeOK
  <2>3. u \in Task /\ NameOf[u][1] = SupervisorOf(r)
    BY <1>1 DEF ServInv, SupInv, ResumerKnows, WorksOnOwn, Call
  <2>4. ASSUME ~autoApprove, ~input, r \in LocalAgent
        PROVE  NameOf[u] \notin SaysGate
    <3> HIDE DEF u
    <3>1. OfRun(u)
      BY <2>3, <2>4, Supervisors DEF SupervisorOf, AgentSupervisor
    <3>2. ~Given(u)
      BY <2>3, <2>4, <3>1, GivenIsFalse
    <3> QED
      BY <1>4, <2>4, <3>2 DEF Leaves, u
  <2> QED
    BY <1>1, <1>2, <2>1, <2>2, <2>3, <2>4, ResumerKeeps
<1> QED
  BY <1>1, <1>3, <1>4

\* An answer is sent: into a channel of its name, and a run's is the local agent's own.
LEMMA SendServ ==
  ASSUME ServInv, SupInv', NEW r \in Resumer, SendAnswer(r), UNCHANGED <<wiring, result, listed>>
  PROVE  ServInv'
<1>0. TypeOK
  BY DEF ServInv, SupInv
<1> DEFINE t == held[r].task
           a == about[r]
<1>1. /\ rpc' = [rpc EXCEPT ![r] = "idle"] /\ about' = [about EXCEPT ![r] = None]
      /\ chan' = [chan EXCEPT ![t] = a] \/ chan' = chan
      /\ UNCHANGED <<outcome, autoApprove, input, result, listed>>
  BY DEF SendAnswer, callers, wiring
<1>2. /\ t \in Task /\ a \in Call /\ a.task \in Task /\ NameOf[t] = NameOf[a.task]
      /\ Sending(r)
  BY DEF SendAnswer, ServInv, SupInv, ResumerKnows, Sending, Call
<1>3. NameOf[t][1] = SupervisorOf(r)
  BY <1>2 DEF ServInv, WorksOnOwn, Sending
<1> HIDE DEF t, a
<1>4. \A u \in Task : chan'[u] = chan[u] \/ (u = t /\ chan'[u] = a)
  BY <1>0, <1>1 DEF TypeOK
<1>5. /\ rpc'[r] = "idle"
      /\ \A s \in Resumer \ {r} : rpc'[s] = rpc[s] /\ about'[s] = about[s]
  BY <1>0, <1>1 DEF TypeOK
<1>6. ServingTypes' /\ ListsOwn' /\ WorksOnOwn'
  BY <1>1, <1>5 DEF ServInv, ServingTypes, ListsOwn, WorksOnOwn, SupervisorOf
<1>7. AnswersOfName'
  BY <1>2, <1>4 DEF ServInv, AnswersOfName
<1>8. ASSUME ~autoApprove', ~input' PROVE Unapproved'
  <2>1. Unapproved
    BY <1>1, <1>8 DEF ServInv
  <2>2. r \in LocalAgent /\ NameOf[t] \notin SaysGate
    <3>1. r \in LocalAgent
      BY <1>2, <1>3, Supervisors DEF SupervisorOf
    <3>2. NameOf[about[r].task] \notin SaysGate
      BY <1>2, <2>1, <3>1 DEF Unapproved, SendsNoGate
    <3> QED
      BY <1>2, <3>1, <3>2 DEF a
  <2>3. AnswersNoGate'
    BY <1>4, <2>1, <2>2 DEF Unapproved, AnswersNoGate, OfRun
  <2>4. SendsNoGate'
    BY <1>5, <2>1, AgentsResume DEF Unapproved, SendsNoGate, Sending
  <2>5. Unflagged' /\ PassesNoGate'
    BY <1>1, <2>1 DEF Unapproved, Unflagged, PassesNoGate, OfRun
  <2> QED
    BY <2>3, <2>4, <2>5 DEF Unapproved
<1> QED
  BY <1>6, <1>7, <1>8 DEF ServInv

----------------------------------------------------------------------------

\* Every step preserves ServInv.
LEMMA StepServ == ServInv /\ [ServingNext]_servingVars => ServInv'
<1> SUFFICES ASSUME ServInv, [ServingNext]_servingVars PROVE ServInv'
  OBVIOUS
<1>1. SupInv'
  BY StepSup, StepIsSupervisors DEF ServInv
<1>2. ASSUME NEW t \in Task, Begin(t) \/ Wake(t) \/ Cancel(t)
      PROVE  ServInv'
  BY <1>1, <1>2, CallerServ, ReceiveServ
<1>3. ASSUME NEW r \in Resumer, Resume(r)
      PROVE  ServInv'
  <2>1. CASE List(r)
    BY <1>1, <2>1, ListServ
  <2>2. ASSUME NEW x \in Name, LookAt(r, x)
        PROVE  ServInv'
    BY <1>1, <2>2, LookServ
  <2>3. CASE Skip(r) \/ Answer(r)
    <3>1. CASE Answer(r) /\ SendAnswer(r)
      <4>1. UNCHANGED <<wiring, result, listed>>
        BY <3>1 DEF Answer
      <4> QED
        BY <1>1, <3>1, <4>1, SendServ
    <3>2. CASE Skip(r) \/ (Answer(r) /\ ~SendAnswer(r))
      BY <1>1, <3>2, DecideServ
    <3> QED
      BY <2>3, <3>1, <3>2
  <2> QED
    BY <1>3, <2>1, <2>2, <2>3 DEF Resume
<1>4. CASE UNCHANGED servingVars
  BY <1>1, <1>4
  DEF servingVars, vars, wiring, ServInv, ServingTypes, ListsOwn, WorksOnOwn, AnswersOfName,
      Unapproved, Unflagged, SendsNoGate, AnswersNoGate, PassesNoGate, Sending, OfRun, SupervisorOf
<1> QED
  BY <1>2, <1>3, <1>4 DEF ServingNext

\* The strengthened invariant of Serving.
THEOREM ServingInvariant == ServingSpec => []ServInv
  BY InitServ, StepServ, PTL DEF ServingSpec

\* Every variable keeps its type.
THEOREM ServingTypeCorrect == ServingSpec => []ServingTypeOK
<1>1. ServInv => ServingTypeOK
  BY DEF ServInv, SupInv, ServingTypes, ServingTypeOK
<1> QED
  BY <1>1, ServingInvariant, PTL

\* Whatever runs, namesakes, clients and timeouts there are: with auto_approve off, what is
\* called a gate in a `run` that was not approved at its start is never passed.
THEOREM GatesWait == ServingSpec => []UnapprovedGateWaits
<1>1. ServInv => UnapprovedGateWaits
  BY DEF ServInv, Unapproved, PassesNoGate, OfRun, UnapprovedGateWaits, Gate
<1> QED
  BY <1>1, ServingInvariant, PTL
=============================================================================
