-------------------------- MODULE RedisQueueContract --------------------------
(***************************************************************************)
(* Proofs of what RedisQueue promises about tasks: that an accepted one is *)
(* not lost among workers that race for it, that one that is not to be     *)
(* retried is handled at most once and escapes no search, and that with    *)
(* one consumer at a time the server always has every unfinished one.      *)
(***************************************************************************)
EXTENDS RedisQueueProofs

HeldOp == {"ack", "requeue", "bury"}

------------------------------------------------------------------------------
(* What the commands do to the tasks of the queue.                         *)

(* A command opens a task only by putting it in the queue, takes an open   *)
(* one out of the queue only to move it, and what carries an open task for *)
(* a worker brings it back to the queue.                                   *)
LEMMA ExecutesKeeps ==
  ASSUME Types, Data, NEW w \in Worker, NEW m \in Wire, NEW t \in Task,
         FateAfter(m)[t] = "open"
  PROVE  /\ fate[t] = "open" \/ t \in StoreAfter(w, m)["queue"]
         /\ t \in store["queue"] =>
              \/ t \in StoreAfter(w, m)["queue"]
              \/ m.op = "move" /\ m.task = t
         /\ m.task = t /\ m.op \in HeldOp => t \in StoreAfter(w, m)["queue"]
<1>1. /\ m.op \in ChainOp \cup CallOp /\ m.place \in Place
      /\ m.op \in TaskOp => m.task \in Task /\ m.place \in PlacesFor(m.op)
      /\ store \in [Place -> SUBSET Task] /\ fate \in [Task -> Fate]
      /\ "queue" \in Place /\ "processing" \in Place
  BY DEF Wire, Command, Types, Data, Stores, Place
<1>2. \A S, f : Settled(S, f)[t] = IF t \in S /\ fate[t] = "open" THEN f ELSE fate[t]
  BY DEF Settled
<1>3. CASE m.op \in {"add", "requeue"}
  <2>1. m.place = "queue" /\ m.task \in Task
    BY <1>1, <1>3 DEF TaskOp, PlacesFor
  <2>2. StoreAfter(w, m) = [store EXCEPT !["queue"] = @ \cup {m.task}]
    BY <1>3, <2>1 DEF StoreAfter, With
  <2>3. StoreAfter(w, m)["queue"] = store["queue"] \cup {m.task}
    BY <1>1, <2>2
  <2>4. t # m.task => fate[t] = "open"
    BY <1>1, <1>3, <2>1 DEF FateAfter
  <2> QED BY <2>3, <2>4
<1>4. CASE m.op \in {"ack", "bury"}
  <2>1. m.place # "queue" /\ m.task \in Task
    BY <1>1, <1>4 DEF TaskOp, PlacesFor
  <2>2. StoreAfter(w, m)["queue"] = store["queue"]
    BY <1>1, <1>4, <2>1 DEF StoreAfter, With, Without
  <2>3. m.task # t /\ fate[t] = "open"
    BY <1>2, <1>4 DEF FateAfter
  <2> QED BY <2>2, <2>3
<1>5. CASE m.op = "move"
  <2>1. StoreAfter(w, m) = [store EXCEPT !["queue"] = @ \ {m.task},
                                         !["processing"] = @ \cup {m.task}]
    BY <1>5 DEF StoreAfter
  <2>2. StoreAfter(w, m)["queue"] = store["queue"] \ {m.task}
    BY <1>1, <2>1
  <2>3. fate[t] = "open"
    BY <1>5 DEF FateAfter
  <2> QED BY <1>5, <2>2, <2>3 DEF HeldOp
<1>6. CASE m.op = "clean"
  <2>1. m.place = "processing"
    BY <1>1, <1>6 DEF TaskOp, PlacesFor
  <2>2. StoreAfter(w, m)["queue"] = store["queue"]
    BY <1>1, <1>6, <2>1 DEF StoreAfter, Without
  <2>3. fate[t] = "open"
    BY <1>6 DEF FateAfter
  <2> QED BY <1>6, <2>2, <2>3 DEF HeldOp
<1>7. CASE m.op = "take"
  <2>1. StoreAfter(w, m) = [store EXCEPT ![m.place] = @ \ {m.task}]
    BY <1>7 DEF StoreAfter, Without
  <2>2. m.task # t /\ fate[t] = "open"
    BY <1>2, <1>7 DEF FateAfter
  <2>3. t \in store["queue"] => t \in StoreAfter(w, m)["queue"]
    BY <1>1, <2>1, <2>2
  <2> QED BY <2>2, <2>3
<1>8. CASE m.op = "wipe"
  <2>1. StoreAfter(w, m) = [store EXCEPT ![m.place] = {}]
    BY <1>8 DEF StoreAfter
  <2>2. t \notin store[m.place] /\ fate[t] = "open"
    BY <1>2, <1>8 DEF FateAfter
  <2>3. t \in store["queue"] => t \in StoreAfter(w, m)["queue"]
    BY <1>1, <2>1, <2>2
  <2> QED BY <1>8, <2>2, <2>3 DEF HeldOp
<1>9. CASE m.op = "restore"
  <2>1. StoreAfter(w, m) = [store EXCEPT !["queue"] = @ \cup snapshot[w],
                                         !["processing"] = {}]
    BY <1>9 DEF StoreAfter
  <2>2. StoreAfter(w, m)["queue"] = store["queue"] \cup snapshot[w]
    BY <1>1, <2>1
  <2>3. fate[t] = "open"
    BY <1>9 DEF FateAfter
  <2> QED BY <1>9, <2>2, <2>3 DEF HeldOp
<1>10. CASE m.op \in {"poll", "find", "count", "list"}
  <2>1. StoreAfter(w, m) = store /\ fate[t] = "open"
    BY <1>10 DEF StoreAfter, FateAfter
  <2> QED BY <1>10, <2>1 DEF HeldOp
<1> QED BY <1>1, <1>3, <1>4, <1>5, <1>6, <1>7, <1>8, <1>9, <1>10
        DEF ChainOp, CallOp, SearchOp

------------------------------------------------------------------------------
(* What is on a connection.                                                *)

(* What is sent on a connection joins what is there.                       *)
LEMMA SendRange ==
  ASSUME Wires, NEW w \in Worker, NEW cmds \in Seq(Wire), Send(w, cmds)
  PROVE  /\ Range(wire'[w]) = Range(wire[w]) \cup Range(cmds)
         /\ \A v \in Worker \ {w} : wire'[v] = wire[v]
<1>1. wire[w] \in Seq(Wire) /\ wire'[w] = wire[w] \o cmds
  BY DEF Wires, Send
<1>2. \A v \in Worker \ {w} : wire'[v] = wire[v]
  BY DEF Wires, Send
<1> QED BY <1>1, <1>2, RangeConcatenation

(* The command answered leaves, and what is sent on the reply joins.       *)
LEMMA AnswerRange ==
  ASSUME Wires, NEW w \in Worker, wire[w] # <<>>, NEW cmds \in Seq(Wire),
         wire' = [wire EXCEPT ![w] = Tail(@) \o cmds]
  PROVE  /\ Head(wire[w]) \in Wire
         /\ Range(wire[w]) = {Head(wire[w])} \cup Range(Tail(wire[w]))
         /\ Range(wire'[w]) = Range(Tail(wire[w])) \cup Range(cmds)
         /\ \A v \in Worker \ {w} : wire'[v] = wire[v]
<1> DEFINE s == wire[w]
           h == <<Head(s)>>
           r == Tail(s)
<1>1. s \in Seq(Wire) /\ wire'[w] = r \o cmds
  BY DEF Wires
<1>2. Head(s) \in Wire /\ r \in Seq(Wire) /\ s = h \o r
  BY <1>1, HeadFirst
<1>3. h \in Seq(Wire) /\ Range(h) = {Head(s)}
  BY <1>2 DEF Range
<1>4. \A v \in Worker \ {w} : wire'[v] = wire[v]
  BY DEF Wires
<1> HIDE DEF s, h, r
<1>5. Range(h \o r) = Range(h) \cup Range(r)
  BY <1>2, <1>3, RangeConcatenation, ZenonT(60)
<1>6. Range(r \o cmds) = Range(r) \cup Range(cmds)
  BY <1>2, RangeConcatenation
<1>7. /\ Range(s) = {Head(s)} \cup Range(r)
      /\ Range(wire'[w]) = Range(r) \cup Range(cmds)
  BY <1>1, <1>2, <1>3, <1>5, <1>6
<1> QED BY <1>2, <1>4, <1>7 DEF s, r

(* A worker carries what is on its connection.                             *)
LEMMA CarriedIs ==
  ASSUME NEW w, NEW t, NEW ops
  PROVE  /\ Carried(w, t, ops) <=>
              \E m \in Range(wire[w]) : m.task = t /\ m.op \in ops
         /\ Carried(w, t, ops)' <=>
              \E m \in Range(wire'[w]) : m.task = t /\ m.op \in ops
BY DEF Carried, Range

------------------------------------------------------------------------------
(* What the steps send.                                                    *)

(* A call of processNext sends nothing but a poll before it waits.         *)
LEMMA PollSends ==
  ASSUME NEW w \in Worker, NEW c \in Range(Poll(w))
  PROVE  c.op = "poll"
<1>1. Range(<<>>) = {}
  BY DEF Range
<1>2. Poll(w) = <<Cmd("poll", None, "queue")>>
  BY <1>1 DEF Poll
<1>3. c = Cmd("poll", None, "queue")
  BY <1>2 DEF Range
<1> QED BY <1>3 DEF Cmd

(* A command of w and the one that is sent on its reply.                   *)
Follows(w, m, c) ==
  \/ m.op = "add" /\ c.op = "poll"
  \/ m.op = "find" /\ c.op \in {"find", "take"} /\ c.task = m.task
  \/ m.op = "list" /\ c.op = "restore"
  \/ m.op = "poll" /\ c.op = "move" /\ c.task \in store["queue"]
  \/ m.op = "move" /\ c = FailureCommand(m.task)
  \/ m.op \in {"requeue", "bury"} /\ c.op = "clean" /\ c.task = m.task

(* What the replies send.                                                  *)
LEMMA ServeSends ==
  ASSUME Types, NEW w \in Worker, Serve(w)
  PROVE  /\ wire[w] # <<>> /\ alive[w] /\ Head(wire[w]) \in Wire
         /\ \E cmds \in Seq(Wire) :
              /\ Answer(w, cmds)
              /\ \A c \in Range(cmds) : Follows(w, Head(wire[w]), c)
              /\ MoveReplyLost(w) =>
                   FailureCommand(Head(wire[w]).task) \in Range(cmds)
<1> DEFINE m == Head(wire[w])
           Sends(cmds) == /\ Answer(w, cmds)
                          /\ \A c \in Range(cmds) : Follows(w, m, c)
                          /\ MoveReplyLost(w) => FailureCommand(m.task) \in Range(cmds)
<1>0. Wires /\ Stores
  BY DEF Types
<1>1. alive[w] /\ wire[w] # <<>> /\ m \in Wire
  <2>1. alive[w] /\ wire[w] # <<>>
    BY DEF Serve, AddReply, FindReply, LastReply, ListReply, RestoreReply,
           PollFinds, PollFindsNothing, MoveReply, MoveReplyLost,
           RequeueOrBuryReply, AckOrCleanReply, Served
  <2> QED BY <1>0, <2>1, HeadTailProperties DEF Wires
<1>2. m.op \in TaskOp => m.task \in Task
  BY <1>1 DEF Wire, Command
<1>3. Range(<<>>) = {} /\ <<>> \in Seq(Wire)
  BY DEF Range
<1>4. ASSUME NEW c PROVE Range(<<c>>) = {c}
  BY DEF Range
<1>5. ASSUME AddReply(w) PROVE \E cmds \in Seq(Wire) : Sends(cmds)
  <2>1. m.op = "add" /\ ~MoveReplyLost(w) /\ Answer(w, Poll(w))
    BY <1>5 DEF AddReply, MoveReplyLost, Served
  <2>2. Poll(w) \in Seq(Wire)
    BY PollCounts
  <2>3. \A c \in Range(Poll(w)) : c.op = "poll"
    BY PollSends
  <2> QED BY <2>1, <2>2, <2>3 DEF Follows
<1>6. ASSUME FindReply(w) PROVE \E cmds \in Seq(Wire) : Sends(cmds)
  <2>1. m.op = "find" /\ ~MoveReplyLost(w)
    BY <1>6 DEF FindReply, MoveReplyLost, Served
  <2>2. CASE m.task \in store[m.place]
    <3> DEFINE c == Cmd("take", m.task, m.place)
               s == <<c>>
    <3>1. c \in Wire /\ c.op = "take" /\ c.task = m.task
      BY <1>0, <1>1, <2>2, SearchCommands DEF Cmd
    <3>2. s \in Seq(Wire) /\ Range(s) = {c}
      BY <1>4, <3>1
    <3>3. Answer(w, s)
      BY <1>6, <2>2 DEF FindReply
    <3> HIDE DEF s, c
    <3> QED BY <2>1, <3>1, <3>2, <3>3 DEF Follows
  <2>3. CASE m.task \notin store[m.place]
    <3> DEFINE s == FindNext(m)
    <3>1. Answer(w, s)
      BY <1>6, <2>3 DEF FindReply
    <3>2. /\ s \in Seq(Wire)
          /\ \A i \in DOMAIN s : s[i].op = "find" /\ s[i].task = m.task
      BY <1>0, <1>1, SearchCommands
    <3> HIDE DEF s
    <3>3. \A c \in Range(s) : c.op = "find" /\ c.task = m.task
      BY <3>2 DEF Range
    <3> QED BY <2>1, <3>1, <3>2, <3>3 DEF Follows
  <2> QED BY <2>2, <2>3
<1>7. ASSUME Answer(w, <<>>), ~MoveReplyLost(w)
      PROVE  \E cmds \in Seq(Wire) : Sends(cmds)
  BY <1>3, <1>7
<1>8. ASSUME LastReply(w) \/ RestoreReply(w) \/ PollFindsNothing(w)
             \/ MoveReply(w) \/ AckOrCleanReply(w)
      PROVE  \E cmds \in Seq(Wire) : Sends(cmds)
  <2>1. Answer(w, <<>>)
    BY <1>8 DEF LastReply, RestoreReply, PollFindsNothing, MoveReply, AckOrCleanReply
  <2>2. ~MoveReplyLost(w)
    BY <1>8 DEF LastReply, RestoreReply, PollFindsNothing, MoveReply,
                AckOrCleanReply, MoveReplyLost, Served
  <2> QED BY <1>7, <2>1, <2>2
<1>9. ASSUME ListReply(w) PROVE \E cmds \in Seq(Wire) : Sends(cmds)
  <2>1. m.op = "list" /\ ~MoveReplyLost(w)
    BY <1>9 DEF ListReply, MoveReplyLost, Served
  <2>2. CASE store["processing"] = {}
    BY <1>7, <1>9, <2>1, <2>2 DEF ListReply
  <2>3. CASE store["processing"] # {}
    <3> DEFINE c == Cmd("restore", None, "queue")
               s == <<c>>
    <3>1. /\ "restore" \in ChainOp \cup CallOp /\ "restore" \notin TaskOp
          /\ "queue" \in Place
      BY DEF CallOp, TaskOp, Place
    <3>2. c \in Wire /\ c.op = "restore"
      BY <3>1, OneCommand DEF Cmd
    <3>3. s \in Seq(Wire) /\ Range(s) = {c} /\ Answer(w, s)
      BY <1>4, <1>9, <2>3, <3>2 DEF ListReply
    <3> HIDE DEF s, c
    <3> QED BY <2>1, <3>2, <3>3 DEF Follows
  <2> QED BY <2>2, <2>3
<1>10. ASSUME NEW t \in Task, PollFinds(w, t)
       PROVE  \E cmds \in Seq(Wire) : Sends(cmds)
  <2> DEFINE c == Cmd("move", t, "processing")
             s == <<c>>
  <2>1. m.op = "poll" /\ ~MoveReplyLost(w) /\ Answer(w, s) /\ t \in store["queue"]
    BY <1>10 DEF PollFinds, MoveReplyLost, Served
  <2>2. c \in Wire /\ c.op = "move" /\ c.task = t
    BY DEF Cmd, Wire, Command, ChainOp, Place, PlacesFor
  <2>3. s \in Seq(Wire) /\ Range(s) = {c}
    BY <1>4, <2>2
  <2> HIDE DEF s, c
  <2> QED BY <2>1, <2>2, <2>3 DEF Follows
<1>11. ASSUME MoveReplyLost(w) PROVE \E cmds \in Seq(Wire) : Sends(cmds)
  <2> DEFINE c == FailureCommand(m.task)
             s == <<c>>
  <2>1. m.op = "move" /\ Answer(w, s)
    BY <1>11 DEF MoveReplyLost, Served
  <2>2. c \in Wire
    BY <1>2, <2>1, FailureIs DEF TaskOp
  <2>3. s \in Seq(Wire) /\ Range(s) = {c}
    BY <1>4, <2>2
  <2> HIDE DEF s
  <2> QED BY <2>1, <2>3 DEF Follows
<1>12. ASSUME RequeueOrBuryReply(w) PROVE \E cmds \in Seq(Wire) : Sends(cmds)
  <2> DEFINE c == Cmd("clean", m.task, "processing")
             s == <<c>>
  <2>1. m.op \in {"requeue", "bury"} /\ ~MoveReplyLost(w) /\ Answer(w, s)
    BY <1>12 DEF RequeueOrBuryReply, MoveReplyLost, Served
  <2>2. m.task \in Task
    BY <1>2, <2>1 DEF TaskOp
  <2>3. c \in Wire /\ c.op = "clean" /\ c.task = m.task
    BY <2>2 DEF Cmd, Wire, Command, ChainOp, Place, PlacesFor
  <2>4. s \in Seq(Wire) /\ Range(s) = {c}
    BY <1>4, <2>3
  <2> HIDE DEF s, c
  <2> QED BY <2>1, <2>3, <2>4 DEF Follows
<1>13. \E cmds \in Seq(Wire) : Sends(cmds)
  BY <1>5, <1>6, <1>8, <1>9, <1>10, <1>11, <1>12 DEF Serve
<1> QED BY <1>1, <1>13

(* A failed task is put back only if it is to be retried.                  *)
LEMMA PutsBack ==
  ASSUME NEW t \in Task, FailureCommand(t).op = "requeue"
  PROVE  t \notin Unretried
<1>1. MaxRetries[t] \in Nat
  BY RedisAssumption
<1>2. 1 < MaxRetries[t]
  BY DEF FailureCommand, Cmd
<1> QED BY <1>1, <1>2 DEF Unretried

(* The client calls that ask the server for something else, and what.      *)
Asks(w, op, t) ==
  \/ op = "find" /\ t \in Task /\ RemoveTask(w, t)
  \/ op = "find" /\ t = None /\ GetTasks(w)
  \/ op = "count" /\ t = None /\ GetStatus(w)
  \/ op = "wipe" /\ t = None /\ Clear(w)
  \/ op = "list" /\ t = None /\ Shutdown(w)

(* What a client's call, a callback and a handler that settles send.       *)
LEMMA CallSends ==
  ASSUME Types, NEW w \in Worker
  PROVE  /\ \A t \in Task : Add(w, t) =>
              \E c \in Wire : /\ c.op = "add" /\ c.task = t
                              /\ <<c>> \in Seq(Wire) /\ Range(<<c>>) = {c}
                              /\ Send(w, <<c>>)
         /\ Process(w) \/ Resume(w) \/ RunImmediate(w) =>
              \E cmds \in Seq(Wire) :
                /\ Send(w, cmds)
                /\ \A c \in Range(cmds) : c.op = "poll"
         /\ \A op, t : Asks(w, op, t) =>
              \E cmds \in Seq(Wire) :
                /\ Send(w, cmds)
                /\ \A c \in Range(cmds) : c.op = op /\ c.task = t
         /\ \A t \in Task : HandlerSettles(w, t) =>
              \E c \in Wire : /\ c.op \in HeldOp /\ c.task = t
                              /\ c.op = "requeue" => t \notin Unretried
                              /\ <<c>> \in Seq(Wire) /\ Range(<<c>>) = {c}
                              /\ Send(w, <<c>>)
<1>1. ASSUME NEW c \in Wire PROVE <<c>> \in Seq(Wire) /\ Range(<<c>>) = {c}
  BY DEF Range
<1>2. ASSUME NEW t \in Task, Add(w, t)
      PROVE  \E c \in Wire : /\ c.op = "add" /\ c.task = t
                             /\ <<c>> \in Seq(Wire) /\ Range(<<c>>) = {c}
                             /\ Send(w, <<c>>)
  <2> DEFINE c == Cmd("add", t, "queue")
  <2>1. c \in Wire /\ c.op = "add" /\ c.task = t
    BY DEF Cmd, Wire, Command, CallOp, Place, PlacesFor
  <2>2. Send(w, <<c>>)
    BY <1>2 DEF Add
  <2> HIDE DEF c
  <2> QED BY <1>1, <2>1, <2>2
<1>3. ASSUME Process(w) \/ Resume(w) \/ RunImmediate(w)
      PROVE  \E cmds \in Seq(Wire) :
               /\ Send(w, cmds)
               /\ \A c \in Range(cmds) : c.op = "poll"
  <2>1. Send(w, Poll(w)) /\ Poll(w) \in Seq(Wire)
    BY <1>3, PollCounts DEF Process, Resume, RunImmediate
  <2>2. \A c \in Range(Poll(w)) : c.op = "poll"
    BY PollSends
  <2> QED BY <2>1, <2>2
<1> DEFINE one(op, t, p) == <<Cmd(op, t, p)>>
           all(op) == <<Cmd(op, None, "queue"), Cmd(op, None, "processing"),
                        Cmd(op, None, "dead")>>
<1>4. ASSUME NEW op \in {"find", "list"}, NEW t \in Task \cup {None},
             NEW p \in Place
      PROVE  /\ one(op, t, p) \in Seq(Wire)
             /\ \A c \in Range(one(op, t, p)) : c.op = op /\ c.task = t
  <2>1. /\ Cmd(op, t, p) \in Wire
        /\ Cmd(op, t, p).op = op /\ Cmd(op, t, p).task = t
    BY DEF Cmd, Wire, Command, CallOp, SearchOp, TaskOp
  <2> QED BY <1>1, <2>1
<1>5. ASSUME NEW op \in {"count", "wipe"}
      PROVE  /\ all(op) \in Seq(Wire)
             /\ \A c \in Range(all(op)) : c.op = op /\ c.task = None
  <2>1. /\ Cmd(op, None, "queue") \in Wire /\ Cmd(op, None, "dead") \in Wire
        /\ Cmd(op, None, "processing") \in Wire
    BY DEF Cmd, Wire, Command, CallOp, SearchOp, TaskOp, Place
  <2>2. all(op) \in Seq(Wire)
    BY <2>1
  <2>3. \A i \in DOMAIN all(op) : all(op)[i].op = op /\ all(op)[i].task = None
    BY DEF Cmd
  <2> QED BY <2>2, <2>3 DEF Range
<1>6. ASSUME NEW op, NEW t, Asks(w, op, t)
      PROVE  \E cmds \in Seq(Wire) :
               /\ Send(w, cmds)
               /\ \A c \in Range(cmds) : c.op = op /\ c.task = t
  <2>1. \/ /\ op \in {"find", "list"} /\ t \in Task \cup {None}
           /\ \E p \in Place : Send(w, one(op, t, p))
        \/ op \in {"count", "wipe"} /\ t = None /\ Send(w, all(op))
    <3>1. [i \in 1 .. 3 |-> Cmd("count", None, SearchOrder[i])] = all("count")
      BY DEF SearchOrder
    <3>2. CASE op \in {"find", "list"}
      BY <1>6, <3>2 DEF Asks, RemoveTask, GetTasks, Looks, Shutdown, Place
    <3>3. CASE op = "count"
      BY <1>6, <3>1, <3>3 DEF Asks, GetStatus, Looks
    <3>4. CASE op = "wipe"
      BY <1>6, <3>4 DEF Asks, Clear
    <3> QED BY <1>6, <3>2, <3>3, <3>4 DEF Asks
  <2> HIDE DEF one, all
  <2>2. CASE op \in {"find", "list"}
    <3>1. PICK p \in Place : Send(w, one(op, t, p)) /\ t \in Task \cup {None}
      BY <2>1, <2>2
    <3>2. /\ one(op, t, p) \in Seq(Wire)
          /\ \A c \in Range(one(op, t, p)) : c.op = op /\ c.task = t
      BY <1>4, <2>2, <3>1
    <3> QED BY <3>1, <3>2
  <2>3. CASE op \in {"count", "wipe"}
    <3>1. Send(w, all(op)) /\ t = None
      BY <2>1, <2>3
    <3>2. /\ all(op) \in Seq(Wire)
          /\ \A c \in Range(all(op)) : c.op = op /\ c.task = None
      BY <1>5, <2>3
    <3> QED BY <3>1, <3>2
  <2> QED BY <2>1, <2>2, <2>3
<1>7. ASSUME NEW t \in Task, HandlerSettles(w, t)
      PROVE  \E c \in Wire : /\ c.op \in HeldOp /\ c.task = t
                             /\ c.op = "requeue" => t \notin Unretried
                             /\ <<c>> \in Seq(Wire) /\ Range(<<c>>) = {c}
                             /\ Send(w, <<c>>)
  <2> DEFINE ack == Cmd("ack", t, "processing")
  <2>1. ack \in Wire /\ ack.op = "ack" /\ ack.task = t
    BY DEF Cmd, Wire, Command, ChainOp, Place, PlacesFor, HeldOp
  <2>2. /\ FailureCommand(t) \in Wire /\ FailureCommand(t).op \in HeldOp
        /\ FailureCommand(t).task = t
        /\ FailureCommand(t).op = "requeue" => t \notin Unretried
    BY FailureIs, PutsBack DEF HeldOp
  <2>3. Send(w, <<ack>>) \/ Send(w, <<FailureCommand(t)>>)
    BY <1>7 DEF HandlerSettles, HandlerResolves, HandlerRejects
  <2> HIDE DEF ack
  <2> QED BY <1>1, <2>1, <2>2, <2>3 DEF HeldOp
<1> QED BY <1>2, <1>3, <1>6, <1>7

------------------------------------------------------------------------------
(* Nothing is lost while no command fails and no worker crashes.           *)

(* A task that is open waits in the queue or some worker will bring it     *)
(* back there, finish it or bury it: the other two collections are never   *)
(* all that is left of it.                                                 *)
Kept == \A t \in Task : fate[t] = "open" => t \in store["queue"] \/ Held(t)
Undisturbed == faults = 0 /\ \A w \in Worker : alive[w]
KInv == MInv /\ (Undisturbed => Kept)

(* What a worker holds, it holds on, if its calls and its connection only  *)
(* grow.                                                                   *)
LEMMA HeldStays ==
  ASSUME NEW t,
         \A v \in Worker : Range(wire[v]) \subseteq Range(wire'[v]),
         \A v \in Worker : running[v][t] > 0 => HeldBy(v, t)',
         Held(t)
  PROVE  Held(t)'
<1>1. PICK v \in Worker : HeldBy(v, t)
  BY DEF Held
<1>2. CASE running[v][t] > 0
  BY <1>2 DEF Held
<1>3. CASE Carried(v, t, {"ack", "requeue", "bury"})
  <2>1. Carried(v, t, {"ack", "requeue", "bury"})'
    BY <1>3, CarriedIs
  <2> QED BY <2>1 DEF Held, HeldBy
<1> QED BY <1>1, <1>2, <1>3 DEF HeldBy

(* The calls of clients, callbacks and handlers that settle.               *)
LEMMA CallKeeps ==
  ASSUME Types, Data, Kept, NEW w \in Worker,
         \/ ClientCall(w) \/ RunImmediate(w)
         \/ \E t \in Task : HandlerSettles(w, t)
  PROVE  Kept'
<1>0. Wires /\ fate \in [Task -> Fate] /\ running \in [Worker -> [Task -> Nat]]
  BY DEF Types, Data
<1>1. ASSUME NEW cmds \in Seq(Wire), Send(w, cmds)
      PROVE  /\ \A v \in Worker : Range(wire[v]) \subseteq Range(wire'[v])
             /\ Range(cmds) \subseteq Range(wire'[w])
  BY <1>0, <1>1, SendRange, ZenonT(60)
<1>2. ASSUME \A v \in Worker : Range(wire[v]) \subseteq Range(wire'[v]),
             store' = store, running' = running,
             \A t \in Task : fate'[t] = "open" => fate[t] = "open"
      PROVE  Kept'
  <2>1. ASSUME NEW t \in Task, Held(t) PROVE Held(t)'
    <3>1. \A v \in Worker : running[v][t] > 0 => HeldBy(v, t)'
      BY <1>2 DEF HeldBy
    <3> QED BY <1>2, <2>1, <3>1, HeldStays
  <2> QED BY <1>2, <2>1 DEF Kept
<1>3. ASSUME NEW t \in Task, Add(w, t) PROVE Kept'
  <2>1. \A v \in Worker : Range(wire[v]) \subseteq Range(wire'[v])
    BY <1>1, <1>3, CallSends
  <2>2. \A u \in Task : fate'[u] = "open" => fate[u] = "open"
    BY <1>0, <1>3 DEF Add
  <2> QED BY <1>2, <1>3, <2>1, <2>2 DEF Add, tasks
<1>4. ASSUME Process(w) \/ Resume(w) \/ RunImmediate(w) PROVE Kept'
  <2>1. \A v \in Worker : Range(wire[v]) \subseteq Range(wire'[v])
    BY <1>1, <1>4, CallSends
  <2> QED BY <1>2, <1>4, <2>1 DEF Process, Resume, RunImmediate, server, tasks
<1>5. ASSUME NEW op, NEW t, Asks(w, op, t) PROVE Kept'
  <2>1. \A v \in Worker : Range(wire[v]) \subseteq Range(wire'[v])
    BY <1>1, <1>5, CallSends
  <2>2. UNCHANGED <<store, fate, running>>
    BY <1>5 DEF Asks, RemoveTask, GetTasks, GetStatus, Looks, Clear, Shutdown,
                server, tasks
  <2> QED BY <1>2, <2>1, <2>2
<1>6. ASSUME Pause(w) PROVE Kept'
  BY <1>2, <1>6 DEF Pause, server, tasks
<1>7. ASSUME NEW u \in Task, HandlerSettles(w, u) PROVE Kept'
  <2>1. PICK c \in Wire : /\ c.op \in HeldOp /\ c.task = u
                          /\ <<c>> \in Seq(Wire) /\ Range(<<c>>) = {c}
                          /\ Send(w, <<c>>)
    BY <1>7, CallSends
  <2>2. /\ \A v \in Worker : Range(wire[v]) \subseteq Range(wire'[v])
        /\ c \in Range(wire'[w])
    <3> DEFINE s == <<c>>
    <3>1. s \in Seq(Wire) /\ Range(s) = {c} /\ Send(w, s)
      BY <2>1
    <3> HIDE DEF s
    <3> QED BY <1>1, <3>1
  <2>3. HeldBy(w, u)'
    BY <2>1, <2>2, CarriedIs DEF HeldBy, HeldOp
  <2>4. /\ running' = [running EXCEPT ![w][u] = @ - 1]
        /\ UNCHANGED <<store, fate>>
    BY <1>7 DEF HandlerSettles, HandlerResolves, HandlerRejects, server
  <2>5. ASSUME NEW t \in Task, Held(t) PROVE Held(t)'
    <3>1. CASE t = u
      BY <2>3, <3>1 DEF Held
    <3>2. CASE t # u
      <4>1. \A v \in Worker : running'[v][t] = running[v][t]
        BY <1>0, <2>4, <3>2
      <4> QED BY <2>2, <2>5, <4>1, HeldStays DEF HeldBy
    <3> QED BY <3>1, <3>2
  <2> QED BY <2>4, <2>5 DEF Kept
<1>8. ASSUME \/ \E t \in Task : RemoveTask(w, t)
             \/ GetTasks(w) \/ GetStatus(w) \/ Clear(w) \/ Shutdown(w)
      PROVE  Kept'
  BY <1>5, <1>8 DEF Asks
<1> QED BY <1>3, <1>4, <1>6, <1>7, <1>8 DEF ClientCall

(* The replies.                                                            *)
LEMMA ServeKeeps ==
  ASSUME Types, Data, Kept, NEW w \in Worker, Serve(w)
  PROVE  Kept'
<1> DEFINE m == Head(wire[w])
<1>0. /\ Wires /\ running \in [Worker -> [Task -> Nat]]
      /\ wire[w] # <<>> /\ m \in Wire
  BY ServeSends DEF Types
<1>1. PICK cmds \in Seq(Wire) :
        /\ Answer(w, cmds)
        /\ MoveReplyLost(w) => FailureCommand(m.task) \in Range(cmds)
  BY ServeSends
<1>2. /\ store' = StoreAfter(w, m) /\ fate' = FateAfter(m)
      /\ wire' = [wire EXCEPT ![w] = Tail(@) \o cmds]
  BY <1>1 DEF Answer, Executes
<1>3. /\ Range(wire[w]) = {m} \cup Range(Tail(wire[w]))
      /\ Range(wire'[w]) = Range(Tail(wire[w])) \cup Range(cmds)
      /\ \A v \in Worker \ {w} : wire'[v] = wire[v]
  BY <1>0, <1>2, AnswerRange
<1> HIDE DEF m
<1>4. \/ running' = running /\ ~MoveReply(w)
      \/ m.op = "move" /\ m.task \in Task /\ MoveReply(w)
         /\ running' = [running EXCEPT ![w][m.task] = @ + 1]
  <2>1. CASE MoveReply(w)
    BY <1>0, <2>1 DEF MoveReply, Served, m, Wire, TaskOp
  <2>2. CASE ~MoveReply(w)
    BY <2>2 DEF Serve, AddReply, FindReply, LastReply, ListReply,
                RestoreReply, PollFinds, PollFindsNothing,
                MoveReplyLost, RequeueOrBuryReply, AckOrCleanReply, tasks
  <2> QED BY <2>1, <2>2
<1>5. \A v \in Worker, t \in Task : running[v][t] > 0 => running'[v][t] > 0
  <2>1. CASE running' = running
    BY <2>1
  <2>2. CASE m.task \in Task /\ running' = [running EXCEPT ![w][m.task] = @ + 1]
    <3> SUFFICES ASSUME NEW v \in Worker, NEW t \in Task, running[v][t] > 0
                 PROVE  running'[v][t] > 0
      OBVIOUS
    <3>1. CASE v = w /\ t = m.task
      BY <1>0, <2>2, <3>1
    <3>2. CASE ~(v = w /\ t = m.task)
      BY <1>0, <2>2, <3>2
    <3> QED BY <3>1, <3>2
  <2> QED BY <1>4, <2>1, <2>2
<1> SUFFICES ASSUME NEW t \in Task, fate'[t] = "open"
             PROVE  t \in store'["queue"] \/ Held(t)'
  BY DEF Kept
<1>6. /\ fate[t] = "open" \/ t \in store'["queue"]
      /\ t \in store["queue"] => \/ t \in store'["queue"]
                                 \/ m.op = "move" /\ m.task = t
      /\ m.task = t /\ m.op \in HeldOp => t \in store'["queue"]
  BY <1>0, <1>2, ExecutesKeeps
<1>7. ASSUME m.op = "move", m.task = t, t \in store["queue"] PROVE HeldBy(w, t)'
  <2>1. MoveReply(w) \/ MoveReplyLost(w)
    BY <1>7 DEF Serve, AddReply, FindReply, LastReply, ListReply,
                RestoreReply, PollFinds, PollFindsNothing,
                RequeueOrBuryReply, AckOrCleanReply, Served, m
  <2>2. CASE MoveReply(w)
    <3>1. running'[w][t] = running[w][t] + 1
      BY <1>0, <1>4, <1>7, <2>2
    <3> QED BY <1>0, <3>1 DEF HeldBy
  <2>3. CASE MoveReplyLost(w)
    <3>1. FailureCommand(t) \in Range(wire'[w])
      BY <1>1, <1>3, <1>7, <2>3
    <3>2. Carried(w, t, {"ack", "requeue", "bury"})'
      BY <3>1, FailureIs, CarriedIs
    <3> QED BY <3>2 DEF HeldBy
  <2> QED BY <2>1, <2>2, <2>3
<1>8. ASSUME Held(t) PROVE t \in store'["queue"] \/ Held(t)'
  <2>1. PICK v \in Worker : HeldBy(v, t)
    BY <1>8 DEF Held
  <2>2. CASE running[v][t] > 0
    BY <1>5, <2>2 DEF Held, HeldBy
  <2>3. CASE Carried(v, t, HeldOp)
    <3>1. PICK c \in Range(wire[v]) : c.task = t /\ c.op \in HeldOp
      BY <2>3, CarriedIs
    <3>2. CASE c \in Range(wire'[v])
      BY <3>1, <3>2, CarriedIs DEF Held, HeldBy, HeldOp
    <3>3. CASE c \notin Range(wire'[v])
      <4>1. c = m
        BY <1>3, <3>3
      <4> QED BY <1>6, <3>1, <4>1
    <3> QED BY <3>2, <3>3
  <2> QED BY <2>1, <2>2, <2>3 DEF HeldBy, HeldOp
<1> QED BY <1>6, <1>7, <1>8 DEF Kept, Held

(* Until a command fails or a worker crashes, only the other steps occur,  *)
(* and no step but a crash changes which workers are alive.                *)
LEMMA Undisturbing ==
  ASSUME Types, Data, NEW w \in Worker,
         \/ ClientCall(w)
         \/ Serve(w)
         \/ RunImmediate(w)
         \/ \E t \in Task : HandlerSettles(w, t)
         \/ Fail(w)
  PROVE  /\ Undisturbed' => Undisturbed /\ ~Fail(w)
         /\ MaxFaults = 0 /\ "crash" \notin Calls =>
              (Undisturbed => Undisturbed')
<1>0. faults \in Nat /\ alive \in [Worker -> BOOLEAN]
  BY DEF Types, Data
<1>1. ASSUME ~Fail(w) PROVE faults' = faults /\ alive' = alive
  <2>1. CASE ClientCall(w)
    BY <2>1 DEF ClientCall, Add, Process, Pause, Resume, Shutdown,
                RemoveTask, GetTasks, GetStatus, Looks, Clear, worker
  <2>2. CASE Serve(w)
    BY <2>2 DEF Serve, AddReply, FindReply, LastReply, ListReply,
                RestoreReply, PollFinds, PollFindsNothing, MoveReply,
                MoveReplyLost, RequeueOrBuryReply, AckOrCleanReply, worker
  <2>3. CASE RunImmediate(w) \/ \E t \in Task : HandlerSettles(w, t)
    BY <2>3 DEF RunImmediate, HandlerSettles, HandlerResolves,
                HandlerRejects, worker
  <2> QED BY <1>1, <2>1, <2>2, <2>3
<1>2. ASSUME Fail(w)
      PROVE  /\ ~Undisturbed'
             /\ MaxFaults = 0 /\ "crash" \notin Calls => ~Undisturbed
  <2>1. CASE CommandFails(w)
    BY <1>0, <2>1 DEF CommandFails, Undisturbed
  <2>2. CASE "crash" \in Calls /\ Crash(w)
    BY <1>0, <2>2 DEF Crash, Undisturbed
  <2>3. CASE ServeCrashed(w) \/ Disconnect(w)
    BY <1>0, <2>3 DEF ServeCrashed, Disconnect, worker, Undisturbed
  <2> QED BY <1>2, <2>1, <2>2, <2>3 DEF Fail
<1> QED BY <1>1, <1>2 DEF Undisturbed

(* What every step keeps.                                                  *)
LEMMA KeptNext == KInv /\ [Next]_vars => KInv'
<1> SUFFICES ASSUME KInv, [Next]_vars PROVE KInv'
  OBVIOUS
<1>0. MInv' /\ Types /\ Data
  BY MetersNext DEF KInv, MInv, Meters
<1>1. CASE Next
  <2>1. PICK w \in Worker :
          \/ ClientCall(w)
          \/ Serve(w)
          \/ RunImmediate(w)
          \/ \E t \in Task : HandlerSettles(w, t)
          \/ Fail(w)
    BY <1>1 DEF Next
  <2>2. ASSUME Undisturbed' PROVE Kept'
    <3>1. Undisturbed /\ ~Fail(w)
      BY <1>0, <2>1, <2>2, Undisturbing
    <3> QED BY <1>0, <2>1, <3>1, CallKeeps, ServeKeeps DEF KInv
  <2> QED BY <1>0, <2>2 DEF KInv
<1>2. CASE UNCHANGED vars
  <2>1. UNCHANGED <<store, fate, wire, running, alive, faults>>
    BY <1>2 DEF vars, server, worker, tasks
  <2>2. \A t \in Task : Held(t)' = Held(t)
    BY <2>1 DEF Held, HeldBy, Carried
  <2> QED BY <1>0, <2>1, <2>2 DEF KInv, Kept, Undisturbed
<1> QED BY <1>1, <1>2

(* No accepted task is lost among workers that share a server, for any     *)
(* number of workers and of chains of calls, shutdowns included, until a   *)
(* command fails or a worker crashes.                                      *)
THEOREM TasksAreKept == Spec => [](Undisturbed => NothingLost)
<1>1. Init => KInv
  BY MetersInit DEF KInv, Init, Kept
<1>2. KInv => (Undisturbed => NothingLost)
  BY DEF KInv, Kept, NothingLost, Stored, Place
<1> QED BY <1>1, <1>2, KeptNext, PTL DEF Spec

(* Where no command fails and no worker crashes, none is ever lost.        *)
THEOREM SharedTasksAreKept ==
  ASSUME MaxFaults = 0, "crash" \notin Calls
  PROVE  Spec => []NothingLost
<1>1. Init => Undisturbed
  BY DEF Init, Undisturbed
<1>2. MInv /\ Undisturbed /\ [Next]_vars => Undisturbed'
  <2> SUFFICES ASSUME MInv, Undisturbed, [Next]_vars PROVE Undisturbed'
    OBVIOUS
  <2>1. CASE Next
    BY <2>1, Undisturbing DEF Next, MInv, Meters
  <2>2. CASE UNCHANGED vars
    BY <2>2 DEF vars, worker, Undisturbed
  <2> QED BY <2>1, <2>2
<1> QED BY <1>1, <1>2, TasksAreKept, MetersInvariance, PTL DEF Spec

------------------------------------------------------------------------------
(* Sets and commands.                                                      *)

(* A set of at most one element.                                           *)
LEMMA AtMostOne ==
  ASSUME NEW X, IsFiniteSet(X), Cardinality(X) <= 1, NEW x \in X, NEW y \in X
  PROVE  x = y
<1> SUFFICES ASSUME x # y PROVE FALSE
  OBVIOUS
<1>1. IsFiniteSet({x}) /\ Cardinality({x}) = 1
  BY FS_Singleton
<1>2. Cardinality({x} \cup {y}) = Cardinality({x}) + 1
  BY <1>1, FS_AddElement
<1>3. {x} \cup {y} \in SUBSET X
  OBVIOUS
<1>4. Cardinality({x} \cup {y}) <= Cardinality(X)
  BY <1>3, FS_Subset
<1>5. Cardinality(X) \in Nat
  BY FS_CardinalityType
<1> QED BY <1>1, <1>2, <1>4, <1>5

(* Commands that count at most once are one, and none if they do not.      *)
LEMMA CountFinds ==
  ASSUME NEW s \in Seq(Wire), NEW ops, NEW c \in Range(s), c.op \in ops
  PROVE  /\ CountIn(s, ops) >= 1
         /\ \A d \in Range(s) : d.op \in ops /\ CountIn(s, ops) <= 1 => c = d
<1> DEFINE X == {i \in DOMAIN s : s[i].op \in ops}
<1>1. IsFiniteSet(X) /\ CountIn(s, ops) = Cardinality(X) /\ CountIn(s, ops) \in Nat
  BY LenProperties, CountType, ZenonT(30) DEF CountIn
<1>2. PICK i \in X : s[i] = c
  BY DEF Range
<1>3. CountIn(s, ops) # 0
  BY <1>1, <1>2, FS_EmptySet
<1>4. ASSUME NEW d \in Range(s), d.op \in ops, CountIn(s, ops) <= 1
      PROVE  c = d
  <2>1. PICK j \in X : s[j] = d
    BY <1>4 DEF Range
  <2> HIDE DEF X
  <2>2. i = j
    BY <1>1, <1>4, AtMostOne
  <2> QED BY <1>2, <2>1, <2>2
<1> QED BY <1>1, <1>3, <1>4

(* The commands that are tasks' own name a task.                           *)
LEMMA NamesTask ==
  ASSUME Wires, NEW w \in Worker, NEW c \in Range(wire[w]), c.op \in TaskOp
  PROVE  c.task \in Task
<1>1. wire[w] \in Seq(Wire)
  BY DEF Wires
<1>2. c \in Wire
  BY <1>1 DEF Range
<1> QED BY <1>2 DEF Wire

------------------------------------------------------------------------------
(* What is asked about a task that is being added, and who asks it.        *)

(* No two commands of s add the same task.                                 *)
AddsApart(s) ==
  \A i, j \in DOMAIN s :
    s[i].op = "add" /\ s[j].op = "add" /\ s[i].task = s[j].task => i = j

(* A task that is being added is not accepted yet, and one command adds it.*)
AddsSent ==
  \A w \in Worker :
    /\ AddsApart(wire[w])
    /\ \A c \in Range(wire[w]) : c.op = "add" =>
         /\ fate[c.task] = "sent"
         /\ \A v \in Worker : \A d \in Range(wire[v]) :
              d.op = "add" /\ d.task = c.task => v = w

(* What follows the first command does not add its task again.             *)
LEMMA ApartTail ==
  ASSUME NEW s \in Seq(Wire), s # <<>>, AddsApart(s)
  PROVE  /\ AddsApart(Tail(s))
         /\ \A c \in Range(Tail(s)) :
              Head(s).op = "add" /\ c.op = "add" => c.task # Head(s).task
<1> DEFINE q == Tail(s)
<1>1. /\ Len(s) \in Nat /\ Len(s) # 0 /\ DOMAIN s = 1 .. Len(s)
      /\ q \in Seq(Wire) /\ Len(q) = Len(s) - 1 /\ DOMAIN q = 1 .. Len(q)
      /\ \A i \in 1 .. Len(q) : q[i] = s[i + 1]
      /\ Head(s) = s[1]
  BY LenProperties, EmptySeq, HeadTailProperties
<1> HIDE DEF q
<1>2. ASSUME NEW i \in DOMAIN q
      PROVE  i \in Int /\ i + 1 \in DOMAIN s /\ q[i] = s[i + 1] /\ i + 1 # 1
  BY <1>1
<1>3. ASSUME NEW i \in DOMAIN q, NEW j \in DOMAIN q,
             q[i].op = "add", q[j].op = "add", q[i].task = q[j].task
      PROVE  i = j
  <2>1. i + 1 = j + 1
    BY <1>2, <1>3 DEF AddsApart
  <2> QED BY <1>2, <2>1
<1>4. ASSUME NEW c \in Range(q), Head(s).op = "add", c.op = "add"
      PROVE  c.task # Head(s).task
  <2>1. PICK i \in DOMAIN q : c = q[i]
    BY <1>4 DEF Range
  <2>2. 1 \in DOMAIN s
    BY <1>1
  <2> QED BY <1>1, <1>2, <1>4, <2>1, <2>2 DEF AddsApart
<1> QED BY <1>3, <1>4 DEF AddsApart, q

(* Additions of other tasks may join.                                      *)
LEMMA ApartAppend ==
  ASSUME NEW s \in Seq(Wire), NEW q \in Seq(Wire), AddsApart(s), AddsApart(q),
         \A c \in Range(s), d \in Range(q) :
           c.op = "add" /\ d.op = "add" => c.task # d.task
  PROVE  AddsApart(s \o q)
<1> DEFINE r == s \o q
           n == Len(s)
<1>1. /\ n \in Nat /\ DOMAIN s = 1 .. n
      /\ Len(q) \in Nat /\ DOMAIN q = 1 .. Len(q)
      /\ r \in Seq(Wire) /\ Len(r) = n + Len(q) /\ DOMAIN r = 1 .. n + Len(q)
      /\ \A i \in 1 .. n + Len(q) : r[i] = IF i <= n THEN s[i] ELSE q[i - n]
  <2>1. r \in Seq(Wire)
    BY ConcatProperties
  <2>2. DOMAIN r = 1 .. Len(r)
    BY <2>1, LenProperties
  <2> QED BY <2>1, <2>2, LenProperties, ConcatProperties
<1> HIDE DEF r, n
<1>2. ASSUME NEW i \in DOMAIN r
      PROVE  /\ i \in Int /\ n \in Int
             /\ \/ i <= n /\ i \in DOMAIN s /\ r[i] = s[i]
                \/ ~(i <= n) /\ i - n \in DOMAIN q /\ r[i] = q[i - n]
  BY <1>1
<1>3. ASSUME NEW i \in DOMAIN r, NEW j \in DOMAIN r,
             r[i].op = "add", r[j].op = "add", r[i].task = r[j].task
      PROVE  i = j
  <2>1. CASE i <= n /\ j <= n
    BY <1>2, <1>3, <2>1 DEF AddsApart
  <2>2. CASE ~(i <= n) /\ ~(j <= n)
    <3>1. i - n = j - n
      BY <1>2, <1>3, <2>2 DEF AddsApart
    <3> QED BY <1>2, <3>1
  <2>3. CASE (i <= n) # (j <= n)
    BY <1>2, <1>3, <2>3 DEF Range
  <2> QED BY <2>1, <2>2, <2>3
<1> QED BY <1>3 DEF AddsApart, r

(* Single commands and those that add nothing are apart.                   *)
LEMMA ApartFew ==
  ASSUME NEW s \in Seq(Wire)
  PROVE  /\ (\A c \in Range(s) : c.op # "add") => AddsApart(s)
         /\ Len(s) <= 1 => AddsApart(s)
<1>1. DOMAIN s = 1 .. Len(s) /\ Len(s) \in Nat
  BY LenProperties
<1>2. (\A c \in Range(s) : c.op # "add") => AddsApart(s)
  BY DEF AddsApart, Range
<1>3. Len(s) <= 1 => AddsApart(s)
  BY <1>1 DEF AddsApart
<1> QED BY <1>2, <1>3

------------------------------------------------------------------------------
(* What a step can add to the commands and the calls under way.            *)

(* Why w has a command that it did not have before.                        *)
Arrives(w, c) ==
  \/ c.op \in SearchOp \cup {"wipe", "poll"}
  \/ c.op = "list" /\ isShutdown'[w]
  \/ c.op = "restore" /\ \E m \in Range(wire[w]) : m.op = "list"
  \/ c.op = "add" /\ fate[c.task] = "new" /\ fate'[c.task] = "sent"
  \/ c.op = "move" /\ c.task \in store["queue"] \cap store'["queue"]
  \/ /\ c.op \in HeldOp
     /\ c.op = "requeue" => c.task \notin Unretried
     /\ \/ running[w][c.task] > 0
        \/ \E m \in Range(wire[w]) :
             m.op \in {"move", "ack"} /\ m.task = c.task
  \/ /\ c.op = "clean"
     /\ \E m \in Range(wire[w]) :
          m.op \in {"requeue", "bury"} /\ m.task = c.task
     /\ fate'[c.task] = "open" => c.task \in store'["queue"]

NewCommands(w) ==
  \A v \in Worker : \A c \in Range(wire'[v]) :
    c \in Range(wire[v]) \/ (v = w /\ Arrives(w, c))

(* A handler is called for a task that this very step takes off the queue. *)
Taken(w, t) ==
  /\ t \in store["queue"] /\ t \notin store'["queue"]
  /\ \E m \in Range(wire[w]) : m.op = "move" /\ m.task = t

NewCalls(w) ==
  \A t \in Task :
    /\ \A v \in Worker :
         running'[v][t] > 0 => running[v][t] > 0 \/ Taken(w, t)
    /\ \/ starts'[t] = starts[t]
       \/ Taken(w, t) /\ starts'[t] <= starts[t] + 1

(* The server executes a command, which leaves the connection, or nothing  *)
(* happens there; a task that is submitted is on its way to it.            *)
ServerMoves(w) ==
  \/ /\ store' = store
     /\ \/ fate' = fate
        \/ \E t \in Task : /\ fate[t] = "new"
                           /\ fate' = [fate EXCEPT ![t] = "sent"]
  \/ \E m \in Range(wire[w]) :
       /\ m \in Wire
       /\ store' = StoreAfter(w, m) /\ fate' = FateAfter(m)
       /\ m.op = "add" =>
            \A c \in Range(wire'[w]) : c.op = "add" => c.task # m.task

Moves(w) ==
  /\ NewCommands(w) /\ NewCalls(w) /\ ServerMoves(w)
  /\ \A v \in Worker : AddsApart(wire'[v])

(* A move takes its task off the queue.                                    *)
LEMMA MoveTakes ==
  ASSUME Types, NEW w \in Worker, NEW m \in Wire, m.op = "move"
  PROVE  /\ m.task \notin StoreAfter(w, m)["queue"]
         /\ m.task \in StoreAfter(w, m)["processing"]
<1>1. store \in [Place -> SUBSET Task] /\ {"queue", "processing"} \subseteq Place
  BY DEF Types, Stores, Place
<1>2. StoreAfter(w, m) = [store EXCEPT !["queue"] = @ \ {m.task},
                                       !["processing"] = @ \cup {m.task}]
  BY DEF StoreAfter
<1> QED BY <1>1, <1>2

(* Client calls, callbacks and handlers that settle.                       *)
LEMMA CallMoves ==
  ASSUME Types, Data, AddsSent, NEW w \in Worker,
         \/ ClientCall(w) \/ RunImmediate(w)
         \/ \E t \in Task : HandlerSettles(w, t)
  PROVE  Moves(w)
<1>0. /\ Wires /\ fate \in [Task -> Fate]
      /\ running \in [Worker -> [Task -> Nat]]
  BY DEF Types, Data
<1> DEFINE Sends == NewCommands(w) /\ \A v \in Worker : AddsApart(wire'[v])
<1>1. ASSUME NEW cmds \in Seq(Wire), Send(w, cmds), AddsApart(cmds),
             \A c \in Range(cmds) : Arrives(w, c)
      PROVE  Sends
  <2>1. /\ Range(wire'[w]) = Range(wire[w]) \cup Range(cmds)
        /\ \A v \in Worker \ {w} : wire'[v] = wire[v]
        /\ wire[w] \in Seq(Wire) /\ wire'[w] = wire[w] \o cmds
    BY <1>0, <1>1, SendRange DEF Send, Wires
  <2>2. \A c \in Range(wire[w]), d \in Range(cmds) :
          c.op = "add" /\ d.op = "add" => c.task # d.task
    BY <1>1 DEF AddsSent, Arrives, HeldOp, SearchOp
  <2>3. AddsApart(wire'[w])
    BY <1>1, <2>1, <2>2, ApartAppend DEF AddsSent
  <2> QED BY <1>1, <2>1, <2>3 DEF NewCommands, AddsSent
<1>2. ASSUME running' = running, starts' = starts PROVE NewCalls(w)
  BY <1>2 DEF NewCalls
<1>3. ASSUME UNCHANGED <<store, fate>> PROVE ServerMoves(w)
  BY <1>3 DEF ServerMoves
<1>s. ASSUME NEW c \in Wire
      PROVE  <<c>> \in Seq(Wire) /\ Range(<<c>>) = {c} /\ AddsApart(<<c>>)
  <2>1. <<c>> \in Seq(Wire) /\ Len(<<c>>) <= 1 /\ Range(<<c>>) = {c}
    BY DEF Range
  <2> QED BY <2>1, ApartFew
<1> HIDE DEF Sends
<1>4. ASSUME NEW t \in Task, Add(w, t) PROVE Moves(w)
  <2>1. PICK c \in Wire : c.op = "add" /\ c.task = t /\ Send(w, <<c>>)
    BY <1>4, CallSends
  <2>2. /\ fate[t] = "new" /\ fate' = [fate EXCEPT ![t] = "sent"]
        /\ store' = store /\ running' = running /\ starts' = starts
    BY <1>4 DEF Add, tasks
  <2>3. fate'[t] = "sent"
    BY <1>0, <2>2
  <2>4. Arrives(w, c)
    BY <2>1, <2>2, <2>3 DEF Arrives
  <2> DEFINE s == <<c>>
  <2>5. s \in Seq(Wire) /\ Range(s) = {c} /\ Send(w, s) /\ AddsApart(s)
    BY <1>s, <2>1
  <2> HIDE DEF s
  <2>6. Sends
    BY <1>1, <2>4, <2>5
  <2>7. ServerMoves(w)
    BY <2>2 DEF ServerMoves
  <2> QED BY <1>2, <2>2, <2>6, <2>7 DEF Moves, Sends
<1>5. ASSUME Process(w) \/ Resume(w) \/ RunImmediate(w) PROVE Moves(w)
  <2>1. PICK cmds \in Seq(Wire) :
          Send(w, cmds) /\ \A c \in Range(cmds) : c.op = "poll"
    BY <1>5, CallSends
  <2>2. AddsApart(cmds) /\ \A c \in Range(cmds) : Arrives(w, c)
    BY <2>1, ApartFew DEF Arrives
  <2>3. Sends
    BY <1>1, <2>1, <2>2
  <2>4. UNCHANGED <<store, fate, running, starts>>
    BY <1>5 DEF Process, Resume, RunImmediate, server, tasks
  <2> QED BY <1>2, <1>3, <2>3, <2>4 DEF Moves, Sends
<1>6. ASSUME NEW op, NEW t, Asks(w, op, t) PROVE Moves(w)
  <2>1. PICK cmds \in Seq(Wire) :
          Send(w, cmds) /\ \A c \in Range(cmds) : c.op = op /\ c.task = t
    BY <1>6, CallSends
  <2>2. /\ op \in {"find", "count", "wipe", "list"}
        /\ op = "list" => isShutdown'[w]
    BY <1>6 DEF Asks, Shutdown, Types
  <2>3. AddsApart(cmds) /\ \A c \in Range(cmds) : Arrives(w, c)
    BY <2>1, <2>2, ApartFew DEF Arrives, SearchOp
  <2>4. Sends
    BY <1>1, <2>1, <2>3
  <2>5. UNCHANGED <<store, fate, running, starts>>
    BY <1>6 DEF Asks, RemoveTask, GetTasks, GetStatus, Looks, Clear, Shutdown,
                server, tasks
  <2> QED BY <1>2, <1>3, <2>4, <2>5 DEF Moves, Sends
<1>7. ASSUME Pause(w) PROVE Moves(w)
  <2>1. UNCHANGED <<store, fate, running, starts, wire>>
    BY <1>7 DEF Pause, server, tasks
  <2> QED BY <1>2, <1>3, <2>1 DEF Moves, NewCommands, AddsSent
<1>8. ASSUME NEW t \in Task, HandlerSettles(w, t) PROVE Moves(w)
  <2>1. PICK c \in Wire : /\ c.op \in HeldOp /\ c.task = t
                          /\ c.op = "requeue" => t \notin Unretried
                          /\ Send(w, <<c>>)
    BY <1>8, CallSends
  <2>2. /\ running[w][t] > 0
        /\ running' = [running EXCEPT ![w][t] = @ - 1]
        /\ UNCHANGED <<store, fate, starts>>
    BY <1>8 DEF HandlerSettles, HandlerResolves, HandlerRejects, server
  <2>3. Arrives(w, c)
    BY <2>1, <2>2 DEF Arrives
  <2> DEFINE s == <<c>>
  <2>4. s \in Seq(Wire) /\ Range(s) = {c} /\ Send(w, s) /\ AddsApart(s)
    BY <1>s, <2>1
  <2> HIDE DEF s
  <2>5. Sends
    BY <1>1, <2>3, <2>4
  <2>6. ASSUME NEW v \in Worker, NEW u \in Task, running'[v][u] > 0
        PROVE  running[v][u] > 0
    <3>1. CASE v = w /\ u = t
      BY <2>2, <3>1
    <3>2. CASE ~(v = w /\ u = t)
      BY <1>0, <2>2, <2>6, <3>2
    <3> QED BY <3>1, <3>2
  <2>7. NewCalls(w)
    BY <2>2, <2>6 DEF NewCalls
  <2> QED BY <1>3, <2>2, <2>5, <2>7 DEF Moves, Sends
<1>9. ASSUME \/ \E t \in Task : RemoveTask(w, t)
             \/ GetTasks(w) \/ GetStatus(w) \/ Clear(w) \/ Shutdown(w)
      PROVE  Moves(w)
  BY <1>6, <1>9 DEF Asks
<1> QED BY <1>4, <1>5, <1>7, <1>8, <1>9 DEF ClientCall

(* The replies.                                                            *)
LEMMA ServeMoves ==
  ASSUME Types, Data, AddsSent, NEW w \in Worker, Serve(w)
  PROVE  Moves(w)
<1> DEFINE m == Head(wire[w])
<1>0. /\ Wires /\ running \in [Worker -> [Task -> Nat]]
      /\ wire[w] # <<>> /\ m \in Wire /\ wire[w] \in Seq(Wire)
      /\ starts \in [Task -> 0 .. MaxStarts]
  BY ServeSends DEF Types, Data, Wires
<1>1. PICK cmds \in Seq(Wire) :
        Answer(w, cmds) /\ \A c \in Range(cmds) : Follows(w, m, c)
  BY <1>0, ServeSends
<1>2. /\ store' = StoreAfter(w, m) /\ fate' = FateAfter(m)
      /\ wire' = [wire EXCEPT ![w] = Tail(@) \o cmds]
  BY <1>1 DEF Answer, Executes
<1>3. /\ Range(wire[w]) = {m} \cup Range(Tail(wire[w]))
      /\ Range(wire'[w]) = Range(Tail(wire[w])) \cup Range(cmds)
      /\ \A v \in Worker \ {w} : wire'[v] = wire[v]
      /\ wire'[w] = Tail(wire[w]) \o cmds /\ Tail(wire[w]) \in Seq(Wire)
  BY <1>0, <1>2, AnswerRange, HeadTailProperties DEF Wires
<1>m. m \in Range(wire[w])
  BY <1>3
<1>5. \/ running' = running /\ starts' = starts
      \/ /\ m.op = "move" /\ m.task \in Task /\ m.task \in store["queue"]
         /\ running' = [running EXCEPT ![w][m.task] = @ + 1]
         /\ starts' = [starts EXCEPT ![m.task] = Count(@)]
  <2>1. CASE MoveReply(w)
    BY <1>0, <2>1 DEF MoveReply, Served, Wire, TaskOp
  <2>2. CASE ~MoveReply(w)
    BY <2>2 DEF Serve, AddReply, FindReply, LastReply, ListReply,
                RestoreReply, PollFinds, PollFindsNothing,
                MoveReplyLost, RequeueOrBuryReply, AckOrCleanReply, tasks
  <2> QED BY <2>1, <2>2
<1>t. /\ AddsApart(Tail(wire[w]))
      /\ \A c \in Range(Tail(wire[w])) :
           m.op = "add" /\ c.op = "add" => c.task # m.task
  BY <1>0, ApartTail DEF AddsSent
<1> HIDE DEF m
<1>6. NewCalls(w)
  <2>1. CASE running' = running /\ starts' = starts
    BY <2>1 DEF NewCalls
  <2>2. CASE /\ m.op = "move" /\ m.task \in Task /\ m.task \in store["queue"]
             /\ running' = [running EXCEPT ![w][m.task] = @ + 1]
             /\ starts' = [starts EXCEPT ![m.task] = Count(@)]
    <3>1. m.task \notin StoreAfter(w, m)["queue"]
      BY <1>0, <2>2, MoveTakes
    <3>2. Taken(w, m.task)
      BY <1>2, <1>m, <2>2, <3>1 DEF Taken
    <3>3. \A v \in Worker, t \in Task \ {m.task} :
            running'[v][t] = running[v][t] /\ starts'[t] = starts[t]
      BY <1>0, <2>2
    <3>4. starts'[m.task] <= starts[m.task] + 1
      <4>1. starts'[m.task] = Count(starts[m.task])
        BY <1>0, <2>2
      <4>2. starts[m.task] \in Int
        BY <1>0, <2>2, RedisAssumption
      <4> QED BY <4>1, <4>2 DEF Count
    <3> QED BY <3>2, <3>3, <3>4 DEF NewCalls
  <2> QED BY <1>5, <2>1, <2>2
<1>7. ASSUME NEW c \in Range(cmds) PROVE Arrives(w, c) /\ c.op # "add"
  <2>1. Follows(w, m, c)
    BY <1>1, <1>7
  <2>2. CASE m.op = "move"
    <3>1. m.task \in Task /\ c = FailureCommand(m.task)
      BY <1>0, <2>1, <2>2 DEF Follows, Wire, TaskOp
    <3>2. /\ c.op \in {"requeue", "bury"} /\ c.task = m.task
          /\ c.op = "requeue" => c.task \notin Unretried
      BY <3>1, FailureIs, PutsBack
    <3> QED BY <1>m, <2>2, <3>2 DEF Arrives, HeldOp
  <2>3. CASE m.op \in {"requeue", "bury"}
    <3>1. c.op = "clean" /\ c.task = m.task /\ m.task \in Task
      BY <1>0, <2>1, <2>3 DEF Follows, Wire, TaskOp
    <3>2. FateAfter(m)[m.task] = "open" => m.task \in StoreAfter(w, m)["queue"]
      BY <1>0, <2>3, <3>1, ExecutesKeeps DEF HeldOp
    <3> QED BY <1>2, <1>m, <2>3, <3>1, <3>2 DEF Arrives
  <2>4. CASE m.op = "poll"
    <3>1. c.op = "move" /\ c.task \in store["queue"]
      BY <2>1, <2>4 DEF Follows
    <3>2. store' = store
      BY <1>2, <2>4 DEF StoreAfter
    <3> QED BY <3>1, <3>2 DEF Arrives
  <2>5. CASE m.op \in {"add", "find", "list"}
    BY <1>m, <2>1, <2>5 DEF Follows, Arrives, SearchOp
  <2> QED BY <2>1, <2>2, <2>3, <2>4, <2>5 DEF Follows
<1>8. NewCommands(w)
  BY <1>3, <1>7 DEF NewCommands
<1>9. \A v \in Worker : AddsApart(wire'[v])
  <2>1. AddsApart(cmds)
    BY <1>7, ApartFew
  <2>2. AddsApart(wire'[w])
    BY <1>3, <1>7, <1>t, <2>1, ApartAppend
  <2> QED BY <1>3, <2>2 DEF AddsSent
<1>10. ServerMoves(w)
  BY <1>0, <1>2, <1>3, <1>7, <1>m, <1>t DEF ServerMoves
<1> QED BY <1>6, <1>8, <1>9, <1>10 DEF Moves

(* Failures.                                                               *)
LEMMA FailMoves ==
  ASSUME Types, Data, AddsSent, NEW w \in Worker, Fail(w)
  PROVE  Moves(w)
<1> DEFINE m == Head(wire[w])
<1>0. Wires /\ running \in [Worker -> [Task -> Nat]]
  BY DEF Types
<1>1. ASSUME wire[w] # <<>>, NEW cmds \in Seq(Wire),
             wire' = [wire EXCEPT ![w] = Tail(@) \o cmds],
             \A c \in Range(cmds) :
               /\ c.op \in {"requeue", "bury"} /\ c.task = m.task
               /\ c.op = "requeue" => c.task \notin Unretried
               /\ m.op \in {"move", "ack"},
             \/ UNCHANGED <<store, fate>>
             \/ store' = StoreAfter(w, m) /\ fate' = FateAfter(m),
             running' = running, starts' = starts
      PROVE  Moves(w)
  <2>1. /\ Range(wire[w]) = {m} \cup Range(Tail(wire[w]))
        /\ Range(wire'[w]) = Range(Tail(wire[w])) \cup Range(cmds)
        /\ \A v \in Worker \ {w} : wire'[v] = wire[v]
        /\ m \in Wire
        /\ wire[w] \in Seq(Wire) /\ Tail(wire[w]) \in Seq(Wire)
        /\ wire'[w] = Tail(wire[w]) \o cmds
    BY <1>0, <1>1, AnswerRange, HeadTailProperties DEF Wires
  <2>2. /\ AddsApart(Tail(wire[w]))
        /\ \A c \in Range(Tail(wire[w])) :
             m.op = "add" /\ c.op = "add" => c.task # m.task
    BY <1>1, <2>1, ApartTail DEF AddsSent
  <2> HIDE DEF m
  <2>3. NewCommands(w)
    BY <1>1, <2>1 DEF NewCommands, Arrives, HeldOp
  <2>4. \A v \in Worker : AddsApart(wire'[v])
    <3>1. AddsApart(cmds)
      BY <1>1, ApartFew
    <3>2. AddsApart(wire'[w])
      BY <1>1, <2>1, <2>2, <3>1, ApartAppend
    <3> QED BY <2>1, <3>2 DEF AddsSent
  <2>5. ServerMoves(w)
    BY <1>1, <2>1, <2>2 DEF ServerMoves
  <2> QED BY <1>1, <2>3, <2>4, <2>5 DEF Moves, NewCalls
<1>2. <<>> \in Seq(Wire) /\ Range(<<>>) = {}
  BY DEF Range
<1>3. CASE CommandFails(w)
  <2>1. /\ wire[w] # <<>> /\ running' = running /\ starts' = starts
        /\ \/ UNCHANGED <<store, fate>>
           \/ store' = StoreAfter(w, m) /\ fate' = FateAfter(m)
        /\ \/ wire' = [wire EXCEPT ![w] = Tail(@) \o <<>>]
           \/ /\ m.op \in {"move", "ack"}
              /\ wire' = [wire EXCEPT ![w] = Tail(@) \o <<FailureCommand(m.task)>>]
    BY <1>3 DEF CommandFails, tasks
  <2>2. CASE wire' = [wire EXCEPT ![w] = Tail(@) \o <<>>]
    <3> DEFINE s == <<>>
    <3>1. /\ s \in Seq(Wire) /\ Range(s) = {}
          /\ wire' = [wire EXCEPT ![w] = Tail(@) \o s]
      BY <1>2, <2>2
    <3> HIDE DEF s, m
    <3> QED BY <1>1, <2>1, <3>1
  <2>3. CASE /\ m.op \in {"move", "ack"}
             /\ wire' = [wire EXCEPT ![w] = Tail(@) \o <<FailureCommand(m.task)>>]
    <3>1. m \in Wire
      BY <1>0, <2>1, HeadTailProperties DEF Wires
    <3>2. m.task \in Task
      BY <2>3, <3>1 DEF Wire, TaskOp
    <3> DEFINE f == FailureCommand(m.task)
               s == <<f>>
    <3>3. /\ f \in Wire /\ f.op \in {"requeue", "bury"} /\ f.task = m.task
          /\ f.op = "requeue" => f.task \notin Unretried
      BY <3>2, FailureIs, PutsBack
    <3>4. wire' = [wire EXCEPT ![w] = Tail(@) \o s]
      BY <2>3
    <3> HIDE DEF f
    <3>5. s \in Seq(Wire) /\ Range(s) = {f}
      BY <3>3 DEF Range
    <3> HIDE DEF s, m
    <3> QED BY <1>1, <2>1, <2>3, <3>3, <3>4, <3>5
  <2> QED BY <2>1, <2>2, <2>3
<1>4. CASE ServeCrashed(w)
  <2> DEFINE s == <<>>
  <2>1. /\ wire[w] # <<>> /\ running' = running /\ starts' = starts
        /\ store' = StoreAfter(w, m) /\ fate' = FateAfter(m)
        /\ wire' = [wire EXCEPT ![w] = Tail(@)]
    BY <1>4 DEF ServeCrashed, Executes, tasks
  <2>2. Tail(wire[w]) \o <<>> = Tail(wire[w])
    BY <1>0, <2>1, HeadTailProperties, ConcatEmptySeq DEF Wires
  <2>3. /\ s \in Seq(Wire) /\ Range(s) = {}
        /\ wire' = [wire EXCEPT ![w] = Tail(@) \o s]
    BY <1>2, <2>1, <2>2
  <2> HIDE DEF s, m
  <2> QED BY <1>1, <2>1, <2>3
<1>5. CASE Crash(w)
  <2>1. /\ UNCHANGED <<store, fate, wire, starts>>
        /\ running' = [running EXCEPT ![w] = [t \in Task |-> 0]]
    BY <1>5 DEF Crash
  <2>2. \A v \in Worker, t \in Task : running'[v][t] > 0 => running[v][t] > 0
    BY <1>0, <2>1
  <2> QED BY <2>1, <2>2 DEF Moves, NewCommands, NewCalls, ServerMoves, AddsSent
<1>6. CASE Disconnect(w)
  <2>1. /\ UNCHANGED <<store, fate, running, starts>>
        /\ wire' = [wire EXCEPT ![w] = <<>>]
    BY <1>6 DEF Disconnect, server, tasks
  <2>2. /\ \A v \in Worker : Range(wire'[v]) \subseteq Range(wire[v])
        /\ \A v \in Worker : AddsApart(wire'[v])
    <3>1. \A v \in Worker : wire'[v] = IF v = w THEN <<>> ELSE wire[v]
      BY <1>0, <2>1 DEF Wires
    <3>2. AddsApart(<<>>)
      BY <1>2, ApartFew
    <3> QED BY <1>2, <3>1, <3>2 DEF AddsSent
  <2> QED BY <2>1, <2>2 DEF Moves, NewCommands, NewCalls, ServerMoves
<1> QED BY <1>3, <1>4, <1>5, <1>6 DEF Fail

(* Every step moves the tasks so.                                          *)
LEMMA NextMoves ==
  ASSUME Types, Data, AddsSent, NEW w \in Worker,
         \/ ClientCall(w)
         \/ Serve(w)
         \/ RunImmediate(w)
         \/ \E t \in Task : HandlerSettles(w, t)
         \/ Fail(w)
  PROVE  Moves(w)
BY CallMoves, ServeMoves, FailMoves

(* A worker that is shut down remains so, and only shutdown sets the flag. *)
LEMMA ShutdownLasts ==
  ASSUME Types, NEW w \in Worker,
         \/ ClientCall(w)
         \/ Serve(w)
         \/ RunImmediate(w)
         \/ \E t \in Task : HandlerSettles(w, t)
         \/ Fail(w)
  PROVE  /\ \A v \in Worker : isShutdown[v] => isShutdown'[v]
         /\ "shutdown" \notin Calls => isShutdown' = isShutdown
<1>1. CASE "shutdown" \in Calls /\ Shutdown(w)
  BY <1>1 DEF Shutdown, Types
<1>2. CASE ~("shutdown" \in Calls /\ Shutdown(w))
  <2>1. isShutdown' = isShutdown
    <3>1. CASE ClientCall(w)
      BY <1>2, <3>1 DEF ClientCall, Add, Process, Pause, Resume, RemoveTask,
                        GetTasks, GetStatus, Looks, Clear, worker
    <3>2. CASE Serve(w)
      BY <3>2 DEF Serve, AddReply, FindReply, LastReply, ListReply,
                  RestoreReply, PollFinds, PollFindsNothing, MoveReply,
                  MoveReplyLost, RequeueOrBuryReply, AckOrCleanReply, worker
    <3>3. CASE RunImmediate(w) \/ \E t \in Task : HandlerSettles(w, t)
      BY <3>3 DEF RunImmediate, HandlerSettles, HandlerResolves,
                  HandlerRejects, worker
    <3>4. CASE Fail(w)
      BY <3>4 DEF Fail, CommandFails, Crash, ServeCrashed, Disconnect, worker
    <3> QED BY <3>1, <3>2, <3>3, <3>4
  <2> QED BY <2>1
<1> QED BY <1>1, <1>2

------------------------------------------------------------------------------
(* What the server does, task by task.                                     *)

(* Where a command that is not of a shutdown puts a task.                  *)
LEMMA StoreMoves ==
  ASSUME Types, Data, NEW w \in Worker, NEW m \in Wire, NEW t \in Task,
         m.op \notin {"list", "restore"}
  PROVE  /\ \A p \in Place : t \in StoreAfter(w, m)[p] =>
              \/ t \in store[p]
              \/ /\ m.task = t /\ m.op \in {"add", "requeue", "bury", "move"}
                 /\ p = "queue" => m.op \in {"add", "requeue"}
                 /\ p = "processing" => m.op = "move"
         /\ t \in store["processing"] /\ FateAfter(m)[t] = "open" =>
              \/ t \in StoreAfter(w, m)["processing"]
              \/ m.op = "clean" /\ m.task = t
<1>1. /\ m.op \in ChainOp \cup CallOp /\ m.place \in Place
      /\ m.op \in TaskOp => m.task \in Task /\ m.place \in PlacesFor(m.op)
      /\ store \in [Place -> SUBSET Task] /\ fate \in [Task -> Fate]
      /\ "queue" \in Place /\ "processing" \in Place /\ "dead" \in Place
  BY DEF Wire, Command, Types, Data, Stores, Place
<1>2. \A S, f : Settled(S, f)[t] = IF t \in S /\ fate[t] = "open" THEN f ELSE fate[t]
  BY DEF Settled
<1>3. CASE m.op \in {"add", "requeue", "bury"}
  <2>1. StoreAfter(w, m) = [store EXCEPT ![m.place] = @ \cup {m.task}]
    BY <1>3 DEF StoreAfter, With
  <2>2. /\ m.place = "queue" => m.op \in {"add", "requeue"}
        /\ m.place # "processing"
    BY <1>1, <1>3 DEF TaskOp, PlacesFor
  <2>3. \A p \in Place : StoreAfter(w, m)[p] =
          IF p = m.place THEN store[p] \cup {m.task} ELSE store[p]
    BY <1>1, <2>1
  <2> QED BY <1>1, <1>3, <2>2, <2>3
<1>4. CASE m.op = "move"
  <2>1. StoreAfter(w, m) = [store EXCEPT !["queue"] = @ \ {m.task},
                                         !["processing"] = @ \cup {m.task}]
    BY <1>4 DEF StoreAfter
  <2>2. /\ StoreAfter(w, m)["queue"] = store["queue"] \ {m.task}
        /\ StoreAfter(w, m)["processing"] = store["processing"] \cup {m.task}
        /\ StoreAfter(w, m)["dead"] = store["dead"]
    BY <1>1, <2>1
  <2> QED BY <1>4, <2>2 DEF Place
<1>5. CASE m.op \in {"ack", "clean", "take"}
  <2>1. StoreAfter(w, m) = [store EXCEPT ![m.place] = @ \ {m.task}]
    BY <1>5 DEF StoreAfter, Without
  <2>2. \A p \in Place : StoreAfter(w, m)[p] =
          IF p = m.place THEN store[p] \ {m.task} ELSE store[p]
    BY <1>1, <2>1
  <2>3. CASE m.op = "clean"
    BY <1>1, <2>2, <2>3
  <2>4. CASE m.op \in {"ack", "take"}
    <3>1. FateAfter(m)[t] = "open" => m.task # t
      BY <1>2, <2>4 DEF FateAfter
    <3> QED BY <1>1, <2>2, <2>4, <3>1
  <2> QED BY <1>5, <2>3, <2>4
<1>6. CASE m.op = "wipe"
  <2>1. StoreAfter(w, m) = [store EXCEPT ![m.place] = {}]
    BY <1>6 DEF StoreAfter
  <2>2. FateAfter(m)[t] = "open" => t \notin store[m.place]
    BY <1>2, <1>6 DEF FateAfter
  <2>3. \A p \in Place : StoreAfter(w, m)[p] = IF p = m.place THEN {} ELSE store[p]
    BY <1>1, <2>1
  <2> QED BY <1>1, <1>6, <2>2, <2>3
<1>7. CASE m.op \in {"poll", "find", "count"}
  <2>1. StoreAfter(w, m) = store
    BY <1>7 DEF StoreAfter
  <2> QED BY <1>7, <2>1
<1> QED BY <1>1, <1>3, <1>4, <1>5, <1>6, <1>7 DEF ChainOp, CallOp, SearchOp

(* A task stays new or sent until the server has added it.                 *)
LEMMA FateMoves ==
  ASSUME Types, Data, NEW m \in Wire, NEW t \in Task
  PROVE  /\ FateAfter(m)[t] \in {"new", "sent"} =>
              FateAfter(m)[t] = fate[t] /\ ~(m.op = "add" /\ m.task = t)
         /\ fate[t] \in {"new", "sent"} =>
              FateAfter(m)[t] = fate[t] \/ (m.op = "add" /\ m.task = t)
<1>1. /\ m.op \in TaskOp => m.task \in Task
      /\ fate \in [Task -> Fate]
  BY DEF Wire, Types, Data
<1>2. \A S, f : Settled(S, f)[t] = IF t \in S /\ fate[t] = "open" THEN f ELSE fate[t]
  BY DEF Settled
<1>3. CASE m.op = "add"
  <2>1. FateAfter(m) = [fate EXCEPT ![m.task] = "open"] /\ m.task \in Task
    BY <1>1, <1>3 DEF FateAfter, TaskOp
  <2>2. FateAfter(m)[t] = IF t = m.task THEN "open" ELSE fate[t]
    BY <1>1, <2>1
  <2> QED BY <1>3, <2>2
<1>4. CASE m.op \in {"ack", "bury", "take", "wipe"}
  BY <1>2, <1>4 DEF FateAfter
<1>5. CASE m.op \notin {"add", "ack", "bury", "take", "wipe"}
  BY <1>5 DEF FateAfter
<1> QED BY <1>3, <1>4, <1>5

(* A task that is sent is added by one command, which is gone then.        *)
LEMMA FateKeeps ==
  ASSUME Types, Data, NEW w \in Worker, ServerMoves(w), NEW t \in Task
  PROVE  /\ fate'[t] \in {"new", "sent"} => fate[t] \in {"new", "sent"}
         /\ fate[t] = "sent" =>
              \/ fate'[t] = "sent"
              \/ /\ \E m \in Range(wire[w]) : m.op = "add" /\ m.task = t
                 /\ \A c \in Range(wire'[w]) : c.op = "add" => c.task # t
<1>1. fate \in [Task -> Fate]
  BY DEF Data
<1>2. CASE \/ fate' = fate
           \/ \E u \in Task : /\ fate[u] = "new"
                              /\ fate' = [fate EXCEPT ![u] = "sent"]
  <2>1. \/ fate'[t] = fate[t]
        \/ fate[t] = "new" /\ fate'[t] = "sent"
    BY <1>1, <1>2
  <2> QED BY <2>1
<1>3. ASSUME NEW m \in Range(wire[w]), m \in Wire, fate' = FateAfter(m),
             m.op = "add" =>
               \A c \in Range(wire'[w]) : c.op = "add" => c.task # m.task
      PROVE  /\ fate'[t] \in {"new", "sent"} => fate[t] \in {"new", "sent"}
             /\ fate[t] = "sent" =>
                  \/ fate'[t] = "sent"
                  \/ /\ m.op = "add" /\ m.task = t
                     /\ \A c \in Range(wire'[w]) : c.op = "add" => c.task # t
  BY <1>3, FateMoves
<1> QED BY <1>2, <1>3 DEF ServerMoves

(* Only a shutdown puts back what is being processed.                      *)
NoRestore ==
  \A w \in Worker : \A c \in Range(wire[w]) : c.op \notin {"list", "restore"}

(* Where the tasks come from and go to while nobody is shut down.          *)
LEMMA ServerKeeps ==
  ASSUME Types, Data, NoRestore, NEW w \in Worker, ServerMoves(w), NEW t \in Task
  PROVE  /\ \A p \in Place : t \in store'[p] =>
              \/ t \in store[p]
              \/ \E m \in Range(wire[w]) :
                   /\ m.task = t /\ m.op \in {"add", "requeue", "bury", "move"}
                   /\ p = "queue" => m.op \in {"add", "requeue"}
                   /\ fate'[t] \in {"new", "sent"} => m.op # "add"
         /\ t \in store'["queue"] /\ t \in store'["processing"] =>
              t \in store["processing"]
         /\ fate'[t] = "open" =>
              /\ fate[t] = "open" \/ t \in store'["queue"]
              /\ t \in store["queue"] =>
                   \/ t \in store'["queue"]
                   \/ /\ \E m \in Range(wire[w]) : m.op = "move" /\ m.task = t
                      /\ t \in store'["processing"]
              /\ t \in store["processing"] =>
                   \/ t \in store'["processing"]
                   \/ \E m \in Range(wire[w]) : m.op = "clean" /\ m.task = t
<1>1. fate \in [Task -> Fate]
  BY DEF Data
<1>2. CASE /\ store' = store
           /\ \/ fate' = fate
              \/ \E u \in Task : /\ fate[u] = "new"
                                 /\ fate' = [fate EXCEPT ![u] = "sent"]
  <2>1. \/ fate'[t] = fate[t]
        \/ fate[t] = "new" /\ fate'[t] = "sent"
    BY <1>1, <1>2
  <2> QED BY <1>2, <2>1
<1>3. ASSUME NEW m \in Range(wire[w]), m \in Wire,
             store' = StoreAfter(w, m), fate' = FateAfter(m)
      PROVE  /\ \A p \in Place : t \in store'[p] =>
                  \/ t \in store[p]
                  \/ /\ m.task = t /\ m.op \in {"add", "requeue", "bury", "move"}
                     /\ p = "queue" => m.op \in {"add", "requeue"}
                     /\ fate'[t] \in {"new", "sent"} => m.op # "add"
             /\ t \in store'["queue"] /\ t \in store'["processing"] =>
                  t \in store["processing"]
             /\ fate'[t] = "open" =>
                  /\ fate[t] = "open" \/ t \in store'["queue"]
                  /\ t \in store["queue"] =>
                       \/ t \in store'["queue"]
                       \/ m.op = "move" /\ m.task = t /\ t \in store'["processing"]
                  /\ t \in store["processing"] =>
                       t \in store'["processing"] \/ (m.op = "clean" /\ m.task = t)
  <2>1. m.op \notin {"list", "restore"}
    BY <1>3 DEF NoRestore
  <2>2. /\ \A p \in Place : t \in StoreAfter(w, m)[p] =>
              \/ t \in store[p]
              \/ /\ m.task = t /\ m.op \in {"add", "requeue", "bury", "move"}
                 /\ p = "queue" => m.op \in {"add", "requeue"}
                 /\ p = "processing" => m.op = "move"
        /\ t \in store["processing"] /\ FateAfter(m)[t] = "open" =>
              \/ t \in StoreAfter(w, m)["processing"]
              \/ m.op = "clean" /\ m.task = t
    BY <1>3, <2>1, StoreMoves
  <2>3. m.op = "move" /\ m.task = t => /\ t \notin StoreAfter(w, m)["queue"]
                                       /\ t \in StoreAfter(w, m)["processing"]
    BY <1>3, MoveTakes
  <2>4. FateAfter(m)[t] \in {"new", "sent"} => ~(m.op = "add" /\ m.task = t)
    BY <1>3, FateMoves
  <2>5. FateAfter(m)[t] = "open" =>
          /\ fate[t] = "open" \/ t \in StoreAfter(w, m)["queue"]
          /\ t \in store["queue"] => \/ t \in StoreAfter(w, m)["queue"]
                                     \/ m.op = "move" /\ m.task = t
    BY <1>3, ExecutesKeeps
  <2>6. "processing" \in Place
    BY DEF Place
  <2> QED BY <1>3, <2>2, <2>3, <2>4, <2>5, <2>6
<1> QED BY <1>2, <1>3 DEF ServerMoves

------------------------------------------------------------------------------
(* A task that is not to be retried is handled once.                       *)

(* A task its producer still has is nowhere: not on the server, not with a *)
(* handler, and no call of processNext sends a command about it.           *)
Untouched ==
  \A t \in Task : fate[t] \in {"new", "sent"} =>
    /\ \A p \in Place : t \notin store[p]
    /\ \A v \in Worker :
         /\ ~(running[v][t] > 0)
         /\ \A c \in Range(wire[v]) : c.op \in SlotOp => c.task # t
    /\ starts[t] = 0

(* Only a task that is to be retried is put back in the queue.             *)
RetriesPutBack ==
  \A w \in Worker : \A c \in Range(wire[w]) :
    c.op = "requeue" => c.task \notin Unretried

ShutdownsRestore ==
  \A w \in Worker : \A c \in Range(wire[w]) :
    c.op \in {"list", "restore"} => isShutdown[w]

(* While it waits it has not been handled, and it waits in one place.      *)
OnceOnly ==
  \A t \in Unretried :
    /\ starts[t] <= 1
    /\ t \in store["queue"] => starts[t] = 0 /\ t \notin store["processing"]

BInv ==
  /\ MInv
  /\ AddsSent /\ RetriesPutBack /\ ShutdownsRestore
  /\ NobodyShutDown => Untouched /\ OnceOnly

(* What a step keeps of it.                                                *)
LEMMA OnceNext ==
  ASSUME BInv, MInv', NEW w \in Worker, Moves(w),
         \A v \in Worker : isShutdown[v] => isShutdown'[v]
  PROVE  BInv'
<1>0. /\ MInv /\ AddsSent /\ RetriesPutBack /\ ShutdownsRestore
      /\ NewCommands(w) /\ NewCalls(w) /\ ServerMoves(w)
  BY DEF BInv, Moves
<1>1. Types /\ Data /\ Wires /\ starts \in [Task -> 0 .. MaxStarts]
  BY <1>0 DEF MInv, Meters, Types, Data
<1>t. ASSUME NEW v \in Worker, NEW c \in Range(wire[v]), c.op \in TaskOp
      PROVE  c.task \in Task
  BY <1>1, <1>t, NamesTask
<1>2. RetriesPutBack'
  BY <1>0 DEF RetriesPutBack, NewCommands, Arrives, SearchOp, HeldOp, Unretried
<1>3. ShutdownsRestore'
  <2> SUFFICES ASSUME NEW v \in Worker, NEW c \in Range(wire'[v]),
                      c.op \in {"list", "restore"}
               PROVE  isShutdown'[v]
    BY DEF ShutdownsRestore
  <2>1. CASE c \in Range(wire[v])
    BY <1>0, <2>1 DEF ShutdownsRestore
  <2>2. CASE c \notin Range(wire[v])
    <3>1. v = w /\ Arrives(w, c)
      BY <1>0, <2>2 DEF NewCommands
    <3>2. CASE c.op = "list"
      BY <3>1, <3>2 DEF Arrives, SearchOp, HeldOp
    <3>3. CASE c.op = "restore"
      <4>1. \E m \in Range(wire[w]) : m.op = "list"
        BY <3>1, <3>3 DEF Arrives, SearchOp, HeldOp
      <4> QED BY <1>0, <3>1, <4>1 DEF ShutdownsRestore
    <3> QED BY <3>2, <3>3
  <2> QED BY <2>1, <2>2
<1>4. AddsSent'
  <2>1. ASSUME NEW v \in Worker, NEW c \in Range(wire'[v]), c.op = "add"
        PROVE  /\ fate'[c.task] = "sent"
               /\ \/ c \in Range(wire[v]) /\ fate[c.task] = "sent"
                  \/ v = w /\ fate[c.task] = "new"
    <3>1. CASE c \in Range(wire[v])
      <4>1. c.task \in Task /\ fate[c.task] = "sent"
        BY <1>0, <1>t, <2>1, <3>1 DEF AddsSent, TaskOp
      <4>2. CASE fate'[c.task] # "sent"
        <5>1. /\ \E m \in Range(wire[w]) : m.op = "add" /\ m.task = c.task
              /\ \A d \in Range(wire'[w]) : d.op = "add" => d.task # c.task
          BY <1>0, <1>1, <4>1, <4>2, FateKeeps
        <5>2. v = w
          BY <1>0, <2>1, <3>1, <5>1 DEF AddsSent
        <5> QED BY <2>1, <5>1, <5>2
      <4> QED BY <3>1, <4>1, <4>2
    <3>2. CASE c \notin Range(wire[v])
      BY <1>0, <2>1, <3>2 DEF NewCommands, Arrives, SearchOp, HeldOp
    <3> QED BY <3>1, <3>2
  <2>2. ASSUME NEW v \in Worker, NEW c \in Range(wire'[v]), c.op = "add",
               NEW x \in Worker, NEW d \in Range(wire'[x]), d.op = "add",
               d.task = c.task
        PROVE  x = v
    <3>1. CASE fate[c.task] = "sent"
      <4>1. c \in Range(wire[v]) /\ d \in Range(wire[x])
        BY <2>1, <2>2, <3>1
      <4> QED BY <1>0, <2>2, <4>1 DEF AddsSent
    <3>2. CASE fate[c.task] = "new"
      BY <2>1, <2>2, <3>2
    <3> QED BY <2>1, <2>2, <3>1, <3>2
  <2>3. \A v \in Worker : AddsApart(wire[v])'
    BY DEF Moves, AddsApart
  <2> QED BY <2>1, <2>2, <2>3 DEF AddsSent
<1>5. ASSUME NobodyShutDown' PROVE Untouched' /\ OnceOnly'
  <2>1. NobodyShutDown /\ NoRestore /\ Untouched /\ OnceOnly
    <3>1. NobodyShutDown
      BY <1>5 DEF NobodyShutDown
    <3> QED BY <1>0, <3>1 DEF BInv, NoRestore, ShutdownsRestore, NobodyShutDown
  <2>2. Untouched'
    <3> SUFFICES ASSUME NEW t \in Task, fate'[t] \in {"new", "sent"}
                 PROVE  /\ \A p \in Place : t \notin store'[p]
                        /\ \A v \in Worker :
                             /\ ~(running'[v][t] > 0)
                             /\ \A c \in Range(wire'[v]) : c.op \in SlotOp => c.task # t
                        /\ starts'[t] = 0
      BY DEF Untouched
    <3>1. fate[t] \in {"new", "sent"}
      BY <1>0, <1>1, FateKeeps
    <3>2. /\ \A p \in Place : t \notin store[p]
          /\ \A v \in Worker :
               /\ ~(running[v][t] > 0)
               /\ \A c \in Range(wire[v]) : c.op \in SlotOp => c.task # t
          /\ starts[t] = 0
          /\ "queue" \in Place
      BY <2>1, <3>1 DEF Untouched, Place
    <3>3. ASSUME NEW p \in Place, t \in store'[p] PROVE FALSE
      <4>1. PICK m \in Range(wire[w]) :
              m.task = t /\ m.op \in {"requeue", "bury", "move"}
        BY <1>0, <1>1, <2>1, <3>2, <3>3, ServerKeeps
      <4> QED BY <3>2, <4>1 DEF SlotOp
    <3>4. ~Taken(w, t)
      BY <3>2 DEF Taken
    <3>5. (\A v \in Worker : ~(running'[v][t] > 0)) /\ starts'[t] = 0
      BY <1>0, <3>2, <3>4 DEF NewCalls
    <3>6. ASSUME NEW v \in Worker, NEW c \in Range(wire'[v]), c.op \in SlotOp,
                 c.task = t
          PROVE  FALSE
      <4>1. v = w /\ Arrives(w, c)
        BY <1>0, <3>2, <3>6 DEF NewCommands
      <4>2. ~\E m \in Range(wire[w]) : m.op \in SlotOp /\ m.task = t
        BY <3>2
      <4> QED BY <3>2, <3>6, <4>1, <4>2 DEF Arrives, SlotOp, SearchOp, HeldOp
    <3> QED BY <3>3, <3>5, <3>6
  <2>3. ASSUME NEW t \in Unretried
        PROVE  /\ starts'[t] <= 1
               /\ t \in store'["queue"] =>
                    starts'[t] = 0 /\ t \notin store'["processing"]
    <3>0. t \in Task /\ starts[t] \in Int /\ starts'[t] \in Int
      <4>1. t \in Task /\ starts' \in [Task -> 0 .. MaxStarts]
        BY DEF Unretried, MInv, Data
      <4> QED BY <1>1, <4>1, RedisAssumption
    <3>1. /\ starts[t] <= 1
          /\ t \in store["queue"] => starts[t] = 0 /\ t \notin store["processing"]
      BY <2>1 DEF OnceOnly
    <3>2. \/ starts'[t] = starts[t]
          \/ Taken(w, t) /\ starts'[t] <= starts[t] + 1
      BY <1>0, <3>0 DEF NewCalls
    <3>3. starts'[t] <= 1
      BY <3>0, <3>1, <3>2 DEF Taken
    <3>4. ASSUME t \in store'["queue"]
          PROVE  starts'[t] = 0 /\ t \notin store'["processing"]
      <4>1. starts'[t] = starts[t]
        BY <3>2, <3>4 DEF Taken
      <4>2. starts[t] = 0 /\ t \notin store["processing"]
        <5>1. CASE t \in store["queue"]
          BY <3>1, <5>1
        <5>2. CASE t \notin store["queue"]
          <6>1. "queue" \in Place /\ "processing" \in Place
            BY DEF Place
          <6>2. PICK m \in Range(wire[w]) : m.task = t /\ m.op \in {"add", "requeue"}
            BY <1>0, <1>1, <2>1, <3>0, <3>4, <5>2, <6>1, ServerKeeps
          <6>3. m.op = "add"
            BY <1>0, <6>2 DEF RetriesPutBack
          <6>4. fate[t] = "sent"
            BY <1>0, <6>2, <6>3 DEF AddsSent
          <6> QED BY <2>1, <3>0, <6>1, <6>4 DEF Untouched
        <5> QED BY <5>1, <5>2
      <4>3. t \notin store'["processing"]
        BY <1>0, <1>1, <2>1, <3>0, <3>4, <4>2, ServerKeeps
      <4> QED BY <4>1, <4>2, <4>3
    <3> QED BY <3>3, <3>4
  <2>4. OnceOnly'
    BY <2>3 DEF OnceOnly, Unretried
  <2> QED BY <2>2, <2>4
<1> QED BY <1>2, <1>3, <1>4, <1>5 DEF BInv

(* It is an invariant, for all constants.                                  *)
LEMMA OnceInvariance ==
  /\ Init => BInv
  /\ BInv /\ [Next]_vars => BInv'
<1>1. ASSUME Init PROVE BInv
  <2>1. MInv
    BY <1>1, MetersInit
  <2>2. /\ \A w \in Worker : wire[w] = <<>> /\ Range(wire[w]) = {}
        /\ \A p \in Place : store[p] = {}
        /\ \A w \in Worker, t \in Task : running[w][t] = 0
        /\ \A t \in Task : starts[t] = 0
        /\ "queue" \in Place
    BY <1>1 DEF Init, Range, Place
  <2>3. \A w \in Worker : AddsApart(wire[w])
    BY <2>2 DEF AddsApart
  <2>4. AddsSent /\ RetriesPutBack /\ ShutdownsRestore
    BY <2>2, <2>3 DEF AddsSent, RetriesPutBack, ShutdownsRestore
  <2>5. Untouched
    BY <2>2 DEF Untouched
  <2>6. OnceOnly
    BY <2>2 DEF OnceOnly, Unretried
  <2> QED BY <2>1, <2>4, <2>5, <2>6 DEF BInv
<1>2. ASSUME BInv, [Next]_vars PROVE BInv'
  <2>0. MInv' /\ Types /\ Data /\ AddsSent
    BY <1>2, MetersNext DEF BInv, MInv, Meters
  <2>1. CASE Next
    <3>1. PICK w \in Worker :
            \/ ClientCall(w)
            \/ Serve(w)
            \/ RunImmediate(w)
            \/ \E t \in Task : HandlerSettles(w, t)
            \/ Fail(w)
      BY <2>1 DEF Next
    <3>2. Moves(w) /\ \A v \in Worker : isShutdown[v] => isShutdown'[v]
      BY <2>0, <3>1, NextMoves, ShutdownLasts
    <3> QED BY <1>2, <2>0, <3>2, OnceNext
  <2>2. CASE UNCHANGED vars
    <3>1. UNCHANGED <<store, fate, wire, running, starts, isShutdown>>
      BY <2>2 DEF vars, server, tasks, worker
    <3>2. /\ AddsSent' = AddsSent /\ RetriesPutBack' = RetriesPutBack
          /\ ShutdownsRestore' = ShutdownsRestore
          /\ NobodyShutDown' = NobodyShutDown
          /\ Untouched' = Untouched /\ OnceOnly' = OnceOnly
      BY <3>1 DEF AddsSent, AddsApart, RetriesPutBack, ShutdownsRestore,
                  NobodyShutDown, Untouched, OnceOnly, Unretried
    <3> QED BY <1>2, <2>0, <3>2 DEF BInv
  <2> QED BY <1>2, <2>1, <2>2
<1> QED BY <1>1, <1>2

(* A task that is not to be retried is handled at most once until a worker *)
(* is shut down, for any number of workers and of calls of processNext in  *)
(* each, and whichever commands fail and workers crash.                    *)
THEOREM NobodyHandlesAgain == Spec => []HandledOnce
<1>1. BInv => HandledOnce
  BY DEF BInv, HandledOnce, OnceOnly
<1> QED BY <1>1, OnceInvariance, PTL DEF Spec

------------------------------------------------------------------------------
(* The searches: in which order they look.                                 *)

At == [queue |-> 1, processing |-> 2, dead |-> 3]

(* The commands s will look at place p.                                    *)
LooksAt(s, p) ==
  \E c \in Range(s) : \/ c.op = "count" /\ c.place = p
                      \/ c.op = "find" /\ At[c.place] <= At[p]

(* The commands of one search are the only ones: several are counts of the *)
(* places in order.                                                        *)
Later(c, d) == c.op = "count" /\ d.op = "count" /\ At[c.place] < At[d.place]
InTurn(s) ==
  \A i, j \in DOMAIN s :
    i < j /\ s[i].op \in SearchOp /\ s[j].op \in SearchOp => Later(s[i], s[j])

(* What will look at a place will look at the places after it.             *)
Onward(s) ==
  \A p, q \in Place : LooksAt(s, p) /\ At[p] <= At[q] => LooksAt(s, q)

NoSearch(s) == \A c \in Range(s) : c.op \notin SearchOp

(* Without its first command a connection still searches in turn.          *)
LEMMA TurnTail ==
  ASSUME NEW s \in Seq(Wire), s # <<>>, InTurn(s)
  PROVE  /\ InTurn(Tail(s))
         /\ \A c \in Range(Tail(s)) :
              Head(s).op \in SearchOp /\ c.op \in SearchOp => Later(Head(s), c)
<1> DEFINE q == Tail(s)
<1>1. /\ Len(s) \in Nat /\ Len(s) # 0 /\ DOMAIN s = 1 .. Len(s)
      /\ q \in Seq(Wire) /\ Len(q) = Len(s) - 1 /\ DOMAIN q = 1 .. Len(q)
      /\ \A i \in 1 .. Len(q) : q[i] = s[i + 1]
      /\ Head(s) = s[1]
  BY LenProperties, EmptySeq, HeadTailProperties
<1> HIDE DEF q
<1>2. ASSUME NEW i \in DOMAIN q
      PROVE  i + 1 \in DOMAIN s /\ q[i] = s[i + 1] /\ 1 < i + 1
  BY <1>1
<1>3. ASSUME NEW i \in DOMAIN q, NEW j \in DOMAIN q, i < j,
             q[i].op \in SearchOp, q[j].op \in SearchOp
      PROVE  Later(q[i], q[j])
  <2>1. i + 1 < j + 1
    BY <1>1, <1>3
  <2> QED BY <1>2, <1>3, <2>1 DEF InTurn
<1>4. ASSUME NEW c \in Range(q), Head(s).op \in SearchOp, c.op \in SearchOp
      PROVE  Later(Head(s), c)
  <2>1. PICK i \in DOMAIN q : c = q[i]
    BY <1>4 DEF Range
  <2>2. 1 \in DOMAIN s
    BY <1>1
  <2> QED BY <1>1, <1>2, <1>4, <2>1, <2>2 DEF InTurn
<1> QED BY <1>3, <1>4 DEF InTurn, q

(* And so it does when commands are added, if they do not add a search to  *)
(* another one.                                                            *)
LEMMA TurnAppend ==
  ASSUME NEW s \in Seq(Wire), NEW q \in Seq(Wire), InTurn(s), InTurn(q),
         NoSearch(s) \/ NoSearch(q)
  PROVE  InTurn(s \o q)
<1> DEFINE r == s \o q
           n == Len(s)
<1>1. /\ n \in Nat /\ DOMAIN s = 1 .. n
      /\ Len(q) \in Nat /\ DOMAIN q = 1 .. Len(q)
      /\ r \in Seq(Wire) /\ Len(r) = n + Len(q) /\ DOMAIN r = 1 .. n + Len(q)
      /\ \A i \in 1 .. n + Len(q) : r[i] = IF i <= n THEN s[i] ELSE q[i - n]
  <2>1. r \in Seq(Wire)
    BY ConcatProperties
  <2>2. DOMAIN r = 1 .. Len(r)
    BY <2>1, LenProperties
  <2> QED BY <2>1, <2>2, LenProperties, ConcatProperties
<1> HIDE DEF r, n
<1>2. ASSUME NEW i \in DOMAIN r
      PROVE  \/ i <= n /\ i \in DOMAIN s /\ r[i] = s[i]
             \/ ~(i <= n) /\ i - n \in DOMAIN q /\ r[i] = q[i - n]
  BY <1>1
<1>3. ASSUME NEW i \in DOMAIN r, NEW j \in DOMAIN r, i < j,
             r[i].op \in SearchOp, r[j].op \in SearchOp
      PROVE  Later(r[i], r[j])
  <2>0. i \in Int /\ j \in Int /\ n \in Int
    BY <1>1
  <2>1. CASE j <= n
    <3>1. i <= n
      BY <1>3, <2>0, <2>1
    <3> QED BY <1>2, <1>3, <2>1, <3>1 DEF InTurn
  <2>2. CASE ~(i <= n)
    <3>1. ~(j <= n) /\ i - n < j - n
      BY <1>3, <2>0, <2>2
    <3> QED BY <1>2, <1>3, <2>2, <3>1 DEF InTurn
  <2>3. CASE i <= n /\ ~(j <= n)
    <3>1. r[i] \in Range(s) /\ r[j] \in Range(q)
      BY <1>2, <2>3 DEF Range
    <3> QED BY <1>3, <3>1 DEF NoSearch
  <2> QED BY <2>1, <2>2, <2>3
<1> QED BY <1>3 DEF InTurn, r

(* What looks at the places is the same if the searches are.               *)
LEMMA SameSearches ==
  ASSUME NEW s, NEW r,
         \A c : c.op \in SearchOp => (c \in Range(s) <=> c \in Range(r))
  PROVE  /\ \A p : LooksAt(s, p) <=> LooksAt(r, p)
         /\ Onward(s) => Onward(r)
<1>1. ASSUME NEW p PROVE LooksAt(s, p) <=> LooksAt(r, p)
  BY DEF LooksAt, SearchOp
<1> QED BY <1>1 DEF Onward

(* Commands that are no searches and single commands are in turn.          *)
LEMMA ShortTurn ==
  ASSUME NEW s \in Seq(Wire)
  PROVE  /\ NoSearch(s) => InTurn(s)
         /\ Len(s) <= 1 => InTurn(s)
<1>1. DOMAIN s = 1 .. Len(s) /\ Len(s) \in Nat
  BY LenProperties
<1>2. NoSearch(s) => InTurn(s)
  BY DEF NoSearch, InTurn, Range
<1>3. Len(s) <= 1 => InTurn(s)
  BY <1>1 DEF InTurn
<1> QED BY <1>2, <1>3

(* The places come in this order, and there are no others.                 *)
LEMMA PlacesAre ==
  /\ Place = {"queue", "processing", "dead"}
  /\ At["queue"] = 1 /\ At["processing"] = 2 /\ At["dead"] = 3
  /\ \A p \in Place : At[p] \in 1 .. 3
  /\ \A p, q \in Place : At[p] = At[q] => p = q
BY DEF Place, At

(* A search goes on to the next place, and ends after the last.            *)
LEMMA FindNextIs ==
  ASSUME NEW m \in Wire
  PROVE  \/ FindNext(m) = <<>> /\ At[m.place] = 3
         \/ \E c \in Wire : /\ FindNext(m) = <<c>>
                            /\ c.op = "find" /\ c.task = m.task
                            /\ At[c.place] = At[m.place] + 1
<1>1. m.place \in Place /\ m.task \in Task \cup {None}
  BY DEF Wire, Command
<1>2. PICK at : /\ at \in 1 .. 3 /\ SearchOrder[at] = m.place
                /\ at = CHOOSE i \in 1 .. 3 : SearchOrder[i] = m.place
  <2>1. \E i \in 1 .. 3 : SearchOrder[i] = m.place
    BY <1>1 DEF Place, SearchOrder
  <2> QED BY <2>1
<1>3. at = At[m.place]
  BY <1>2 DEF SearchOrder, At
<1>4. CASE at = 3
  BY <1>2, <1>3, <1>4 DEF FindNext
<1>5. CASE at # 3
  <2> DEFINE p == SearchOrder[at + 1]
             c == Cmd("find", m.task, p)
  <2>1. p \in Place /\ At[p] = at + 1
    BY <1>2, <1>5 DEF Place, SearchOrder, At
  <2>2. FindNext(m) = <<c>>
    BY <1>2, <1>5 DEF FindNext
  <2> HIDE DEF p
  <2>3. c \in Wire /\ c.op = "find" /\ c.task = m.task /\ c.place = p
    BY <1>1, <2>1 DEF Cmd, Wire, Command, CallOp, SearchOp, TaskOp
  <2> QED BY <1>3, <2>1, <2>2, <2>3
<1> QED BY <1>4, <1>5

(* What is sent that is no search leaves the searches as they are.         *)
LEMMA SendTurn ==
  ASSUME Wires, NEW w \in Worker, NEW cmds \in Seq(Wire), Send(w, cmds),
         NoSearch(cmds), InTurn(wire[w]), Onward(wire[w])
  PROVE  /\ InTurn(wire'[w]) /\ Onward(wire'[w])
         /\ \A p : LooksAt(wire[w], p) => LooksAt(wire'[w], p)
<1>1. /\ Range(wire'[w]) = Range(wire[w]) \cup Range(cmds)
      /\ wire[w] \in Seq(Wire) /\ wire'[w] = wire[w] \o cmds
  BY SendRange DEF Send, Wires
<1>2. InTurn(wire'[w])
  BY <1>1, ShortTurn, TurnAppend
<1>3. \A c : c.op \in SearchOp => (c \in Range(wire[w]) <=> c \in Range(wire'[w]))
  BY <1>1 DEF NoSearch
<1>4. /\ \A p : LooksAt(wire[w], p) <=> LooksAt(wire'[w], p)
      /\ Onward(wire[w]) => Onward(wire'[w])
  <2> DEFINE s == wire[w]
             r == wire'[w]
  <2> HIDE DEF s, r
  <2>1. (\A c : c.op \in SearchOp => (c \in Range(s) <=> c \in Range(r))) =>
          /\ \A p : LooksAt(s, p) <=> LooksAt(r, p)
          /\ Onward(s) => Onward(r)
    BY SameSearches
  <2> QED BY <1>3, <2>1 DEF s, r
<1> QED BY <1>2, <1>4

(* So does the answer to a command that is no search and none is sent on.  *)
LEMMA AnswerTurn ==
  ASSUME Wires, NEW w \in Worker, wire[w] # <<>>, NEW cmds \in Seq(Wire),
         wire' = [wire EXCEPT ![w] = Tail(@) \o cmds],
         InTurn(wire[w]), Onward(wire[w]),
         \/ NoSearch(cmds)
         \/ /\ Head(wire[w]).op = "find" /\ Len(cmds) <= 1
            /\ \A c \in Range(cmds) : c.op # "count"
  PROVE  LET m == Head(wire[w]) IN
         /\ InTurn(wire'[w]) /\ Onward(wire'[w])
         /\ m.op \notin {"find", "count"} =>
              \A p : LooksAt(wire[w], p) => LooksAt(wire'[w], p)
         /\ m.op = "count" =>
              \A p : LooksAt(wire[w], p) => p = m.place \/ LooksAt(wire'[w], p)
         /\ m.op = "find" =>
              /\ \A p : LooksAt(wire[w], p) => At[m.place] <= At[p]
              /\ \A c \in Range(wire'[w]) : c.op = "find" => c \in Range(cmds)
<1> DEFINE m == Head(wire[w])
           s == wire[w]
           r == Tail(wire[w])
           n == wire'[w]
<1>1. /\ m \in Wire /\ Range(s) = {m} \cup Range(r)
      /\ Range(n) = Range(r) \cup Range(cmds)
      /\ s \in Seq(Wire) /\ r \in Seq(Wire) /\ n = r \o cmds /\ s # <<>>
  BY AnswerRange, HeadTailProperties DEF Wires
<1>2. /\ InTurn(r)
      /\ \A c \in Range(r) : m.op \in SearchOp /\ c.op \in SearchOp => Later(m, c)
  BY <1>1, TurnTail
<1>3. InTurn(cmds)
  BY ShortTurn
<1>4. /\ InTurn(s) /\ Onward(s)
      /\ \/ NoSearch(cmds)
         \/ m.op = "find" /\ \A c \in Range(cmds) : c.op # "count"
  OBVIOUS
<1>5. SearchOp = {"find", "take", "count"}
  BY DEF SearchOp
<1> HIDE DEF m, s, r, n
<1>6. ASSUME m.op = "find" PROVE NoSearch(r)
  BY <1>2, <1>5, <1>6 DEF NoSearch, Later
<1>7. InTurn(n)
  BY <1>1, <1>2, <1>3, <1>4, <1>6, TurnAppend
<1>8. \A c \in Range(s) \cup Range(n) : c.place \in Place
  <2>1. \A c \in Range(s) \cup Range(n) : c \in Wire
    <3>1. n \in Seq(Wire)
      BY <1>1, ConcatProperties
    <3> QED BY <1>1, <3>1 DEF Range
  <2> QED BY <2>1 DEF Wire, Command
<1>9. CASE m.op \notin {"find", "count"}
  <2>1. NoSearch(cmds)
    BY <1>4, <1>9
  <2>2. ASSUME NEW p, LooksAt(s, p) PROVE LooksAt(n, p)
    BY <1>1, <1>9, <2>2 DEF LooksAt
  <2>3. ASSUME NEW p, LooksAt(n, p) PROVE LooksAt(s, p)
    BY <1>1, <1>5, <2>1, <2>3 DEF LooksAt, NoSearch
  <2>4. Onward(n)
    BY <1>4, <2>2, <2>3 DEF Onward
  <2> QED BY <1>7, <1>9, <2>2, <2>4 DEF m, s, n
<1>10. CASE m.op = "count"
  <2>1. NoSearch(cmds) /\ m.place \in Place
    BY <1>1, <1>4, <1>8, <1>10
  <2>2. ASSUME NEW p, LooksAt(s, p) PROVE p = m.place \/ LooksAt(n, p)
    BY <1>1, <1>10, <2>2 DEF LooksAt
  <2>3. ASSUME NEW p, LooksAt(n, p)
        PROVE  /\ LooksAt(s, p)
               /\ p \in Place => At[m.place] < At[p]
    <3>1. PICK c \in Range(r) : \/ c.op = "count" /\ c.place = p
                                \/ c.op = "find" /\ At[c.place] <= At[p]
      BY <1>1, <1>5, <2>1, <2>3 DEF LooksAt, NoSearch
    <3>2. Later(m, c)
      BY <1>2, <1>5, <1>10, <3>1
    <3> QED BY <1>1, <3>1, <3>2 DEF LooksAt, Later
  <2>4. ASSUME NEW p \in Place, NEW q \in Place, LooksAt(n, p), At[p] <= At[q]
        PROVE  LooksAt(n, q)
    <3>1. LooksAt(s, q)
      BY <1>4, <2>3, <2>4 DEF Onward
    <3>2. q # m.place
      <4>1. At[m.place] < At[p] /\ At[p] <= At[q]
        BY <2>3, <2>4
      <4>2. At[m.place] \in 1 .. 3 /\ At[p] \in 1 .. 3 /\ At[q] \in 1 .. 3
        BY <2>1, PlacesAre
      <4> QED BY <4>1, <4>2
    <3> QED BY <2>2, <3>1, <3>2
  <2> QED BY <1>7, <1>10, <2>2, <2>4 DEF m, s, n, Onward
<1>11. CASE m.op = "find"
  <2>1. NoSearch(r)
    BY <1>6, <1>11
  <2>2. ASSUME NEW p, LooksAt(s, p) PROVE At[m.place] <= At[p]
    BY <1>1, <1>5, <1>11, <2>1, <2>2 DEF LooksAt, NoSearch
  <2>3. \A c \in Range(n) : c.op \in SearchOp => c \in Range(cmds)
    BY <1>1, <2>1 DEF NoSearch
  <2>4. Onward(n)
    <3> SUFFICES ASSUME NEW p \in Place, NEW q \in Place, LooksAt(n, p),
                        At[p] <= At[q]
                 PROVE  LooksAt(n, q)
      BY DEF Onward
    <3>1. PICK c \in Range(cmds) : \/ c.op = "count" /\ c.place = p
                                   \/ c.op = "find" /\ At[c.place] <= At[p]
      BY <1>5, <2>3 DEF LooksAt
    <3>2. c \in Range(n) /\ c.place \in Place
      BY <1>1, <1>8, <3>1
    <3>3. At[c.place] \in 1 .. 3 /\ At[p] \in 1 .. 3 /\ At[q] \in 1 .. 3
      BY <3>2, PlacesAre
    <3>4. c.op = "find"
      BY <1>4, <1>5, <3>1 DEF NoSearch
    <3> QED BY <3>1, <3>2, <3>3, <3>4 DEF LooksAt
  <2> QED BY <1>5, <1>7, <1>11, <2>2, <2>3, <2>4 DEF m, s, n
<1> QED BY <1>9, <1>10, <1>11

------------------------------------------------------------------------------
(* What a step does to the searches.                                       *)

Orderly == \A v \in Worker : InTurn(wire[v]) /\ Onward(wire[v])

(* A crashed worker's searches look for nothing any more.                  *)
DeadSeekNothing == \A v \in Worker : alive[v] \/ unseen[v] = {}

(* The search for a task is for no other.                                  *)
SeeksOne ==
  \A v \in Worker : \A c \in Range(wire[v]) :
    c.op = "find" /\ c.task \in Task => unseen[v] \subseteq {c.task}

(* The server does nothing to the tasks, or what it takes from the searches*)
(* when it executes a command is no longer their concern.                  *)
Works(w) ==
  \/ store' = store
  \/ \E m \in Range(wire[w]) :
       /\ m \in Wire /\ store' = StoreAfter(w, m)
       /\ \A v \in Worker : unseen'[v] \subseteq unseen[v] \ Excused(w, m)

(* A search of w begins: it will look everywhere.                          *)
Starts(w) ==
  /\ store' = store
  /\ \A v \in Worker \ {w} : wire'[v] = wire[v] /\ unseen'[v] = unseen[v]
  /\ \A p \in Place : LooksAt(wire'[w], p)
  /\ \A t \in unseen'[w] : \E p \in Place : t \in store[p]
  /\ \A c \in Range(wire'[w]) :
       c.op = "find" /\ c.task \in Task => unseen'[w] \subseteq {c.task}

(* A search that is done with a place has seen what is there.              *)
Continues ==
  \A v \in Worker :
    /\ unseen'[v] \subseteq unseen[v]
    /\ \A p \in Place : LooksAt(wire[v], p) =>
         LooksAt(wire'[v], p) \/ unseen'[v] \cap store[p] = {}
    /\ \A c \in Range(wire'[v]) : c.op = "find" /\ c.task \in Task =>
         \E m \in Range(wire[v]) : m.op = "find" /\ m.task = c.task

Searching(w) ==
  /\ Orderly' /\ DeadSeekNothing'
  /\ Works(w)
  /\ Starts(w) \/ Continues

(* A step that sends no search.                                            *)
LEMMA SendSearches ==
  ASSUME Wires, Orderly, DeadSeekNothing, NEW w \in Worker,
         NEW cmds \in Seq(Wire), Send(w, cmds), NoSearch(cmds),
         UNCHANGED <<store, unseen, alive>>
  PROVE  Searching(w)
<1>1. /\ Range(wire'[w]) = Range(wire[w]) \cup Range(cmds)
      /\ \A v \in Worker \ {w} : wire'[v] = wire[v]
  BY SendRange
<1>2. /\ InTurn(wire'[w]) /\ Onward(wire'[w])
      /\ \A p : LooksAt(wire[w], p) => LooksAt(wire'[w], p)
  BY SendTurn DEF Orderly
<1>3. Orderly' /\ DeadSeekNothing'
  BY <1>1, <1>2 DEF Orderly, DeadSeekNothing
<1>4. ASSUME NEW v \in Worker
      PROVE  /\ \A p : LooksAt(wire[v], p) => LooksAt(wire'[v], p)
             /\ \A c \in Range(wire'[v]) : c.op = "find" => c \in Range(wire[v])
  BY <1>1, <1>2 DEF NoSearch, SearchOp
<1>5. Continues
  BY <1>4 DEF Continues
<1> QED BY <1>3, <1>5 DEF Searching, Works

(* A step that answers a command, or lets it fail.                         *)
LEMMA AnswerSearches ==
  ASSUME Types, Orderly, DeadSeekNothing, NEW w \in Worker, wire[w] # <<>>,
         NEW cmds \in Seq(Wire), wire' = [wire EXCEPT ![w] = Tail(@) \o cmds],
         alive' = alive, Works(w),
         \A v \in Worker : unseen'[v] \subseteq unseen[v],
         LET m == Head(wire[w]) IN
         /\ \/ NoSearch(cmds)
            \/ /\ m.op = "find" /\ Len(cmds) <= 1
               /\ \A c \in Range(cmds) : c.op # "count" /\ c.task = m.task
         /\ m.op = "count" => unseen'[w] \cap store[m.place] = {}
         /\ m.op = "find" =>
              \/ unseen'[w] = {}
              \/ cmds = FindNext(m) /\ unseen'[w] \cap store[m.place] = {}
  PROVE  Searching(w)
<1> DEFINE m == Head(wire[w])
<1>0. Wires
  BY DEF Types
<1>1. /\ Range(wire[w]) = {m} \cup Range(Tail(wire[w]))
      /\ Range(wire'[w]) = Range(Tail(wire[w])) \cup Range(cmds)
      /\ \A v \in Worker \ {w} : wire'[v] = wire[v]
      /\ m \in Wire
  BY <1>0, AnswerRange
<1>2. /\ InTurn(wire'[w]) /\ Onward(wire'[w])
      /\ m.op \notin {"find", "count"} =>
           \A p : LooksAt(wire[w], p) => LooksAt(wire'[w], p)
      /\ m.op = "count" =>
           \A p : LooksAt(wire[w], p) => p = m.place \/ LooksAt(wire'[w], p)
      /\ m.op = "find" =>
           /\ \A p : LooksAt(wire[w], p) => At[m.place] <= At[p]
           /\ \A c \in Range(wire'[w]) : c.op = "find" => c \in Range(cmds)
  <2>1. InTurn(wire[w]) /\ Onward(wire[w])
    BY DEF Orderly
  <2>2. \/ NoSearch(cmds)
        \/ /\ Head(wire[w]).op = "find" /\ Len(cmds) <= 1
           /\ \A c \in Range(cmds) : c.op # "count"
    OBVIOUS
  <2> QED BY <1>0, <2>1, <2>2, AnswerTurn
<1>3. Orderly' /\ DeadSeekNothing'
  BY <1>1, <1>2 DEF Orderly, DeadSeekNothing
<1>4. /\ \/ NoSearch(cmds)
         \/ m.op = "find" /\ \A c \in Range(cmds) : c.task = m.task
      /\ m.op = "count" => unseen'[w] \cap store[m.place] = {}
      /\ m.op = "find" =>
           \/ unseen'[w] = {}
           \/ cmds = FindNext(m) /\ unseen'[w] \cap store[m.place] = {}
  OBVIOUS
<1> HIDE DEF m
<1>5. ASSUME NEW c \in Range(wire'[w]), c.op = "find", c.task \in Task
      PROVE  \E d \in Range(wire[w]) : d.op = "find" /\ d.task = c.task
  BY <1>1, <1>4, <1>5 DEF NoSearch, SearchOp
<1>6. ASSUME NEW p \in Place, LooksAt(wire[w], p)
      PROVE  LooksAt(wire'[w], p) \/ unseen'[w] \cap store[p] = {}
  <2>1. CASE m.op # "find"
    BY <1>2, <1>4, <1>6, <2>1
  <2>2. CASE m.op = "find"
    <3>1. CASE unseen'[w] = {}
      BY <3>1
    <3>2. CASE cmds = FindNext(m) /\ unseen'[w] \cap store[m.place] = {}
      <4>1. /\ At[m.place] <= At[p] /\ m.place \in Place
            /\ At[m.place] \in 1 .. 3 /\ At[p] \in 1 .. 3
        BY <1>1, <1>2, <1>6, <2>2, PlacesAre DEF Wire, Command
      <4>2. CASE At[m.place] = At[p]
        <5>1. p = m.place
          BY <4>1, <4>2, PlacesAre
        <5> QED BY <3>2, <5>1
      <4>3. CASE At[m.place] # At[p]
        <5>1. At[m.place] + 1 <= At[p] /\ At[m.place] # 3
          BY <4>1, <4>3
        <5>2. PICK c \in Wire : /\ cmds = <<c>> /\ c.op = "find"
                                /\ At[c.place] = At[m.place] + 1
          BY <1>1, <3>2, <5>1, FindNextIs
        <5>3. c \in Range(wire'[w])
          <6>1. Range(<<c>>) = {c}
            BY DEF Range
          <6>2. c \in Range(cmds)
            BY <5>2, <6>1
          <6> QED BY <1>1, <6>2
        <5> QED BY <5>1, <5>2, <5>3 DEF LooksAt
      <4> QED BY <4>2, <4>3
    <3> QED BY <1>4, <2>2, <3>1, <3>2
  <2> QED BY <2>1, <2>2
<1>7. Continues
  BY <1>1, <1>5, <1>6 DEF Continues
<1> QED BY <1>3, <1>7 DEF Searching

(* A call that searches.                                                   *)
LEMMA LooksSearches ==
  ASSUME Types, Data, Orderly, DeadSeekNothing, NEW w \in Worker,
         NEW cmds \in Seq(Wire), NEW sought, Looks(w, cmds, sought),
         InTurn(cmds), \A p \in Place : LooksAt(cmds, p),
         \A c \in Range(cmds) :
           c.op = "find" /\ c.task \in Task => sought = {c.task}
  PROVE  Searching(w)
<1>0. Wires /\ Send(w, cmds) /\ wire[w] \in Seq(Wire)
  BY DEF Types, Wires, Looks
<1>1. /\ Range(wire'[w]) = Range(wire[w]) \cup Range(cmds)
      /\ \A v \in Worker \ {w} : wire'[v] = wire[v]
      /\ wire'[w] = wire[w] \o cmds
  BY <1>0, SendRange DEF Send, Wires
<1>2. NoSearch(wire[w])
  <2>1. CountIn(wire[w], SearchOp) = 0
    BY <1>0, SentType DEF Looks
  <2> QED BY <1>0, <2>1, CountFinds DEF NoSearch
<1>3. /\ store' = store /\ alive' = alive /\ alive[w]
      /\ unseen'[w] = sought \cap UNION Range(store)
      /\ \A v \in Worker \ {w} : unseen'[v] = unseen[v]
  BY DEF Looks, Data, worker
<1>4. ASSUME NEW p \in Place PROVE LooksAt(wire'[w], p)
  BY <1>1 DEF LooksAt
<1>5. InTurn(wire'[w]) /\ Onward(wire'[w])
  <2>1. InTurn(wire'[w])
    BY <1>0, <1>1, <1>2, TurnAppend DEF Orderly
  <2> QED BY <1>4, <2>1 DEF Onward
<1>6. Orderly' /\ DeadSeekNothing'
  BY <1>1, <1>3, <1>5 DEF Orderly, DeadSeekNothing
<1>7. Starts(w)
  <2>1. ASSUME NEW t \in unseen'[w] PROVE \E p \in Place : t \in store[p]
    <3>1. t \in UNION Range(store)
      BY <1>3
    <3> QED BY <3>1 DEF Range, Types, Stores
  <2>2. ASSUME NEW c \in Range(wire'[w]), c.op = "find", c.task \in Task
        PROVE  unseen'[w] \subseteq {c.task}
    <3>1. CASE c \in Range(wire[w])
      BY <1>2, <2>2, <3>1 DEF NoSearch, SearchOp
    <3>2. CASE c \in Range(cmds)
      BY <1>3, <2>2, <3>2
    <3> QED BY <1>1, <3>1, <3>2
  <2> QED BY <1>1, <1>3, <1>4, <2>1, <2>2 DEF Starts
<1> QED BY <1>3, <1>6, <1>7 DEF Searching, Works

(* Client calls, callbacks and handlers that settle.                       *)
LEMMA CallSearches ==
  ASSUME Types, Data, Orderly, DeadSeekNothing, NEW w \in Worker,
         \/ ClientCall(w) \/ RunImmediate(w)
         \/ \E t \in Task : HandlerSettles(w, t)
  PROVE  Searching(w)
<1>0. Wires
  BY DEF Types
<1>1. ASSUME NEW cmds \in Seq(Wire), Send(w, cmds),
             \A c \in Range(cmds) : c.op \in ChainOp \cup {"add", "wipe", "list"},
             UNCHANGED <<store, unseen, alive>>
      PROVE  Searching(w)
  <2>1. NoSearch(cmds)
    BY <1>1 DEF NoSearch, SearchOp, ChainOp
  <2> QED BY <1>0, <1>1, <2>1, SendSearches
<1>2. ASSUME NEW t \in Task, Add(w, t) \/ HandlerSettles(w, t)
      PROVE  Searching(w)
  <2>1. PICK c \in Wire : /\ c.op \in {"add"} \cup HeldOp
                          /\ <<c>> \in Seq(Wire) /\ Range(<<c>>) = {c}
                          /\ Send(w, <<c>>)
    BY <1>2, CallSends
  <2>2. UNCHANGED <<store, unseen, alive>>
    BY <1>2 DEF Add, HandlerSettles, HandlerResolves, HandlerRejects, server,
                worker
  <2> DEFINE s == <<c>>
  <2>3. s \in Seq(Wire) /\ Range(s) = {c} /\ Send(w, s)
    BY <2>1
  <2>4. \A d \in Range(s) : d.op \in ChainOp \cup {"add"}
    BY <2>1, <2>3 DEF HeldOp, ChainOp
  <2> HIDE DEF s
  <2> QED BY <1>1, <2>2, <2>3, <2>4
<1>3. ASSUME Process(w) \/ Resume(w) \/ RunImmediate(w) PROVE Searching(w)
  <2>1. PICK cmds \in Seq(Wire) :
          Send(w, cmds) /\ \A c \in Range(cmds) : c.op = "poll"
    BY <1>3, CallSends
  <2>2. UNCHANGED <<store, unseen, alive>>
    BY <1>3 DEF Process, Resume, RunImmediate, server, worker
  <2> QED BY <1>1, <2>1, <2>2 DEF ChainOp
<1>4. ASSUME NEW op \in {"wipe", "list"}, Asks(w, op, None) PROVE Searching(w)
  <2>1. PICK cmds \in Seq(Wire) :
          Send(w, cmds) /\ \A c \in Range(cmds) : c.op = op
    BY <1>4, CallSends
  <2>2. UNCHANGED <<store, unseen, alive>>
    BY <1>4 DEF Asks, Clear, Shutdown, server, worker
  <2> QED BY <1>1, <2>1, <2>2
<1>5. ASSUME Pause(w) PROVE Searching(w)
  <2>1. UNCHANGED <<store, unseen, alive, wire>>
    BY <1>5 DEF Pause, server
  <2>2. Orderly' /\ DeadSeekNothing' /\ Continues
    BY <2>1 DEF Orderly, DeadSeekNothing, Continues
  <2> QED BY <2>1, <2>2 DEF Searching, Works
<1>6. ASSUME NEW t \in Task \cup {None}, NEW sought,
             Looks(w, <<Cmd("find", t, "queue")>>, sought),
             t \in Task => sought = {t}
      PROVE  Searching(w)
  <2> DEFINE c == Cmd("find", t, "queue")
             s == <<c>>
  <2>1. c \in Wire /\ c.op = "find" /\ c.task = t /\ c.place = "queue"
    BY DEF Cmd, Wire, Command, CallOp, SearchOp, TaskOp, Place
  <2>2. s \in Seq(Wire) /\ Len(s) <= 1 /\ Looks(w, s, sought)
    BY <1>6, <2>1
  <2>3. Range(s) = {c}
    BY DEF Range
  <2> HIDE DEF s, c
  <2>4. InTurn(s)
    BY <2>2, ShortTurn
  <2>5. \A p \in Place : LooksAt(s, p)
    BY <2>1, <2>3, PlacesAre DEF LooksAt
  <2> QED BY <1>6, <2>1, <2>2, <2>3, <2>4, <2>5, LooksSearches
<1>7. ASSUME GetStatus(w) PROVE Searching(w)
  <2> DEFINE a == Cmd("count", None, "queue")
             b == Cmd("count", None, "processing")
             d == Cmd("count", None, "dead")
             s == <<a, b, d>>
  <2>1. [i \in 1 .. 3 |-> Cmd("count", None, SearchOrder[i])] = s
    BY DEF SearchOrder
  <2>2. Looks(w, s, Task)
    BY <1>7, <2>1 DEF GetStatus
  <2>3. /\ a \in Wire /\ a.op = "count" /\ a.place = "queue"
        /\ b \in Wire /\ b.op = "count" /\ b.place = "processing"
        /\ d \in Wire /\ d.op = "count" /\ d.place = "dead"
    BY DEF Cmd, Wire, Command, CallOp, SearchOp, TaskOp, Place
  <2> HIDE DEF a, b, d
  <2>4. /\ s \in Seq(Wire) /\ DOMAIN s = 1 .. 3
        /\ s[1] = a /\ s[2] = b /\ s[3] = d
    BY <2>3
  <2> HIDE DEF s
  <2>5. Range(s) = {a, b, d}
    BY <2>4 DEF Range
  <2>6. InTurn(s)
    BY <2>3, <2>4, PlacesAre DEF InTurn, Later
  <2>7. \A p \in Place : LooksAt(s, p)
    BY <2>3, <2>5, PlacesAre DEF LooksAt
  <2> QED BY <2>2, <2>3, <2>4, <2>5, <2>6, <2>7, LooksSearches
<1>8. ASSUME \/ \E t \in Task : RemoveTask(w, t)
             \/ GetTasks(w)
      PROVE  Searching(w)
  <2>1. None \notin Task
    BY RedisAssumption
  <2> QED BY <1>6, <1>8, <2>1 DEF RemoveTask, GetTasks
<1>9. ASSUME Clear(w) \/ Shutdown(w) PROVE Searching(w)
  BY <1>4, <1>9 DEF Asks
<1> QED BY <1>2, <1>3, <1>5, <1>7, <1>8, <1>9 DEF ClientCall

(* The replies.                                                            *)
LEMMA ServeSearches ==
  ASSUME Types, Data, Orderly, DeadSeekNothing, SeeksOne,
         NEW w \in Worker, Serve(w)
  PROVE  Searching(w)
<1> DEFINE m == Head(wire[w])
<1>1. wire[w] # <<>> /\ m \in Wire /\ Wires /\ Stores /\ alive' = alive
  <2>1. alive' = alive
    BY DEF Serve, AddReply, FindReply, LastReply, ListReply,
           RestoreReply, PollFinds, PollFindsNothing, MoveReply,
           MoveReplyLost, RequeueOrBuryReply, AckOrCleanReply, worker
  <2> QED BY <2>1, ServeSends DEF Types
<1>2. m \in Range(wire[w])
  BY <1>1, AnswerRange, HeadFirst, LenProperties, EmptySeq DEF Wires, Range
<1>3. ASSUME NEW cmds, Answer(w, cmds)
      PROVE  /\ wire' = [wire EXCEPT ![w] = Tail(@) \o cmds]
             /\ store' = StoreAfter(w, m)
             /\ \A v \in Worker : unseen'[v] \subseteq unseen[v] \ Excused(w, m)
             /\ unseen'[w] \cap Seen(m) = {} /\ Works(w)
  BY <1>1, <1>2, <1>3 DEF Answer, Executes, UnseenAfter, Works
<1>4. m.op \in {"find", "count"} => Seen(m) = store[m.place]
  BY DEF Seen
<1> HIDE DEF m
<1>5. CASE m.op # "find"
  <2>1. PICK cmds \in Seq(Wire) :
          Answer(w, cmds) /\ \A c \in Range(cmds) : Follows(w, m, c)
    BY ServeSends DEF m
  <2>2. NoSearch(cmds)
    <3> SUFFICES ASSUME NEW c \in Range(cmds) PROVE c.op \notin SearchOp
      BY DEF NoSearch
    <3>1. Follows(w, m, c)
      BY <2>1
    <3>2. CASE m.op = "move"
      <4>1. m.task \in Task /\ c = FailureCommand(m.task)
        BY <1>1, <3>1, <3>2 DEF Follows, Wire, TaskOp
      <4> QED BY <4>1, FailureIs DEF SearchOp
    <3>3. CASE m.op # "move"
      BY <1>5, <3>1, <3>3 DEF Follows, SearchOp
    <3> QED BY <3>2, <3>3
  <2>3. m.op = "count" => unseen'[w] \cap store[m.place] = {}
    BY <1>3, <1>4, <2>1
  <2> QED BY <1>1, <1>3, <1>5, <2>1, <2>2, <2>3, AnswerSearches DEF m
<1>6. CASE m.op = "find"
  <2>1. FindReply(w)
    BY <1>6 DEF m, Serve, AddReply, FindReply, LastReply, ListReply,
                RestoreReply, PollFinds, PollFindsNothing, MoveReply,
                MoveReplyLost, RequeueOrBuryReply, AckOrCleanReply, Served
  <2>2. CASE m.task \in store[m.place]
    <3> DEFINE c == Cmd("take", m.task, m.place)
               s == <<c>>
    <3>1. c \in Wire /\ c.op = "take" /\ c.task = m.task
      BY <1>1, <2>2, SearchCommands DEF Cmd
    <3>2. Answer(w, s)
      BY <2>1, <2>2 DEF FindReply, m
    <3> HIDE DEF c
    <3>3. s \in Seq(Wire) /\ Len(s) <= 1 /\ Range(s) = {c}
      BY <3>1 DEF Range
    <3> HIDE DEF s
    <3>4. unseen'[w] = {}
      <4>1. m.task \in Task
        BY <1>1, <2>2 DEF Stores, Wire, Command
      <4>2. unseen[w] \subseteq {m.task}
        BY <1>2, <1>6, <4>1 DEF SeeksOne
      <4> QED BY <1>3, <1>4, <1>6, <2>2, <3>2, <4>2
    <3> QED BY <1>1, <1>3, <1>6, <3>1, <3>2, <3>3, <3>4, AnswerSearches DEF m
  <2>3. CASE m.task \notin store[m.place]
    <3> DEFINE s == FindNext(m)
    <3>1. Answer(w, s)
      BY <2>1, <2>3 DEF FindReply, m
    <3>2. /\ s \in Seq(Wire) /\ Len(s) <= 1
          /\ \A c \in Range(s) : c.op # "count" /\ c.task = m.task
      <4>1. CASE s = <<>>
        BY <4>1 DEF Range
      <4>2. ASSUME NEW c \in Wire, s = <<c>>, c.op = "find", c.task = m.task
            PROVE  /\ s \in Seq(Wire) /\ Len(s) <= 1
                   /\ \A d \in Range(s) : d.op # "count" /\ d.task = m.task
        <5>1. <<c>> \in Seq(Wire) /\ Len(<<c>>) <= 1 /\ Range(<<c>>) = {c}
          BY DEF Range
        <5> HIDE DEF s
        <5> QED BY <4>2, <5>1
      <4> QED BY <1>1, <4>1, <4>2, FindNextIs
    <3>3. unseen'[w] \cap store[m.place] = {}
      BY <1>3, <1>4, <1>6, <3>1
    <3> QED BY <1>1, <1>3, <1>6, <3>1, <3>2, <3>3, AnswerSearches DEF m
  <2> QED BY <2>2, <2>3
<1> QED BY <1>5, <1>6

(* Failures.                                                               *)
LEMMA FailSearches ==
  ASSUME Types, Data, Orderly, DeadSeekNothing, NEW w \in Worker, Fail(w)
  PROVE  Searching(w)
<1> DEFINE m == Head(wire[w])
<1>0. Wires /\ <<>> \in Seq(Wire) /\ NoSearch(<<>>) /\ alive \in [Worker -> BOOLEAN]
  BY DEF Types, NoSearch, Range
<1>1. ASSUME wire[w] # <<>>
      PROVE  m \in Wire /\ m \in Range(wire[w])
  BY <1>0, <1>1, AnswerRange, HeadFirst, LenProperties, EmptySeq DEF Wires, Range
<1>2. ASSUME wire[w] # <<>>, NEW cmds \in Seq(Wire), NoSearch(cmds),
             wire' = [wire EXCEPT ![w] = Tail(@) \o cmds], alive' = alive,
             Works(w), \A v \in Worker : unseen'[v] \subseteq unseen[v],
             m.op \in SearchOp => unseen'[w] = {}
      PROVE  Searching(w)
  BY <1>2, AnswerSearches DEF SearchOp
<1>3. ASSUME store' = StoreAfter(w, m), wire[w] # <<>>,
             \A v \in Worker : unseen'[v] \subseteq UnseenAfter(w, m)[v]
      PROVE  Works(w) /\ \A v \in Worker : unseen'[v] \subseteq unseen[v]
  <2>1. \A v \in Worker : UnseenAfter(w, m)[v] \subseteq unseen[v] \ Excused(w, m)
    BY DEF UnseenAfter
  <2> HIDE DEF m
  <2> QED BY <1>1, <1>3, <2>1 DEF Works
<1>4. CASE CommandFails(w)
  <2> DEFINE given(u) == IF m.op \in SearchOp THEN [u EXCEPT ![w] = {}] ELSE u
  <2>1. /\ wire[w] # <<>> /\ alive' = alive
        /\ \/ store' = StoreAfter(w, m) /\ unseen' = given(UnseenAfter(w, m))
           \/ store' = store /\ unseen' = given(unseen)
        /\ \/ wire' = [wire EXCEPT ![w] = Tail(@) \o <<>>]
           \/ /\ m.op \in {"move", "ack"}
              /\ wire' = [wire EXCEPT ![w] = Tail(@) \o <<FailureCommand(m.task)>>]
    BY <1>4 DEF CommandFails, worker
  <2>2. /\ m \in Wire /\ unseen \in [Worker -> SUBSET Task]
        /\ UnseenAfter(w, m) \in [Worker -> SUBSET Task]
    BY <1>1, <2>1, ServerTyped DEF Data
  <2>3. ASSUME NEW u \in [Worker -> SUBSET Task], unseen' = given(u)
        PROVE  /\ m.op \in SearchOp => unseen'[w] = {}
               /\ \A v \in Worker : unseen'[v] \subseteq u[v]
    BY <2>3
  <2> HIDE DEF given
  <2>4. m.op \in SearchOp => unseen'[w] = {}
    BY <2>1, <2>2, <2>3
  <2>5. Works(w) /\ \A v \in Worker : unseen'[v] \subseteq unseen[v]
    <3>1. CASE store' = StoreAfter(w, m) /\ unseen' = given(UnseenAfter(w, m))
      BY <1>3, <2>1, <2>2, <2>3, <3>1
    <3>2. CASE store' = store /\ unseen' = given(unseen)
      BY <2>2, <2>3, <3>2 DEF Works
    <3> QED BY <2>1, <3>1, <3>2
  <2> HIDE DEF m
  <2>6. CASE wire' = [wire EXCEPT ![w] = Tail(@) \o <<>>]
    <3> DEFINE s == <<>>
    <3>1. /\ s \in Seq(Wire) /\ NoSearch(s)
          /\ wire' = [wire EXCEPT ![w] = Tail(@) \o s]
      BY <1>0, <2>6
    <3> HIDE DEF s
    <3> QED BY <1>2, <2>1, <2>4, <2>5, <3>1
  <2>7. CASE /\ m.op \in {"move", "ack"}
             /\ wire' = [wire EXCEPT ![w] = Tail(@) \o <<FailureCommand(m.task)>>]
    <3> DEFINE c == FailureCommand(m.task)
               s == <<c>>
    <3>1. m.task \in Task
      BY <2>2, <2>7 DEF Wire, TaskOp
    <3>2. c \in Wire /\ c.op \in {"requeue", "bury"}
      BY <3>1, FailureIs
    <3>3. wire' = [wire EXCEPT ![w] = Tail(@) \o s]
      BY <2>7
    <3> HIDE DEF c
    <3>4. s \in Seq(Wire) /\ Range(s) = {c}
      BY <3>2 DEF Range
    <3> HIDE DEF s
    <3>5. NoSearch(s)
      BY <3>2, <3>4 DEF NoSearch, SearchOp
    <3> QED BY <1>2, <2>1, <2>4, <2>5, <3>3, <3>4, <3>5
  <2> QED BY <2>1, <2>6, <2>7
<1>5. CASE ServeCrashed(w)
  <2> DEFINE s == <<>>
  <2>1. /\ wire[w] # <<>> /\ alive' = alive /\ ~alive[w]
        /\ store' = StoreAfter(w, m) /\ unseen' = UnseenAfter(w, m)
        /\ wire' = [wire EXCEPT ![w] = Tail(@)]
    BY <1>5 DEF ServeCrashed, Executes, worker
  <2>2. Tail(wire[w]) \o <<>> = Tail(wire[w])
    BY <1>0, <2>1, HeadTailProperties, ConcatEmptySeq DEF Wires
  <2>3. /\ s \in Seq(Wire) /\ NoSearch(s)
        /\ wire' = [wire EXCEPT ![w] = Tail(@) \o s]
    BY <1>0, <2>1, <2>2
  <2> HIDE DEF s, m
  <2>4. Works(w) /\ \A v \in Worker : unseen'[v] \subseteq unseen[v]
    BY <1>3, <2>1
  <2>5. unseen'[w] = {}
    BY <2>1, <2>4 DEF DeadSeekNothing
  <2> QED BY <1>2, <2>1, <2>3, <2>4, <2>5
<1>6. CASE Crash(w)
  <2>1. /\ UNCHANGED <<store, wire>> /\ alive' = [alive EXCEPT ![w] = FALSE]
        /\ unseen' = [unseen EXCEPT ![w] = {}]
    BY <1>6 DEF Crash
  <2>2. \A v \in Worker : unseen'[v] = IF v = w THEN {} ELSE unseen[v]
    BY <2>1 DEF Data
  <2>3. Orderly' /\ DeadSeekNothing'
    BY <1>0, <2>1, <2>2 DEF Orderly, DeadSeekNothing
  <2>4. Continues
    BY <2>1, <2>2 DEF Continues
  <2> QED BY <2>1, <2>3, <2>4 DEF Searching, Works
<1>7. CASE Disconnect(w)
  <2>1. /\ UNCHANGED <<store, unseen, alive>> /\ ~alive[w]
        /\ wire' = [wire EXCEPT ![w] = <<>>]
    BY <1>7 DEF Disconnect, server, worker
  <2>2. /\ \A v \in Worker \ {w} : wire'[v] = wire[v]
        /\ wire'[w] = <<>> /\ Range(wire'[w]) = {}
    BY <1>0, <2>1 DEF Wires, Range
  <2>3. InTurn(wire'[w]) /\ Onward(wire'[w])
    BY <2>2 DEF InTurn, Onward, LooksAt
  <2>4. Orderly' /\ DeadSeekNothing'
    BY <2>1, <2>2, <2>3 DEF Orderly, DeadSeekNothing
  <2>5. unseen'[w] = {}
    BY <2>1 DEF DeadSeekNothing
  <2>6. Continues
    BY <2>1, <2>2, <2>5 DEF Continues
  <2> QED BY <2>1, <2>4, <2>6 DEF Searching, Works
<1> QED BY <1>4, <1>5, <1>6, <1>7 DEF Fail

(* Every step goes on with the searches so.                                *)
LEMMA NextSearches ==
  ASSUME Types, Data, Orderly, DeadSeekNothing, SeeksOne, NEW w \in Worker,
         \/ ClientCall(w)
         \/ Serve(w)
         \/ RunImmediate(w)
         \/ \E t \in Task : HandlerSettles(w, t)
         \/ Fail(w)
  PROVE  Searching(w)
BY CallSearches, ServeSearches, FailSearches

------------------------------------------------------------------------------
(* The searches find every task that is not to be retried.                 *)

(* A search of v will come across task t at one of the places.             *)
Ahead(v, t) == \E p \in Place : LooksAt(wire[v], p) /\ t \in store[p]

(* What a search has yet to come across is where it will look.             *)
StillAhead == \A v \in Worker : \A t \in unseen[v] \cap Unretried : Ahead(v, t)

QInv ==
  /\ BInv
  /\ Orderly /\ DeadSeekNothing /\ SeeksOne
  /\ NobodyShutDown => StillAhead

(* A task that a search looks for leaves a place only for the next one, or *)
(* the processing list when it is elsewhere.                               *)
LEMMA SoughtStays ==
  ASSUME Types, Data, NoRestore, NEW w \in Worker, Works(w), NEW v \in Worker,
         NEW t \in Task, t \in unseen'[v], NEW p \in Place, t \in store[p]
  PROVE  \/ t \in store'[p]
         \/ p = "queue" /\ t \in store'["processing"]
         \/ /\ p = "processing"
            /\ \E q \in {"queue", "dead"} : t \in store[q] /\ t \in store'[q]
<1>0. store \in [Place -> SUBSET Task]
  BY DEF Types, Stores
<1>1. CASE store' = store
  BY <1>1
<1>2. CASE store' # store
  <2>1. PICK m \in Range(wire[w]) :
          /\ m \in Wire /\ store' = StoreAfter(w, m)
          /\ \A x \in Worker : unseen'[x] \subseteq unseen[x] \ Excused(w, m)
    BY <1>2 DEF Works
  <2>2. /\ t \notin Excused(w, m)
        /\ m.op \in ChainOp \cup CallOp /\ m.op \notin {"list", "restore"}
        /\ m.op \in TaskOp => m.task \in Task /\ m.place \in PlacesFor(m.op)
        /\ m.place \in Place
    BY <2>1 DEF NoRestore, Wire, Command
  <2>3. CASE m.op \in {"add", "requeue", "bury"}
    <3>1. store' = [store EXCEPT ![m.place] = @ \cup {m.task}]
      BY <2>1, <2>3 DEF StoreAfter, With
    <3> QED BY <1>0, <2>2, <3>1
  <2>4. CASE m.op = "move"
    <3>1. store' = [store EXCEPT !["queue"] = @ \ {m.task},
                                 !["processing"] = @ \cup {m.task}]
      BY <2>1, <2>4 DEF StoreAfter
    <3>2. CASE p = "queue" /\ t = m.task
      <4>1. t \in store'["processing"]
        BY <1>0, <3>1, <3>2, PlacesAre
      <4> QED BY <3>2, <4>1
    <3>3. CASE ~(p = "queue" /\ t = m.task)
      BY <1>0, <3>1, <3>3
    <3> QED BY <3>2, <3>3
  <2>5. CASE m.op \in {"ack", "take"}
    <3>1. t # m.task
      BY <2>2, <2>5 DEF Excused
    <3>2. store' = [store EXCEPT ![m.place] = @ \ {m.task}]
      BY <2>1, <2>5 DEF StoreAfter, Without
    <3> QED BY <1>0, <3>1, <3>2
  <2>6. CASE m.op = "clean"
    <3>1. m.place = "processing"
      BY <2>2, <2>6 DEF TaskOp, PlacesFor
    <3>2. store' = [store EXCEPT !["processing"] = @ \ {m.task}]
      BY <2>1, <2>6, <3>1 DEF StoreAfter, Without
    <3>3. PICK q \in Place : t \in store'[q]
      <4>1. store' \in [Place -> SUBSET Task]
        BY <2>1, ServerTyped
      <4>2. t \in UNION Range(store')
        BY <2>1, <2>2, <2>6 DEF Excused
      <4> QED BY <4>1, <4>2 DEF Range
    <3>4. CASE p = "processing" /\ t = m.task
      <4>1. q # "processing"
        BY <1>0, <3>2, <3>3, <3>4
      <4>2. t \in store[q] /\ q \in {"queue", "dead"}
        BY <1>0, <3>2, <3>3, <4>1, PlacesAre
      <4> QED BY <3>3, <3>4, <4>2
    <3>5. CASE ~(p = "processing" /\ t = m.task)
      BY <1>0, <3>2, <3>5
    <3> QED BY <3>4, <3>5
  <2>7. CASE m.op = "wipe"
    <3>1. t \notin store[m.place]
      BY <2>2, <2>7 DEF Excused
    <3>2. store' = [store EXCEPT ![m.place] = {}]
      BY <2>1, <2>7 DEF StoreAfter
    <3> QED BY <1>0, <2>2, <3>1, <3>2
  <2>8. CASE m.op \in {"poll", "find", "count"}
    BY <2>1, <2>8 DEF StoreAfter
  <2> QED BY <2>2, <2>3, <2>4, <2>5, <2>6, <2>7, <2>8
          DEF ChainOp, CallOp, SearchOp
<1> QED BY <1>1, <1>2

(* What every step keeps of the searches.                                  *)
LEMMA SearchNext ==
  ASSUME QInv, BInv', NEW w \in Worker, Searching(w),
         \A v \in Worker : isShutdown[v] => isShutdown'[v]
  PROVE  QInv'
<1>0. /\ BInv /\ Types /\ Data
      /\ Orderly' /\ DeadSeekNothing' /\ Works(w) /\ SeeksOne
      /\ unseen \in [Worker -> SUBSET Task]
  BY DEF QInv, BInv, MInv, Meters, Data, Searching
<1>s. ASSUME NobodyShutDown'
      PROVE  NobodyShutDown /\ NoRestore /\ StillAhead /\ OnceOnly
  <2>1. NobodyShutDown
    BY <1>s DEF NobodyShutDown
  <2> QED BY <1>0, <2>1 DEF QInv, BInv, NoRestore, ShutdownsRestore, NobodyShutDown
<1>1. CASE Starts(w)
  <2>1. /\ store' = store
        /\ \A v \in Worker \ {w} : wire'[v] = wire[v] /\ unseen'[v] = unseen[v]
        /\ \A p \in Place : LooksAt(wire'[w], p)
        /\ \A t \in unseen'[w] : \E p \in Place : t \in store[p]
        /\ \A c \in Range(wire'[w]) :
             c.op = "find" /\ c.task \in Task => unseen'[w] \subseteq {c.task}
    BY <1>1 DEF Starts
  <2>2. SeeksOne'
    BY <1>0, <2>1 DEF SeeksOne
  <2>3. ASSUME NobodyShutDown' PROVE StillAhead'
    <3> SUFFICES ASSUME NEW v \in Worker, NEW t \in unseen'[v] \cap Unretried
                 PROVE  Ahead(v, t)'
      BY DEF StillAhead, Unretried
    <3>1. CASE v = w
      BY <2>1, <3>1 DEF Ahead
    <3>2. CASE v # w
      <4>1. wire'[v] = wire[v] /\ unseen'[v] = unseen[v]
        BY <2>1, <3>2
      <4> QED BY <1>s, <2>1, <2>3, <4>1 DEF StillAhead, Ahead
    <3> QED BY <3>1, <3>2
  <2> QED BY <1>0, <2>2, <2>3 DEF QInv
<1>2. CASE Continues
  <2>1. ASSUME NEW v \in Worker
        PROVE  /\ unseen'[v] \subseteq unseen[v]
               /\ \A p \in Place : LooksAt(wire[v], p) =>
                    LooksAt(wire'[v], p) \/ unseen'[v] \cap store[p] = {}
               /\ \A c \in Range(wire'[v]) : c.op = "find" /\ c.task \in Task =>
                    \E m \in Range(wire[v]) : m.op = "find" /\ m.task = c.task
    BY <1>2 DEF Continues
  <2>2. SeeksOne'
    BY <1>0, <2>1 DEF SeeksOne
  <2>3. ASSUME NobodyShutDown' PROVE StillAhead'
    <3> SUFFICES ASSUME NEW v \in Worker, NEW t \in unseen'[v] \cap Unretried
                 PROVE  \E p \in Place : LooksAt(wire'[v], p) /\ t \in store'[p]
      BY DEF StillAhead, Ahead, Unretried
    <3>1. PICK p \in Place : LooksAt(wire[v], p) /\ t \in store[p]
      BY <1>s, <2>1, <2>3 DEF StillAhead, Ahead
    <3>2. LooksAt(wire'[v], p) /\ t \in Task
      BY <2>1, <3>1 DEF Unretried
    <3>3. \A q \in Place : At[p] <= At[q] => LooksAt(wire'[v], q)
      BY <1>0, <3>2 DEF Orderly, Onward
    <3>4. \/ t \in store'[p]
          \/ p = "queue" /\ t \in store'["processing"]
          \/ /\ p = "processing"
             /\ \E q \in {"queue", "dead"} : t \in store[q] /\ t \in store'[q]
      BY <1>0, <1>s, <2>3, <3>1, <3>2, SoughtStays
    <3>5. p = "processing" => t \notin store["queue"]
      BY <1>s, <2>3, <3>1 DEF OnceOnly
    <3>6. p = "queue" => LooksAt(wire'[v], "processing")
      BY <3>3, PlacesAre
    <3>7. p = "processing" => LooksAt(wire'[v], "dead")
      BY <3>3, PlacesAre
    <3> QED BY <3>2, <3>4, <3>5, <3>6, <3>7, PlacesAre
  <2> QED BY <1>0, <2>2, <2>3 DEF QInv
<1> QED BY <1>1, <1>2 DEF Searching

(* Until a worker is shut down, a search that is over has come across every*)
(* task that is not to be retried, was on the server when it began and has *)
(* not been completed or removed since: for any number of workers and of   *)
(* calls of processNext, and whichever commands fail and workers crash.    *)
THEOREM SearchesMissNothing == Spec => []SearchSees
<1>1. ASSUME Init, BInv PROVE QInv
  <2>1. \A w \in Worker : wire[w] = <<>> /\ Range(wire[w]) = {} /\ unseen[w] = {}
    BY <1>1 DEF Init, Range
  <2>2. Orderly
    BY <2>1 DEF Orderly, InTurn, Onward, LooksAt
  <2> QED BY <1>1, <2>1, <2>2 DEF QInv, DeadSeekNothing, SeeksOne, StillAhead
<1>2. ASSUME QInv, BInv', [Next]_vars PROVE QInv'
  <2>0. Types /\ Data /\ Orderly /\ DeadSeekNothing /\ SeeksOne
    BY <1>2 DEF QInv, BInv, MInv, Meters
  <2>1. CASE Next
    <3>1. PICK w \in Worker :
            \/ ClientCall(w)
            \/ Serve(w)
            \/ RunImmediate(w)
            \/ \E t \in Task : HandlerSettles(w, t)
            \/ Fail(w)
      BY <2>1 DEF Next
    <3>2. Searching(w) /\ \A v \in Worker : isShutdown[v] => isShutdown'[v]
      BY <2>0, <3>1, NextSearches, ShutdownLasts
    <3> QED BY <1>2, <3>2, SearchNext
  <2>2. CASE UNCHANGED vars
    <3>1. UNCHANGED <<store, wire, unseen, alive, isShutdown>>
      BY <2>2 DEF vars, server, worker
    <3>2. /\ Orderly' = Orderly /\ DeadSeekNothing' = DeadSeekNothing
          /\ SeeksOne' = SeeksOne /\ NobodyShutDown' = NobodyShutDown
          /\ StillAhead' = StillAhead
      BY <3>1 DEF Orderly, DeadSeekNothing, SeeksOne, NobodyShutDown,
                  StillAhead, Ahead, Unretried
    <3> QED BY <1>2, <3>2 DEF QInv
  <2> QED BY <1>2, <2>1, <2>2
<1>3. ASSUME QInv PROVE SearchSees
  <2> SUFFICES ASSUME NobodyShutDown, NEW w \in Worker,
                      Sent(w, {"find", "count"}) = 0,
                      NEW t \in unseen[w] \cap Unretried
               PROVE  FALSE
    BY DEF SearchSees, Missed
  <2>1. Wires /\ wire[w] \in Seq(Wire)
    BY <1>3 DEF QInv, BInv, MInv, Meters, Types, Wires
  <2>2. CountIn(wire[w], {"find", "count"}) = 0
    BY <2>1, SentType
  <2>3. PICK c \in Range(wire[w]) : c.op \in {"find", "count"}
    BY <1>3 DEF QInv, StillAhead, Ahead, LooksAt
  <2> DEFINE s == wire[w]
             ops == {"find", "count"}
  <2>4. s \in Seq(Wire) /\ c \in Range(s) /\ c.op \in ops
    BY <2>1, <2>3
  <2> HIDE DEF s, ops
  <2>5. CountIn(s, ops) >= 1
    BY <2>4, CountFinds
  <2> QED BY <2>2, <2>5 DEF s, ops
<1> QED BY <1>1, <1>2, <1>3, OnceInvariance, PTL DEF Spec

------------------------------------------------------------------------------
(* A single consumer: workers that add and workers that handle are not the *)
(* same, and no call resumes a queue, so that a consumer has one call of   *)
(* processNext at a time, the one process started.                         *)

Active(w) == handler[w] /\ Consuming(w)

(* Workers that consume are consumers, nobody else has a call under way,   *)
(* and at most one of them is alive or has something left on its           *)
(* connection.                                                             *)
OneConsumer ==
  /\ \A w \in Worker : handler[w] => w \in Consumers
  /\ \A w \in Worker : ~handler[w] => Chains(w) = 0
  /\ \A v, w \in Worker : Active(v) /\ Active(w) => v = w

Lone ==
  \A w \in Worker : /\ Chains(w) <= 1
                    /\ Sent(w, {"add"}) > 0 => w \in Producers

SInv == MInv /\ Lone /\ OneConsumer

(* What a worker has under way, item by item.                              *)
LEMMA LoadIs ==
  ASSUME MInv, NEW w \in Worker
  PROVE  /\ wire[w] \in Seq(Wire)
         /\ IsFiniteSet(CallsOf(running[w])) /\ running[w] \in [Task -> Nat]
         /\ Handling(w) = Cardinality(CallsOf(running[w]))
         /\ immediates[w] \in Nat /\ Handling(w) \in Nat
         /\ CountIn(wire[w], ChainOp) \in Nat
         /\ Chains(w) = immediates[w] + Handling(w) + CountIn(wire[w], ChainOp)
<1>1. /\ Types /\ Wires /\ Meters
      /\ immediates[w] \in Nat /\ running[w] \in [Task -> Nat]
      /\ IsFiniteSet(CallsOf(running[w]))
  BY DEF MInv, Meters, Types, Metered
<1>2. wire[w] \in Seq(Wire)
  BY <1>1 DEF Wires
<1>3. Handling(w) = Cardinality(CallsOf(running[w])) /\ Handling(w) \in Nat
  BY <1>1, HandlingIs
<1>4. \A ops : /\ Sent(w, ops) = CountIn(wire[w], ops)
               /\ CountIn(wire[w], ops) \in Nat
  BY <1>1, SentType
<1>5. Chains(w) = immediates[w] + Handling(w) + CountIn(wire[w], ChainOp)
  BY <1>4 DEF Chains
<1> QED BY <1>1, <1>2, <1>3, <1>4, <1>5

(* What a consumer has under way is one thing: a handler call, or a command*)
(* of a call of processNext.                                               *)
LEMMA OneThing ==
  ASSUME MInv, NEW w \in Worker, Chains(w) <= 1
  PROVE  /\ \A c, d \in Range(wire[w]) :
              c.op \in ChainOp /\ d.op \in ChainOp => c = d
         /\ \A t \in Task, c \in Range(wire[w]) :
              running[w][t] > 0 => c.op \notin ChainOp
<1> DEFINE s == wire[w]
           r == running[w]
           L == ChainOp
<1>1. /\ s \in Seq(Wire)
      /\ IsFiniteSet(CallsOf(r)) /\ r \in [Task -> Nat]
      /\ Handling(w) = Cardinality(CallsOf(r))
      /\ immediates[w] \in Nat /\ Handling(w) \in Nat
      /\ CountIn(s, L) \in Nat
      /\ immediates[w] + Handling(w) + CountIn(s, L) <= 1
  BY LoadIs
<1> HIDE DEF s, r, L
<1>2. CountIn(s, L) <= 1 /\ Cardinality(CallsOf(r)) <= 1
  BY <1>1
<1>3. ASSUME NEW c \in Range(s), NEW d \in Range(s), c.op \in L, d.op \in L
      PROVE  c = d
  BY <1>1, <1>2, <1>3, CountFinds
<1>4. ASSUME NEW t \in Task, NEW c \in Range(s), r[t] > 0 PROVE c.op \notin L
  <2>1. <<t, 1>> \in CallsOf(r)
    <3>1. 1 \in Nat /\ 1 <= 1 /\ 1 <= r[t]
      BY <1>1, <1>4
    <3> QED BY <1>1, <3>1, CallsMember
  <2>2. Cardinality(CallsOf(r)) # 0
    BY <1>1, <2>1, FS_EmptySet
  <2>3. CountIn(s, L) = 0
    BY <1>1, <2>2
  <2> QED BY <1>1, <2>3, CountFinds
<1> QED BY <1>3, <1>4 DEF s, r, L

(* A worker with a call under way is the one that consumes.                *)
LEMMA ActiveIs ==
  ASSUME MInv, OneConsumer, NEW w \in Worker
  PROVE  /\ \A c \in Range(wire[w]) : c.op \in ChainOp => Active(w)
         /\ \A t \in Task : running[w][t] > 0 => Active(w)
<1>1. /\ wire[w] \in Seq(Wire)
      /\ IsFiniteSet(CallsOf(running[w])) /\ running[w] \in [Task -> Nat]
      /\ Handling(w) = Cardinality(CallsOf(running[w]))
      /\ immediates[w] \in Nat /\ Handling(w) \in Nat
      /\ CountIn(wire[w], ChainOp) \in Nat
      /\ Chains(w) = immediates[w] + Handling(w) + CountIn(wire[w], ChainOp)
  BY LoadIs
<1>2. Chains(w) > 0 => handler[w]
  BY <1>1 DEF OneConsumer
<1>3. ASSUME NEW c \in Range(wire[w]), c.op \in ChainOp PROVE Active(w)
  <2>1. CountIn(wire[w], ChainOp) >= 1
    BY <1>1, <1>3, CountFinds
  <2>2. wire[w] # <<>>
    BY <1>3 DEF Range
  <2> QED BY <1>1, <1>2, <2>1, <2>2 DEF Active, Consuming
<1>4. ASSUME NEW t \in Task, running[w][t] > 0 PROVE Active(w)
  <2>1. <<t, 1>> \in CallsOf(running[w])
    <3>1. 1 \in Nat /\ 1 <= 1 /\ 1 <= running[w][t]
      BY <1>1, <1>4
    <3> QED BY <1>1, <3>1, CallsMember
  <2>2. Handling(w) > 0
    BY <1>1, <2>1, FS_EmptySet
  <2> QED BY <1>1, <1>2, <2>2 DEF Active, Consuming
<1> QED BY <1>3, <1>4

(* So at any moment there is one handler call, or one command of a call of *)
(* processNext, among all workers.                                         *)
LEMMA OneChain ==
  ASSUME SInv, NEW w \in Worker, NEW v \in Worker
  PROVE  /\ \A c \in Range(wire[w]), d \in Range(wire[v]) :
              c.op \in ChainOp /\ d.op \in ChainOp => w = v /\ c = d
         /\ \A c \in Range(wire[w]), t \in Task :
              running[v][t] > 0 => c.op \notin ChainOp
<1>0. MInv /\ OneConsumer /\ Chains(w) <= 1
  BY DEF SInv, Lone
<1>1. Active(w) /\ Active(v) => w = v
  BY <1>0 DEF OneConsumer
<1> QED BY <1>0, <1>1, ActiveIs, OneThing

(* A worker that does not consume has no call of processNext, and a step of*)
(* its own that leaves it so gives it none.                                *)
LEMMA IdleStays ==
  ASSUME MInv, MInv', NEW w \in Worker, Effect(w), Chains(w) = 0, ~handler'[w]
  PROVE  Chains(w)' = 0
<1>0. /\ Meters /\ Types /\ Wires /\ Wires'
      /\ immediates[w] \in Nat /\ immediates'[w] \in Nat
      /\ Handling(w) \in Nat
  BY HandlingIs DEF MInv, Meters, Types, Metered
<1>1. Handling(w)' \in Nat
  <2>1. IsFiniteSet(CallsOf(running[w])) /\ IsFiniteSet(CallsOf(running'[w]))
    BY <1>0, HandlingMoves DEF Meters, Metered
  <2>2. Handling(w)' = Cardinality(CallsOf(running'[w]))
    BY <1>0, <2>1, HandlingIs
  <2> QED BY <2>1, <2>2, FS_CardinalityType
<1>2. /\ Chains(w) = immediates[w] + Handling(w) +
                          (Sent(w, {"poll"}) + Sent(w, SlotOp))
      /\ Chains(w)' = immediates'[w] + Handling(w)' +
                          (Sent(w, {"poll"})' + Sent(w, SlotOp)')
      /\ Sent(w, {"poll"}) \in Nat /\ Sent(w, {"poll"})' \in Nat
      /\ Sent(w, SlotOp) \in Nat /\ Sent(w, SlotOp)' \in Nat
  BY <1>0, ChainsMeters
<1>3. /\ immediates[w] = 0 /\ Handling(w) = 0
      /\ Sent(w, {"poll"}) = 0 /\ Sent(w, SlotOp) = 0
  <2> DEFINE i == immediates[w]
  <2> DEFINE h == Handling(w)
  <2> DEFINE p == Sent(w, {"poll"})
  <2> DEFINE o == Sent(w, SlotOp)
  <2>1. i \in Nat /\ h \in Nat /\ p \in Nat /\ o \in Nat
    BY <1>0, <1>2
  <2>2. i + h + (p + o) = 0
    BY <1>2
  <2> HIDE DEF i, h, p, o
  <2>3. i = 0 /\ h = 0 /\ p = 0 /\ o = 0
    BY <2>1, <2>2
  <2> QED BY <2>3 DEF i, h, p, o
<1>4. ASSUME running' = running PROVE Handling(w)' = Handling(w)
  BY <1>4 DEF Handling, HandlerCalls
<1>5. ~TakesSlot(w) /\ ~GivesUp(w) /\ ~CallsHandler(w) /\ ~GivesSlotBack(w)
  BY <1>2, <1>3 DEF TakesSlot, GivesUp, CallsHandler, GivesSlotBack, Wired
<1>6. ~HandlerEnds(w)
  <2>1. HandlerEnds(w) => Handling(w) = Handling(w)' + 1
    BY <1>0, HandlingMoves
  <2> QED BY <1>1, <1>3, <2>1
<1>7. CASE Dies(w)
  <2>1. Handling(w)' = 0 /\ immediates'[w] = 0
    <3>1. Handling(w)' = 0
      BY <1>0, <1>7, HandlingMoves DEF Meters
    <3>2. immediates'[w] = 0
      BY <1>0, <1>7 DEF Dies, Types
    <3> QED BY <3>1, <3>2
  <2>2. \A ops : Sent(w, ops)' = Sent(w, ops)
    BY <1>7 DEF Dies, Sent
  <2> QED BY <1>2, <1>3, <2>1, <2>2
<1>8. CASE IsDead(w)
  <2>1. Handling(w)' = Handling(w) /\ immediates'[w] = immediates[w]
    BY <1>4, <1>8 DEF IsDead, slots
  <2> QED BY <1>2, <1>3, <1>8, <2>1 DEF IsDead
<1>9. ASSUME NEW adds \in {-1, 0, 1}, Quiet(w, adds) PROVE Chains(w)' = 0
  <2>1. /\ Handling(w)' = Handling(w) /\ immediates'[w] = immediates[w]
        /\ Sent(w, {"poll"})' = Sent(w, {"poll"})
        /\ Sent(w, SlotOp)' = Sent(w, SlotOp)
    BY <1>2, <1>4, <1>9 DEF Quiet, Wired, slots
  <2> QED BY <1>2, <1>3, <2>1
<1>10. ASSUME CallsNext(w) PROVE Chains(w)' = 0
  <2>1. NextPoll(w) = 0
    BY DEF NextPoll, ShouldSkipProcessing
  <2>2. /\ Handling(w)' = Handling(w) /\ immediates'[w] = immediates[w]
        /\ Sent(w, {"poll"})' = Sent(w, {"poll"})
        /\ Sent(w, SlotOp)' = Sent(w, SlotOp)
    BY <1>2, <1>3, <1>4, <1>10, <2>1 DEF CallsNext, Wired
  <2> QED BY <1>2, <1>3, <2>2
<1> QED BY <1>5, <1>6, <1>7, <1>8, <1>9, <1>10 DEF Effect

(* A worker is active after a step only if it was, or if it starts now.    *)
LEMMA StaysActive ==
  ASSUME Meters, NEW w \in Worker, Effect(w), OthersKept(w), NEW v \in Worker,
         handler[v], Active(v)'
  PROVE  Active(v)
<1>1. CASE v # w
  <2>1. /\ Handling(v)' = Handling(v) /\ wire'[v] = wire[v] /\ alive'[v] = alive[v]
    BY <1>1, OthersMetered DEF OthersKept
  <2> QED BY <1>1, <2>1 DEF Active, Consuming, OthersKept
<1>2. CASE v = w /\ ~alive[w]
  <2>1. Dies(w) \/ IsDead(w)
    BY <1>2 DEF Effect
  <2>2. CASE Dies(w)
    <3>1. wire' = wire /\ ~alive'[w] /\ Handling(w)' = 0
      BY <2>2, HandlingMoves DEF Dies, Meters, Types
    <3> QED BY <1>2, <3>1 DEF Active, Consuming
  <2>3. CASE IsDead(w)
    BY <1>2, <2>3 DEF IsDead, Active, Consuming
  <2> QED BY <2>1, <2>2, <2>3
<1>3. CASE v = w /\ alive[w]
  BY <1>3 DEF Active, Consuming
<1> QED BY <1>1, <1>2, <1>3

(* Only process gives a worker its handler, and where nobody shuts down it *)
(* keeps it.                                                               *)
LEMMA HandlerMoves ==
  ASSUME "shutdown" \notin Calls, Types, Next, NEW v \in Worker
  PROVE  /\ handler[v] => handler'[v]
         /\ handler'[v] /\ ~handler[v] =>
              /\ Process(v) /\ MayConsume
              /\ \A u \in Worker \ {v} : handler'[u] = handler[u]
<1>1. PICK w \in Worker :
        \/ ClientCall(w)
        \/ Serve(w)
        \/ RunImmediate(w)
        \/ \E t \in Task : HandlerSettles(w, t)
        \/ Fail(w)
  BY DEF Next
<1>2. CASE ~(ClientCall(w) /\ Process(w) /\ MayConsume)
  <2>1. handler' = handler
    <3>1. CASE ClientCall(w)
      BY <1>2, <3>1 DEF ClientCall, Add, Pause, Resume, RemoveTask, GetTasks,
                        GetStatus, Looks, Clear, worker
    <3>2. CASE Serve(w)
      BY <3>2 DEF Serve, AddReply, FindReply, LastReply, ListReply,
                  RestoreReply, PollFinds, PollFindsNothing, MoveReply,
                  MoveReplyLost, RequeueOrBuryReply, AckOrCleanReply, worker
    <3>3. CASE RunImmediate(w) \/ \E t \in Task : HandlerSettles(w, t)
      BY <3>3 DEF RunImmediate, HandlerSettles, HandlerResolves,
                  HandlerRejects, worker
    <3>4. CASE Fail(w)
      BY <3>4 DEF Fail, CommandFails, Crash, ServeCrashed, Disconnect, worker
    <3> QED BY <1>1, <3>1, <3>2, <3>3, <3>4
  <2> QED BY <2>1
<1>3. CASE ClientCall(w) /\ Process(w) /\ MayConsume
  <2>1. handler' = [handler EXCEPT ![w] = TRUE] /\ handler \in [Worker -> BOOLEAN]
    BY <1>3 DEF Process, Types
  <2> QED BY <1>3, <2>1
<1> QED BY <1>2, <1>3

(* What every step keeps of the single consumer.                           *)
LEMMA OneConsumerNext ==
  ASSUME MaxConsumers = 1, "shutdown" \notin Calls,
         MInv, MInv', OneConsumer, [Next]_vars
  PROVE  OneConsumer'
<1>0. Meters /\ Types
  BY DEF MInv, Meters
<1>1. CASE Next
  <2>1. PICK w \in Worker : Effect(w) /\ OthersKept(w)
    BY <1>0, <1>1, NextEffect DEF Meters
  <2>2. ASSUME NEW v \in Worker, handler'[v] PROVE v \in Consumers
    BY <1>0, <1>1, <2>2, HandlerMoves DEF OneConsumer, Process
  <2>3. ASSUME NEW v \in Worker, ~handler'[v] PROVE Chains(v)' = 0
    <3>1. Chains(v) = 0
      BY <1>0, <1>1, <2>3, HandlerMoves DEF OneConsumer
    <3>2. CASE v = w
      BY <2>1, <2>3, <3>1, <3>2, IdleStays
    <3>3. CASE v # w
      <4>1. /\ Handling(v)' = Handling(v)
            /\ \A ops : Sent(v, ops)' = Sent(v, ops)
        BY <1>0, <2>1, <3>3, OthersMetered
      <4>2. Sent(v, ChainOp)' = Sent(v, ChainOp) /\ immediates'[v] = immediates[v]
        BY <2>1, <3>3, <4>1 DEF OthersKept
      <4> QED BY <3>1, <4>1, <4>2 DEF Chains
    <3> QED BY <3>2, <3>3
  <2>4. ASSUME NEW u \in Worker, NEW v \in Worker, Active(u)', Active(v)'
        PROVE  u = v
    <3>1. CASE handler[u] /\ handler[v]
      BY <1>0, <2>1, <2>4, <3>1, StaysActive DEF OneConsumer
    <3>2. ASSUME NEW x \in Worker, NEW y \in Worker, x # y, ~handler[x],
                 Active(x)', Active(y)'
          PROVE  FALSE
      <4>1. MayConsume /\ handler'[y] = handler[y]
        BY <1>0, <1>1, <3>2, HandlerMoves DEF Active
      <4>2. handler[y] /\ Active(y)
        BY <1>0, <2>1, <3>2, <4>1, StaysActive DEF Active
      <4> DEFINE C == {z \in Consumers : Consuming(z)}
      <4>3. y \in C
        BY <4>2 DEF Active, OneConsumer
      <4>4. IsFiniteSet(C) /\ Cardinality(C) < 1
        <5>1. C \in SUBSET Worker /\ IsFiniteSet(Worker)
          BY RedisAssumption
        <5> QED BY <4>1, <5>1, FS_Subset DEF MayConsume
      <4> HIDE DEF C
      <4>5. Cardinality(C) \in Nat /\ Cardinality(C) # 0
        BY <4>3, <4>4, FS_EmptySet, FS_CardinalityType
      <4> QED BY <4>4, <4>5
    <3> QED BY <2>4, <3>1, <3>2
  <2> QED BY <2>2, <2>3, <2>4 DEF OneConsumer
<1>2. CASE UNCHANGED vars
  <2>1. UNCHANGED <<wire, running, handler, immediates, alive>>
    BY <1>2 DEF vars, worker, slots, tasks
  <2>2. \A v \in Worker : Chains(v)' = Chains(v) /\ Active(v)' = Active(v)
    BY <2>1 DEF Chains, Active, Consuming, Handling, HandlerCalls, Sent
  <2> QED BY <2>1, <2>2 DEF OneConsumer
<1> QED BY <1>1, <1>2

(* A worker that is not a producer adds nothing, and one that consumes has *)
(* one call at a time.                                                     *)
LEMMA LoneNext ==
  ASSUME Producers \cap Consumers = {}, "resume" \notin Calls, SInv, MInv',
         [Next]_vars
  PROVE  Lone'
<1>0. MInv /\ Lone /\ OneConsumer /\ Meters /\ Types
  BY DEF SInv, MInv, Meters
<1>1. CASE Next
  <2>1. PICK w \in Worker : Effect(w) /\ OthersKept(w)
    BY <1>0, <1>1, NextEffect DEF Meters
  <2>2. /\ Chains(w)' <= 1
        /\ Sent(w, {"add"})' > 0 => w \in Producers
    <3>1. /\ Chains(w) <= 1
          /\ ~handler[w] => Chains(w) = 0
          /\ Sent(w, {"add"}) > 0 => w \in Producers
          /\ w \in Producers => ~handler[w]
      BY <1>0 DEF Lone, OneConsumer
    <3> QED BY <1>0, <2>1, <3>1, LoneMove
  <2>3. ASSUME NEW v \in Worker, v # w
        PROVE  Chains(v)' = Chains(v) /\ Sent(v, {"add"})' = Sent(v, {"add"})
    <3>1. /\ Handling(v)' = Handling(v)
          /\ \A ops : Sent(v, ops)' = Sent(v, ops)
      BY <1>0, <2>1, <2>3, OthersMetered
    <3>2. immediates'[v] = immediates[v]
      BY <2>1, <2>3 DEF OthersKept
    <3>3. Sent(v, ChainOp)' = Sent(v, ChainOp) /\ Sent(v, {"add"})' = Sent(v, {"add"})
      BY <3>1
    <3> QED BY <3>1, <3>2, <3>3 DEF Chains
  <2> QED BY <1>0, <2>2, <2>3 DEF Lone
<1>2. CASE UNCHANGED vars
  <2>1. UNCHANGED <<wire, running, immediates>>
    BY <1>2 DEF vars, worker, slots, tasks
  <2>2. \A v \in Worker : /\ Chains(v)' = Chains(v)
                          /\ Sent(v, {"add"})' = Sent(v, {"add"})
    BY <2>1 DEF Chains, Handling, HandlerCalls, Sent
  <2> QED BY <1>0, <2>2 DEF Lone
<1> QED BY <1>1, <1>2

(* The single consumer is an invariant.                                    *)
LEMMA SingleInvariance ==
  ASSUME MaxConsumers = 1, Producers \cap Consumers = {},
         "resume" \notin Calls, "shutdown" \notin Calls
  PROVE  /\ Init => SInv
         /\ SInv /\ [Next]_vars => SInv'
<1>1. ASSUME Init PROVE SInv
  <2>1. MInv
    BY <1>1, MetersInit
  <2>2. ASSUME NEW w \in Worker PROVE Chains(w) = 0 /\ Sent(w, {"add"}) = 0
    <3>1. wire[w] = <<>> /\ immediates[w] = 0 /\ running[w] = [t \in Task |-> 0]
      BY <1>1 DEF Init
    <3>2. CallsOf(running[w]) = {}
      BY <3>1, CallsNone
    <3>3. Handling(w) = 0
      BY <3>2, FS_EmptySet DEF Handling, HandlerCalls, CallsOf
    <3>4. \A ops : Sent(w, ops) = 0
      BY <3>1, NoCommand DEF Sent, CountIn
    <3>5. Sent(w, ChainOp) = 0 /\ Sent(w, {"add"}) = 0
      BY <3>4
    <3> QED BY <3>1, <3>3, <3>5 DEF Chains
  <2>3. \A w \in Worker : ~handler[w]
    BY <1>1 DEF Init
  <2> QED BY <2>1, <2>2, <2>3 DEF SInv, Lone, OneConsumer, Active
<1>2. ASSUME SInv, [Next]_vars PROVE SInv'
  <2>1. MInv'
    BY <1>2, MetersNext DEF SInv
  <2>2. OneConsumer'
    BY <1>2, <2>1, OneConsumerNext DEF SInv
  <2>3. Lone'
    BY <1>2, <2>1, LoneNext
  <2> QED BY <2>1, <2>2, <2>3 DEF SInv
<1> QED BY <1>1, <1>2

------------------------------------------------------------------------------
(* Where the tasks are, with a single consumer.                            *)

(* An unfinished task that is taken off the processing list waits in the   *)
(* queue.                                                                  *)
CleansBehind ==
  \A w \in Worker : \A c \in Range(wire[w]) :
    c.op = "clean" /\ fate[c.task] = "open" => c.task \in store["queue"]

OnServer ==
  \A t \in Task : fate[t] = "open" => t \in store["queue"] \cup store["processing"]

TakenOut ==
  \A w \in Worker, t \in Task : running[w][t] > 0 => t \notin store["queue"]

AInv ==
  /\ BInv /\ NobodyShutDown /\ SInv
  /\ CleansBehind /\ OnServer /\ TakenOut

(* What a worker keeps of its calls and commands, by the invariant.        *)
LEMMA AloneNext ==
  ASSUME AInv, BInv', NobodyShutDown', SInv', NEW w \in Worker, Moves(w)
  PROVE  AInv'
<1>0. /\ SInv /\ NoRestore /\ Untouched /\ AddsSent /\ CleansBehind
      /\ OnServer /\ TakenOut
      /\ NewCommands(w) /\ NewCalls(w) /\ ServerMoves(w)
  <2>1. NoRestore
    BY DEF AInv, BInv, NoRestore, ShutdownsRestore, NobodyShutDown
  <2> QED BY <2>1 DEF AInv, BInv, Moves
<1>1. Types /\ Data /\ Wires /\ Wires' /\ fate \in [Task -> Fate]
  BY <1>0 DEF SInv, MInv, Meters, Types, Data
<1>t. ASSUME NEW v \in Worker, NEW c \in Range(wire[v]), c.op \in TaskOp
      PROVE  c.task \in Task
  BY <1>1, <1>t, NamesTask
<1>5. ASSUME NEW v \in Worker, NEW c \in Range(wire[v]), c.op = "clean",
             fate'[c.task] = "open", fate[c.task] = "open" 
      PROVE  c.task \in store'["queue"]
  <2>1. c.task \in Task /\ c.task \in store["queue"]
    BY <1>0, <1>t, <1>5 DEF CleansBehind, TaskOp
  <2>2. ~\E m \in Range(wire[w]) : m.op = "move" /\ m.task = c.task
    <3> SUFFICES ASSUME NEW m \in Range(wire[w]), m.op = "move" PROVE FALSE
      OBVIOUS
    <3>1. m.op \in ChainOp /\ c.op \in ChainOp
      BY <1>5 DEF ChainOp
    <3>2. m = c
      BY <1>0, <3>1, OneChain
    <3> QED BY <1>5, <3>2
  <2> QED BY <1>0, <1>1, <1>5, <2>1, <2>2, ServerKeeps
<1>6. CleansBehind'
  <2> SUFFICES ASSUME NEW v \in Worker, NEW c \in Range(wire'[v]), c.op = "clean",
                      fate'[c.task] = "open"
               PROVE  c.task \in store'["queue"]
    BY DEF CleansBehind
  <2>1. CASE c \in Range(wire[v])
    <3>1. c.task \in Task
      BY <1>t, <2>1 DEF TaskOp
    <3> QED BY <1>0, <1>1, <1>5, <2>1, <3>1, ServerKeeps
  <2>2. CASE c \notin Range(wire[v])
    BY <1>0, <2>2 DEF NewCommands, Arrives, SearchOp, HeldOp
  <2> QED BY <2>1, <2>2
<1>7. OnServer'
  <2> SUFFICES ASSUME NEW t \in Task, fate'[t] = "open"
               PROVE  t \in store'["queue"] \/ t \in store'["processing"]
    BY DEF OnServer
  <2>1. CASE fate[t] # "open" \/ t \in store["queue"]
    BY <1>0, <1>1, <2>1, ServerKeeps
  <2>2. CASE fate[t] = "open" /\ t \in store["processing"]
    <3>1. \/ t \in store'["processing"]
          \/ \E m \in Range(wire[w]) : m.op = "clean" /\ m.task = t
      BY <1>0, <1>1, <2>2, ServerKeeps
    <3> QED BY <1>5, <2>2, <3>1
  <2> QED BY <1>0, <2>1, <2>2 DEF OnServer
<1>8. TakenOut'
  <2> SUFFICES ASSUME NEW v \in Worker, NEW t \in Task, running'[v][t] > 0,
                      t \in store'["queue"]
               PROVE  FALSE
    BY DEF TakenOut
  <2>1. running[v][t] > 0
    BY <1>0 DEF NewCalls, Taken
  <2>2. "queue" \in Place /\ t \notin store["queue"]
    BY <1>0, <2>1 DEF Place, TakenOut
  <2>3. PICK m \in Range(wire[w]) : m.task = t /\ m.op \in {"add", "requeue"}
    BY <1>0, <1>1, <2>2, ServerKeeps
  <2>4. CASE m.op = "add"
    <3>1. fate[t] = "sent"
      BY <1>0, <2>3, <2>4 DEF AddsSent
    <3> QED BY <1>0, <2>1, <3>1 DEF Untouched
  <2>5. CASE m.op = "requeue"
    <3>1. m.op \in ChainOp
      BY <2>5 DEF ChainOp
    <3> QED BY <1>0, <2>1, <3>1, OneChain
  <2> QED BY <2>3, <2>4, <2>5
<1> QED BY <1>6, <1>7, <1>8 DEF AInv

(* With a single consumer that nobody shuts down, the tasks are where the  *)
(* invariant says.                                                         *)
LEMMA AloneInvariance ==
  ASSUME MaxConsumers = 1, Producers \cap Consumers = {},
         "resume" \notin Calls, "shutdown" \notin Calls
  PROVE  Spec => []AInv
<1>1. ASSUME Init PROVE AInv
  <2>1. SInv /\ BInv
    BY <1>1, SingleInvariance, OnceInvariance
  <2>2. /\ \A w \in Worker : Range(wire[w]) = {} /\ ~isShutdown[w]
        /\ \A t \in Task : fate[t] = "new"
        /\ \A w \in Worker, t \in Task : running[w][t] = 0
    BY <1>1 DEF Init, Range
  <2> QED BY <2>1, <2>2 DEF AInv, NobodyShutDown, CleansBehind, OnServer, TakenOut
<1>2. ASSUME AInv, [Next]_vars PROVE AInv'
  <2>1. SInv' /\ BInv'
    BY <1>2, SingleInvariance, OnceInvariance DEF AInv
  <2>2. CASE Next
    <3>1. PICK w \in Worker :
            \/ ClientCall(w)
            \/ Serve(w)
            \/ RunImmediate(w)
            \/ \E t \in Task : HandlerSettles(w, t)
            \/ Fail(w)
      BY <2>2 DEF Next
    <3>2. Types /\ Data /\ AddsSent
      BY <1>2 DEF AInv, BInv, MInv, Meters
    <3>3. Moves(w) /\ isShutdown' = isShutdown
      BY <3>1, <3>2, NextMoves, ShutdownLasts
    <3>4. NobodyShutDown'
      BY <1>2, <3>3 DEF AInv, NobodyShutDown
    <3> QED BY <1>2, <2>1, <3>3, <3>4, AloneNext
  <2>3. CASE UNCHANGED vars
    <3>1. UNCHANGED <<store, fate, wire, running, isShutdown>>
      BY <2>3 DEF vars, server, tasks, worker
    <3>2. /\ NobodyShutDown' = NobodyShutDown /\ CleansBehind' = CleansBehind
          /\ OnServer' = OnServer /\ TakenOut' = TakenOut
      BY <3>1 DEF NobodyShutDown, CleansBehind, OnServer, TakenOut
    <3> QED BY <1>2, <2>1, <3>2 DEF AInv
  <2> QED BY <1>2, <2>2, <2>3
<1> QED BY <1>1, <1>2, PTL DEF Spec

(* At every moment the server knows of every unfinished task, whichever    *)
(* commands fail and whichever workers crash, as long as one worker at a   *)
(* time consumes, which adds no tasks itself, and none is resumed or shut  *)
(* down.                                                                   *)
THEOREM TheServerKnows ==
  ASSUME MaxConsumers = 1, Producers \cap Consumers = {},
         "resume" \notin Calls, "shutdown" \notin Calls
  PROVE  Spec => []Durable
<1>1. AInv => Durable
  BY DEF AInv, OnServer, Durable, Stored, Place
<1> QED BY <1>1, AloneInvariance, PTL
==============================================================================
