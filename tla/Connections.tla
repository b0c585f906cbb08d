---------------------------- MODULE Connections ----------------------------
(***************************************************************************)
(* The client port: event loops that share one count of connections, each  *)
(* polling its own listener and connections, reading request lines,        *)
(* answering them one at a time and writing the responses as the peer      *)
(* takes them (src/src/server/tcp_server.c).  A request line is bytes up   *)
(* to a newline; what its handler does is the subject of other modules.    *)
(***************************************************************************)
EXTENDS Integers, Sequences, FiniteSets

CONSTANTS
    Loops,        \* the event loop threads
    Clients,      \* bound: the connections that are ever made
    Plans,        \* who connects, to which loop's listener, and the bytes, over
                  \* {"a", "nl"}, that each sends: [who, at, stream]
    MaxConn,      \* max_connections
    Limit,        \* max_line: the longest request line
    RespLen,      \* bytes of a response
    SndBuf,       \* bytes the kernel buffers towards a client
    MaxReaps      \* bound: connections that are ever idle for too long

ASSUME ConnectionsAssumption ==
    /\ IsFiniteSet(Loops) /\ IsFiniteSet(Clients) /\ Loops # {}
    /\ \A p \in Plans : /\ p.who \subseteq Clients /\ p.at \in [Clients -> Loops]
                        /\ p.stream \in [Clients -> Seq({"a", "nl"})]
    /\ MaxConn \in Nat \ {0} /\ Limit \in Nat
    /\ RespLen \in Nat \ {0} /\ SndBuf \in Nat \ {0} /\ MaxReaps \in Nat

VARIABLES
    stream,    \* client |-> the bytes it sends
    st,        \* client |-> "new", "backlog", "admitted", "placing", "open" or
               \* why it is closed
    at,        \* client |-> the loop whose listener it reached
    sock,      \* client |-> bytes sent that the server has not read
    sent,      \* client |-> number of bytes sent
    eof,       \* client |-> it has shut down its sending side
    conn,      \* client |-> its Conn
    loop,      \* loop |-> where its thread is
    ready,     \* loop |-> the connections poll reported, not handled yet
    g_conns, g_stop,
    reaps

cvars == <<stream, st, at, sock, sent, eof, conn, loop, ready, g_conns, g_stop, reaps>>

(* rem is what is left of the staged response (want_write: rem > 0), cur   *)
(* the request it answers, room the space in the kernel's buffer, wrote    *)
(* the responses written in full.                                          *)
NewConn == [rbuf |-> <<>>, rem |-> 0, cur |-> 0, room |-> SndBuf, handled |-> 0,
            wrote |-> <<>>, closing |-> FALSE, dead |-> FALSE]

Open == {c \in Clients : st[c] = "open"}
Counted == {c \in Clients : st[c] \in {"placing", "open"}}
OpenOn(l) == {c \in Open : at[c] = l}

ConnInit ==
    /\ \E p \in Plans :
          /\ at = p.at /\ stream = p.stream
          /\ st = [c \in Clients |-> IF c \in p.who THEN "new" ELSE "absent"]
    /\ sock = [c \in Clients |-> <<>>] /\ sent = [c \in Clients |-> 0]
    /\ eof = [c \in Clients |-> FALSE]
    /\ conn = [c \in Clients |-> NewConn]
    /\ loop = [l \in Loops |-> "poll"] /\ ready = [l \in Loops |-> {}]
    /\ g_conns = 0 /\ g_stop = FALSE /\ reaps = 0

-----------------------------------------------------------------------------
(* One connection's buffers.                                               *)
Lesser(m, n) == IF m < n THEN m ELSE n

HasLine(b) == \E i \in DOMAIN b : b[i] = "nl"
LineEnd(b) == CHOOSE i \in DOMAIN b : b[i] = "nl" /\ \A j \in 1 .. i - 1 : b[j] # "nl"

(* conn_flush: a response that is out clears the staging, and closes the   *)
(* connection when it was the last.                                        *)
Flush(k) ==
    LET w == Lesser(k.rem, k.room)
        out == w = k.rem
    IN  [k EXCEPT !.rem = @ - w, !.room = @ - w,
                  !.wrote = IF out THEN Append(@, k.cur) ELSE @,
                  !.dead = out /\ k.closing]

(* One turn of conn_advance: a line too long is answered and ends the      *)
(* connection, an empty line has no answer, any other is dispatched.       *)
Stage(k, id, last) == Flush([k EXCEPT !.rem = RespLen, !.cur = id, !.closing = last])

AdvanceOnceAnyway(k) ==
    IF k.dead THEN k
    ELSE IF ~HasLine(k.rbuf)
    THEN IF Len(k.rbuf) > Limit THEN Stage(k, 0, TRUE) ELSE k
    ELSE LET e == LineEnd(k.rbuf)
             rest == [k EXCEPT !.rbuf = SubSeq(@, e + 1, Len(@))]
         IN  IF e = 1 THEN rest
             ELSE Stage([rest EXCEPT !.handled = @ + 1], k.handled + 1, FALSE)

AdvanceOnce(k) ==
    IF k.rem > 0 \/ k.dead THEN k
    ELSE IF ~HasLine(k.rbuf)
    THEN IF Len(k.rbuf) > Limit THEN Stage(k, 0, TRUE) ELSE k
    ELSE LET e == LineEnd(k.rbuf)
             rest == [k EXCEPT !.rbuf = SubSeq(@, e + 1, Len(@))]
         IN  IF e = 1 THEN rest
             ELSE Stage([rest EXCEPT !.handled = @ + 1], k.handled + 1, FALSE)

(* conn_advance: turns until a response is not out yet or no line is left. *)
Advance(k) ==
    LET Turn[n \in 0 .. Len(k.rbuf) + 1] ==
            IF n = 0 THEN k ELSE LET before == Turn[n - 1] IN AdvanceOnce(before)
    IN  Turn[Len(k.rbuf) + 1]

(* conn_read: what is there, up to one byte over the limit.  End of file   *)
(* is seen only by a read that finds the socket empty and has room.        *)
ReadLen(c) == Lesser(Len(sock[c]), Limit + 1 - Len(conn[c].rbuf))
Read(c) == [conn[c] EXCEPT !.rbuf = @ \o SubSeq(sock[c], 1, ReadLen(c))]
SeesEof(c) == eof[c] /\ ReadLen(c) = Len(sock[c]) /\ Len(Read(c).rbuf) <= Limit

-----------------------------------------------------------------------------
(* The client and the kernel.                                              *)
Connect(c) ==
    /\ st[c] = "new"
    /\ st' = [st EXCEPT ![c] = "backlog"]
    /\ UNCHANGED <<stream, at, sock, sent, eof, conn, loop, ready, g_conns, g_stop, reaps>>

Send(c) ==
    /\ st[c] \in {"backlog", "admitted", "placing", "open"} /\ sent[c] < Len(stream[c])
    /\ sock' = [sock EXCEPT ![c] = Append(@, stream[c][sent[c] + 1])]
    /\ sent' = [sent EXCEPT ![c] = @ + 1]
    /\ UNCHANGED <<stream, st, at, eof, conn, loop, ready, g_conns, g_stop, reaps>>

Shut(c) ==
    /\ st[c] = "open" /\ ~eof[c] /\ sent[c] = Len(stream[c])
    /\ eof' = [eof EXCEPT ![c] = TRUE]
    /\ UNCHANGED <<stream, st, at, sock, sent, conn, loop, ready, g_conns, g_stop, reaps>>

TakeResponse(c) ==
    /\ st[c] = "open" /\ conn[c].room < SndBuf
    /\ conn' = [conn EXCEPT ![c].room = SndBuf]
    /\ UNCHANGED <<stream, st, at, sock, sent, eof, loop, ready, g_conns, g_stop, reaps>>

-----------------------------------------------------------------------------
(* loop_main: poll, accept, handle what poll reported, reap, again.  poll  *)
(* asks for writability while a response is staged, else for readability.  *)
PolledForInput(c) == conn[c].rem = 0 /\ (sock[c] # <<>> \/ eof[c])

Polled(c) == \/ conn[c].rem = 0 /\ (sock[c] # <<>> \/ eof[c])
             \/ conn[c].rem > 0 /\ conn[c].room > 0

Poll(l) ==
    /\ loop[l] = "poll" /\ ~g_stop
    /\ ready' = [ready EXCEPT ![l] = {c \in OpenOn(l) : Polled(c)}]
    /\ loop' = [loop EXCEPT ![l] = IF \E c \in Clients : st[c] = "backlog" /\ at[c] = l
                                   THEN "accept" ELSE "io"]
    /\ UNCHANGED <<stream, st, at, sock, sent, eof, conn, g_conns, g_stop, reaps>>

(* loop_accept: the cap is looked at, then the connection is allocated and *)
(* counted; it is polled from the next turn on.                            *)
BelowCapOneMore == g_conns <= MaxConn

BelowCap == g_conns < MaxConn

AcceptOne(l, c) ==
    /\ loop[l] = "accept" /\ st[c] = "backlog" /\ at[c] = l
    /\ IF BelowCap
       THEN /\ st' = [st EXCEPT ![c] = "admitted"]
            /\ loop' = [loop EXCEPT ![l] = "add"]
       ELSE /\ st' = [st EXCEPT ![c] = "refused"]
            /\ UNCHANGED loop
    /\ UNCHANGED <<stream, at, sock, sent, eof, conn, ready, g_conns, g_stop, reaps>>

CountConn(l, c) ==
    /\ loop[l] = "add" /\ st[c] = "admitted" /\ at[c] = l
    /\ st' = [st EXCEPT ![c] = "placing"]
    /\ g_conns' = g_conns + 1
    /\ loop' = [loop EXCEPT ![l] = "place"]
    /\ UNCHANGED <<stream, at, sock, sent, eof, conn, ready, g_stop, reaps>>

AddConn(l, c) ==
    /\ loop[l] = "place" /\ st[c] = "placing" /\ at[c] = l
    /\ st' = [st EXCEPT ![c] = "open"]
    /\ loop' = [loop EXCEPT ![l] = "accept"]
    /\ UNCHANGED <<stream, at, sock, sent, eof, conn, ready, g_conns, g_stop, reaps>>

(* No memory: before it is counted, or for the loop's array after.         *)
AddFails(l, c) ==
    /\ at[c] = l
    /\ \/ loop[l] = "add" /\ st[c] = "admitted" /\ UNCHANGED g_conns
       \/ loop[l] = "place" /\ st[c] = "placing" /\ g_conns' = g_conns - 1
    /\ st' = [st EXCEPT ![c] = "refused"]
    /\ loop' = [loop EXCEPT ![l] = "accept"]
    /\ UNCHANGED <<stream, at, sock, sent, eof, conn, ready, g_stop, reaps>>

AcceptDrained(l) ==
    /\ loop[l] = "accept"
    /\ loop' = [loop EXCEPT ![l] = "io"]
    /\ UNCHANGED <<stream, st, at, sock, sent, eof, conn, ready, g_conns, g_stop, reaps>>

(* The body of the loop over the polled connections, and conn_free.        *)
Handled(l, c, k, why, socket) ==
    /\ loop[l] = "io" /\ c \in ready[l]
    /\ ready' = [ready EXCEPT ![l] = @ \ {c}]
    /\ conn' = [conn EXCEPT ![c] = k]
    /\ sock' = [sock EXCEPT ![c] = socket]
    /\ st' = [st EXCEPT ![c] = why]
    /\ g_conns' = IF why = "open" THEN g_conns ELSE g_conns - 1
    /\ UNCHANGED <<stream, at, sent, eof, loop, g_stop, reaps>>

Unread(c) == SubSeq(sock[c], ReadLen(c) + 1, Len(sock[c]))

HandleInputEofFirst(l, c) ==
    LET k == IF SeesEof(c) THEN Read(c) ELSE Advance(Read(c))
    IN  /\ conn[c].rem = 0
        /\ Handled(l, c, k, IF k.dead THEN "toolong" ELSE IF SeesEof(c) THEN "eof" ELSE "open", Unread(c))

HandleInput(l, c) ==
    LET k == Advance(Read(c))
    IN  /\ conn[c].rem = 0
        /\ Handled(l, c, k, IF k.dead THEN "toolong" ELSE IF SeesEof(c) THEN "eof" ELSE "open", Unread(c))

HandleOutputOnly(l, c) ==
    LET k == Flush(conn[c])
    IN  /\ conn[c].rem > 0
        /\ Handled(l, c, k, IF k.dead THEN "toolong" ELSE "open", sock[c])

HandleOutput(l, c) ==
    LET k == Advance(Flush(conn[c]))
    IN  /\ conn[c].rem > 0
        /\ Handled(l, c, k, IF k.dead THEN "toolong" ELSE "open", sock[c])

(* A reset of the peer, or a failed read or write.                         *)
HandleError(l, c) ==
    Handled(l, c, conn[c], "error", <<>>)

(* The idle pass.  The time is read after the requests of this turn were   *)
(* handled, however long that took, so any connection may be found idle.   *)
ReapUncounted(l) ==
    /\ loop[l] = "io" /\ ready[l] = {}
    /\ \E S \in SUBSET OpenOn(l) :
          /\ reaps + Cardinality(S) <= MaxReaps
          /\ reaps' = reaps + Cardinality(S)
          /\ st' = [c \in Clients |-> IF c \in S THEN "reaped" ELSE st[c]]
    /\ loop' = [loop EXCEPT ![l] = "poll"]
    /\ UNCHANGED <<stream, at, sock, sent, eof, conn, ready, g_conns, g_stop>>

Reap(l) ==
    /\ loop[l] = "io" /\ ready[l] = {}
    /\ \E S \in SUBSET OpenOn(l) :
          /\ reaps + Cardinality(S) <= MaxReaps
          /\ reaps' = reaps + Cardinality(S)
          /\ st' = [c \in Clients |-> IF c \in S THEN "reaped" ELSE st[c]]
          /\ g_conns' = g_conns - Cardinality(S)
    /\ loop' = [loop EXCEPT ![l] = "poll"]
    /\ UNCHANGED <<stream, at, sock, sent, eof, conn, ready, g_stop>>

RequestStop ==
    /\ ~g_stop
    /\ g_stop' = TRUE
    /\ UNCHANGED <<stream, st, at, sock, sent, eof, conn, loop, ready, g_conns, reaps>>

(* On the flag, or when poll or its array fails.                           *)
LoopEnds(l) ==
    /\ loop[l] = "poll"
    /\ loop' = [loop EXCEPT ![l] = "ended"]
    /\ st' = [c \in Clients |-> IF c \in OpenOn(l) THEN "stopped" ELSE st[c]]
    /\ g_conns' = g_conns - Cardinality(OpenOn(l))
    /\ UNCHANGED <<stream, at, sock, sent, eof, conn, ready, g_stop, reaps>>

Client(c) == Connect(c) \/ Send(c) \/ Shut(c) \/ TakeResponse(c)

LoopStep(l) ==
    \/ Poll(l) \/ AcceptDrained(l) \/ Reap(l) \/ LoopEnds(l)
    \/ \E c \in Clients : \/ AcceptOne(l, c) \/ CountConn(l, c) \/ AddConn(l, c) \/ AddFails(l, c)
                         \/ HandleInput(l, c) \/ HandleOutput(l, c) \/ HandleError(l, c)

ConnNext == RequestStop \/ (\E c \in Clients : Client(c)) \/ \E l \in Loops : LoopStep(l)

ConnSpec == ConnInit /\ [][ConnNext]_cvars

(* A loop's thread is never blocked but in poll, which has a timeout, so   *)
(* it steps until it has ended (weak fairness, with ENABLED written out);  *)
(* a client that is sent a response reads it.                              *)
ConnFairness ==
    /\ \A l \in Loops : []<>(loop[l] = "ended") \/ []<><<LoopStep(l)>>_cvars
    /\ \A c \in Clients : WF_cvars(TakeResponse(c))

FairConnSpec == ConnSpec /\ ConnFairness

-----------------------------------------------------------------------------
(* g_conns is the number of connections the loops hold, through every way  *)
(* a connection can end: end of file, an error, a line too long, idleness, *)
(* no memory, the end of its loop.                                         *)
ConnsCounted == g_conns = Cardinality(Counted)

(* The cap is looked at before the connection is counted, by several       *)
(* loops: they overshoot it by at most one connection per other loop.      *)
CapNearlyHolds == g_conns <= MaxConn + Cardinality(Loops) - 1

(* The hard cap as the comments on loop_accept state it.                   *)
CapHolds == g_conns <= MaxConn

(* What a connection has answered, a staged response included.             *)
Answers(k) == IF k.rem > 0 THEN Append(k.wrote, k.cur) ELSE k.wrote

(* Requests pipelined on a connection are answered in their order, each    *)
(* once: what has been written, with what is staged, is every request      *)
(* handled so far.  0 stands for the answer to a line that is too long:    *)
(* nothing is answered after it.                                           *)
AnswersInOrder ==
    \A c \in Clients :
        LET requests == [i \in 1 .. conn[c].handled |-> i]
        IN  Answers(conn[c]) = IF conn[c].closing THEN Append(requests, 0) ELSE requests

(* A loop that waits for a peer's bytes holds no complete request of that  *)
(* peer: poll asks for readability only, so such a request would wait for  *)
(* bytes that may never come.                                              *)
NoRequestStranded ==
    \A c \in Open : c \notin ready[at[c]] /\ conn[c].rem = 0 =>
        ~HasLine(conn[c].rbuf) /\ Len(conn[c].rbuf) <= Limit

(* A peer that ends its side has its buffered requests answered first,     *)
(* unless a response could not be written at once.                         *)
AnsweredBeforeEof ==
    \A c \in Clients : st[c] = "eof" /\ conn[c].rem = 0 => ~HasLine(conn[c].rbuf)

(* The same without the exception, as the comment in the loop has it.      *)
EofProcessesBuffered ==
    \A c \in Clients : st[c] = "eof" => ~HasLine(conn[c].rbuf) /\ conn[c].rem = 0

(* The number of requests among the bytes a client has sent.               *)
Requests(c) == Cardinality({i \in 2 .. sent[c] : stream[c][i] = "nl" /\ stream[c][i - 1] # "nl"})

(* Every request of a client that stays connected and reads its responses  *)
(* is answered, however its bytes were cut up and however often its        *)
(* responses had to wait for room.                                         *)
EveryRequestAnswered ==
    \A c \in Clients : <>[](st[c] = "open" => Len(conn[c].wrote) >= Requests(c))
=============================================================================
