------------------------------ MODULE MCServer ------------------------------
(***************************************************************************)
(* The server process: the client port, the replication source and the     *)
(* admission of requests.  The three share no variable and no lock, so a   *)
(* behaviour of the process is an interleaving of one behaviour of each    *)
(* and a property of one part holds of the process when it holds of the    *)
(* part alone: the instance runs one part at a time, which part says.      *)
(***************************************************************************)
EXTENDS Connections, ReplicaSource, Admission, TLC

CONSTANTS c1, c2, c3, l1, l2

VARIABLE part

(* c1 and c2 reach the listener of l1, c3 that of l2.                      *)
Arrive(w, s, t) ==
    [who |-> w, at |-> (c1 :> l1) @@ (c2 :> l1) @@ (c3 :> l2),
     stream |-> (c1 :> s) @@ (c2 :> <<>>) @@ (c3 :> t)]

(* Three connections for one slot; two loops with a request each; three    *)
(* pipelined requests; a line that is too long.                            *)
MCPlans ==
    {Arrive({c1, c2, c3}, <<>>, <<>>),
     Arrive({c1, c3}, <<"a", "nl">>, <<"nl", "a", "nl">>),
     Arrive({c1}, <<"a", "nl", "a", "nl", "a", "nl">>, <<>>),
     Arrive({c1}, <<"nl", "a", "a", "a", "a">>, <<>>)}

(* A file written by hand with the short forms, and one with a tenant      *)
(* called admin.                                                           *)
MCFiles ==
    {<< <<"k0">>, <<"k1", "acme">> >>,
     << <<"k0", "admin">>, <<"k1", "admin", "rw">> >>}

(* The parts that do not run have one initial state.                       *)
Pinned ==
    /\ part # "port" => (\A c \in Clients : st[c] = "new")
    /\ part # "admission" => qps = 1 /\ readOnly = FALSE /\ Len(file[1]) = 1

ServerInit ==
    /\ part \in {"port", "source", "admission"}
    /\ ConnInit /\ SourceInit /\ AdmissionInit /\ Pinned

ServerNext ==
    \/ part = "port" /\ ConnNext /\ UNCHANGED <<part, rvars, avars>>
    \/ part = "source" /\ SourceNext /\ UNCHANGED <<part, cvars, avars>>
    \/ part = "admission" /\ AdmissionNext /\ UNCHANGED <<part, cvars, rvars>>

(* ConnFairness and SourceFairness, of the part that runs.                 *)
ServerFairness ==
    /\ \A l \in Loops :
          []<>(part # "port" \/ loop[l] = "ended") \/ []<><<part = "port" /\ LoopStep(l)>>_cvars
    /\ \A c \in Clients : WF_cvars(part = "port" /\ TakeResponse(c))
    /\ WF_rvars(part = "source" /\ Acceptor)
    /\ WF_rvars(part = "source" /\ Stopper /\ stop)
    /\ \A p \in Peers : WF_rvars(part = "source" /\ Streamer(p))

ServerSpec == ServerInit /\ [][ServerNext]_<<part, cvars, rvars, avars>>
FairServerSpec == ServerSpec /\ ServerFairness
=============================================================================
