--------------------------- MODULE IngestService ---------------------------
(***************************************************************************)
(* `jitterctl serve' and its clients: TcpIngestServer and TcpIngestClient  *)
(* of src/src/transport.cpp, the probe that drives a client through a plan *)
(* and the server process, which serves one connection after the other and *)
(* saves the engine once it has served them all.  Connections are cut,     *)
(* clients die, servers fail and are started again on their store.         *)
(*                                                                         *)
(* A frame is its type and, for a batch, the batch and its source.  The    *)
(* clients beside the probe send any frame at any time.  The engine is     *)
(* SourceFence; the guard of one incarnation and epoch comes back from a   *)
(* store as it was (EngineRestart treats the others).  Statistics, byte    *)
(* counts and the texts of refusals are left out.                          *)
(***************************************************************************)
EXTENDS SourceFence, SequencesExt

CONSTANTS
  Probes,          (* runs of jitter-ingest-probe                          *)
  Plan,            (* the batch frames each run makes of its plan file     *)
  Peers,           (* clients of another make                              *)
  Frames,          (* frames the peers send                                *)
  Nobody,
  MaxConnections,  (* --connections                                        *)
  MaxBatches,      (* config_.max_batches_per_connection                   *)
  MaxSaid,         (* bound: frames of one peer                            *)
  MaxFaults,       (* bound: connections cut and probes killed             *)
  MaxLives         (* bound: server processes                              *)

Types == {"hello",       (* of the supported version                       *)
          "hello_other", (* of another version                             *)
          "batch", "bye",
          "refused",     (* of a type for a server to send, or a payload   *)
                         (* that cannot be parsed                          *)
          "damaged"}     (* decode_frame fails                             *)

Clients == Probes \cup Peers

(* The batches of one plan are all different: make_batches numbers them      *)
(* (src/src/scenario.cpp).                                                   *)
ASSUME ServiceAssumption ==
  /\ Nobody \notin Clients /\ Probes \cap Peers = {}
  /\ \A f \in Frames : f.type \in Types /\ (f.type = "batch" => f.batch \in Batch)
  /\ \A c \in Probes :
       /\ Plan[c] \in Seq(Range(Plan[c]))
       /\ \A f \in Range(Plan[c]) : f.type = "batch" /\ f.batch \in Batch
       /\ \A i, j \in DOMAIN Plan[c] : i # j => Plan[c][i] # Plan[c][j]
  /\ \A p, q \in Positions : p.incarnation = q.incarnation /\ p.epoch = q.epoch
  /\ MaxConnections \in Nat \ {0} /\ MaxBatches \in Nat
  /\ MaxSaid \in Nat /\ MaxFaults \in Nat /\ MaxLives \in Nat

VARIABLES
  up,       (* the server process runs                                     *)
  left,     (* connections serve() has still to accept                     *)
  backlog,  (* connections the listener has not accepted yet               *)
  serving,  (* the client whose connection is handled                      *)
  greeted,  (* hello_accepted                                              *)
  batches,  (* batches                                                     *)
  store,    (* the file: what the engine held when it was last saved       *)
  line,     (* "none", "open", "hungup" by the client, "cut", or "closed"   *)
            (* by the server                                               *)
  toServer, toClient,  (* the frames on their way                          *)
  probe,    (* "start", waits for an answer to "hello" or "batch", or exit *)
            (* code                                                        *)
  next,     (* the batch of the plan the probe is at                       *)
  counted,  (* the batches of the plan that it counts as acknowledged      *)
  took,     (* history: the frames accepted on each connection             *)
  said, faults, lives  (* counters of the bounds                           *)

serverVars == <<up, left, backlog, serving, greeted, batches, store, lives>>
probeVars == <<probe, next, counted>>
lineVars == <<line, toServer, toClient>>
sessionVars == <<serverVars, probeVars, lineVars, took, said, faults>>
allVars == <<vars, sessionVars>>

ExitCodes == {"0", "2", "3", "4"}

Empty == [guards |-> [s \in Sources |-> NewGuard], conflicts |-> {},
          accepted |-> [s \in Sources |-> <<>>]]

ServiceInit ==
  /\ Init
  /\ up = TRUE /\ left = MaxConnections /\ backlog = <<>> /\ serving = Nobody
  /\ greeted = FALSE /\ batches = 0 /\ store = Empty /\ lives = 1
  /\ line = [c \in Clients |-> "none"]
  /\ toServer = [c \in Clients |-> <<>>] /\ toClient = [c \in Clients |-> <<>>]
  /\ probe = [c \in Probes |-> "start"] /\ next = [c \in Probes |-> 1]
  /\ counted = [c \in Probes |-> {}] /\ took = [c \in Clients |-> {}]
  /\ said = [p \in Peers |-> 0] /\ faults = 0

----------------------------------------------------------------------------
(* The connections.  When one ends, what is still on its way may be lost.    *)

Beginnings(s) == {SubSeq(s, 1, n) : n \in 0..Len(s)}

Connect(c) ==
  /\ up /\ line[c] = "none"
  /\ line' = [line EXCEPT ![c] = "open"]
  /\ backlog' = Append(backlog, c)
  /\ UNCHANGED <<up, left, serving, greeted, batches, store, lives>>

Cut(c) ==
  /\ line[c] = "open" /\ faults < MaxFaults /\ faults' = faults + 1
  /\ line' = [line EXCEPT ![c] = "cut"]
  /\ \E s \in Beginnings(toServer[c]), t \in Beginnings(toClient[c]) :
       /\ toServer' = [toServer EXCEPT ![c] = s]
       /\ toClient' = [toClient EXCEPT ![c] = t]
  /\ UNCHANGED <<vars, serverVars, probeVars, took, said>>

(* The end of the server process ends every connection.                      *)
Down ==
  /\ up' = FALSE /\ serving' = Nobody /\ backlog' = <<>>
  /\ line' = [c \in Clients |-> IF line[c] = "none" THEN "none" ELSE "closed"]
  /\ toServer' = [c \in Clients |-> <<>>]
  /\ toClient' \in {toClient, [c \in Clients |-> <<>>]}
  /\ UNCHANGED <<left, lives, probeVars, said, faults>>

----------------------------------------------------------------------------
(* The server. *)

(* accept_one, in the loop of serve. *)
Accept ==
  /\ up /\ serving = Nobody /\ left > 0 /\ backlog # <<>>
  /\ serving' = Head(backlog) /\ backlog' = Tail(backlog) /\ left' = left - 1
  /\ greeted' = FALSE /\ batches' = 0
  /\ UNCHANGED <<vars, up, store, lives, probeVars, lineVars, took, said, faults>>

(* serve gives up at the first connection that fails and the process ends    *)
(* with nothing saved, as it does when it writes to a connection that is     *)
(* gone and no one handles the signal.                                       *)
Fail == Down /\ UNCHANGED store

(* handle_connection returns and the socket is closed.                       *)
Finish(last) ==
  /\ serving' = Nobody
  /\ line' = [line EXCEPT ![serving] = "closed"]
  /\ toServer' = [toServer EXCEPT ![serving] = <<>>]
  /\ \E arrives \in BOOLEAN :
       toClient' = [toClient EXCEPT ![serving] = IF arrives THEN @ \o last ELSE <<>>]
  /\ UNCHANGED <<up, left, backlog, store, lives, probeVars, said, faults>>

Gone == line[serving] # "open"

(* send_error, and the end of the connection.                                *)
Refuse == Finish(<<[type |-> "error"]>>) \/ (Gone /\ Fail)

(* An answer is written and the loop goes on; on a connection that is gone   *)
(* it is lost, or the write fails.                                           *)
Answer(frame) ==
  \/ /\ toServer' = [toServer EXCEPT ![serving] = Tail(@)]
     /\ toClient' = [toClient EXCEPT ![serving] = IF Gone THEN @ ELSE Append(@, frame)]
     /\ UNCHANGED <<line, up, left, backlog, serving, store, lives, probeVars, said, faults>>
  \/ Gone /\ Fail

Heard(type) == /\ serving # Nobody /\ toServer[serving] # <<>>
               /\ Head(toServer[serving]).type = type

HandleHello ==
  \E supported \in BOOLEAN :
    /\ Heard(IF supported THEN "hello" ELSE "hello_other")
    /\ greeted' = supported
    /\ Answer([type |-> "hello_ack", accepted |-> supported])
    /\ UNCHANGED <<vars, batches, took>>

RefuseBatchFrame ==
  /\ Heard("batch") /\ (~greeted \/ batches = MaxBatches)
  /\ Refuse
  /\ UNCHANGED <<vars, greeted, batches, took>>

(* The engine decides, then the client hears of it: batch_ack.accepted is    *)
(* outcome.admitted(), which is false of a duplicate.                        *)
Admits(f) == f.source \in Sources /\ Verdict(f.source, f.batch, FALSE) = "accept"

Ingested(f) ==
  \/ f.source \notin Sources /\ UNCHANGED vars
  \/ /\ f.source \in Sources
     /\ \/ AcceptBatch(f.source, f.batch) \/ RecordConflict(f.source, f.batch)
        \/ RefuseBatch(f.source, f.batch)

(* Plausible faults: a duplicate is acknowledged as if it had been accepted; *)
(* it is not answered.                                                       *)
HandleBatchDuplicateToo ==
  LET f == Head(toServer[serving]) IN
  /\ Heard("batch") /\ greeted /\ batches < MaxBatches
  /\ batches' = batches + 1
  /\ Ingested(f)
  /\ took' = IF Admits(f) THEN [took EXCEPT ![serving] = @ \cup {f}] ELSE took
  /\ Answer([type |-> "batch_ack",
             accepted |-> f.source \in Sources /\ Verdict(f.source, f.batch, FALSE) \notin Stale])
  /\ UNCHANGED greeted

HandleBatchSilently ==
  LET f == Head(toServer[serving]) IN
  /\ Heard("batch") /\ greeted /\ batches < MaxBatches
  /\ batches' = batches + 1
  /\ Ingested(f)
  /\ took' = IF Admits(f) THEN [took EXCEPT ![serving] = @ \cup {f}] ELSE took
  /\ IF Admits(f) THEN Answer([type |-> "batch_ack", accepted |-> TRUE])
     ELSE /\ toServer' = [toServer EXCEPT ![serving] = Tail(@)]
          /\ UNCHANGED <<toClient, line, up, left, backlog, serving, store, lives, probeVars,
                         said, faults>>
  /\ UNCHANGED greeted

HandleBatch ==
  LET f == Head(toServer[serving]) IN
  /\ Heard("batch") /\ greeted /\ batches < MaxBatches
  /\ batches' = batches + 1
  /\ Ingested(f)
  /\ took' = IF Admits(f) THEN [took EXCEPT ![serving] = @ \cup {f}] ELSE took
  /\ Answer([type |-> "batch_ack", accepted |-> Admits(f)])
  /\ UNCHANGED greeted

(* What is not a hello, a batch or a bye, or cannot be parsed.               *)
HandleOther == Heard("refused") /\ Refuse /\ UNCHANGED <<vars, greeted, batches, took>>

HandleBye == Heard("bye") /\ Finish(<<>>) /\ UNCHANGED <<vars, greeted, batches, took>>

(* read_frame fails: the peer has closed, or there is an error.              *)
ReadFails ==
  /\ \/ /\ serving # Nobody /\ toServer[serving] = <<>> /\ line[serving] = "hungup"
        /\ Finish(<<>>)
     \/ /\ serving # Nobody /\ toServer[serving] = <<>> /\ line[serving] = "cut"
        /\ Fail
     \/ Heard("damaged") /\ Fail
  /\ UNCHANGED <<vars, greeted, batches, took>>

(* All connections have been served. *)
Save ==
  /\ up /\ serving = Nobody /\ left = 0
  /\ store' = [guards |-> guards, conflicts |-> conflicts, accepted |-> accepted]
  /\ Down
  /\ UNCHANGED <<vars, greeted, batches, took>>

(* Plausible fault: the guards do not come back. *)
RestartUnguarded ==
  /\ ~up /\ lives < MaxLives /\ lives' = lives + 1
  /\ up' = TRUE /\ left' = MaxConnections
  /\ guards' = [s \in Sources |-> NewGuard]
  /\ conflicts' = store.conflicts /\ accepted' = store.accepted
  /\ dropped' = 0 /\ recorded' = 0
  /\ UNCHANGED <<archived, backlog, serving, greeted, batches, store, probeVars, lineVars,
                 took, said, faults>>

(* Another process, on the store that is there. *)
Restart ==
  /\ ~up /\ lives < MaxLives /\ lives' = lives + 1
  /\ up' = TRUE /\ left' = MaxConnections
  /\ guards' = store.guards /\ conflicts' = store.conflicts /\ accepted' = store.accepted
  /\ dropped' = 0 /\ recorded' = 0
  /\ UNCHANGED <<archived, backlog, serving, greeted, batches, store, probeVars, lineVars,
                 took, said, faults>>

----------------------------------------------------------------------------
(* The probe.  It sends a frame and waits for the answer, so a frame it      *)
(* writes to a connection that is gone shows in the read that follows.       *)

(* What its next write leaves on the way. *)
Sent(c, frame) ==
  toServer' = [toServer EXCEPT ![c] = IF line[c] = "open" THEN Append(@, frame) ELSE @]

HungUp(c) == [line EXCEPT ![c] = IF @ = "open" THEN "hungup" ELSE @]

ProbeConnects(c) ==
  /\ probe[c] = "start"
  /\ \/ /\ Connect(c) /\ probe' = [probe EXCEPT ![c] = "hello"]
        /\ toServer' = [toServer EXCEPT ![c] = <<[type |-> "hello"]>>]
     \/ /\ ~up /\ probe' = [probe EXCEPT ![c] = "4"]
        /\ UNCHANGED <<serverVars, line, toServer>>
  /\ UNCHANGED <<vars, toClient, next, counted, took, said, faults>>

(* The next batch of the plan, or bye and the report.                        *)
Advance(c, i, acknowledged) ==
  /\ next' = [next EXCEPT ![c] = i] /\ counted' = [counted EXCEPT ![c] = acknowledged]
  /\ IF i <= Len(Plan[c])
       THEN /\ Sent(c, Plan[c][i]) /\ probe' = [probe EXCEPT ![c] = "batch"]
            /\ UNCHANGED line
       ELSE /\ Sent(c, [type |-> "bye"]) /\ line' = HungUp(c)
            /\ probe' = [probe EXCEPT ![c] =
                 IF acknowledged = DOMAIN Plan[c] THEN "0" ELSE "3"]

Leave(c, code) ==
  /\ probe' = [probe EXCEPT ![c] = code] /\ line' = HungUp(c)
  /\ UNCHANGED <<toServer, next, counted>>

(* handshake and send_batch return. *)
ProbeHears(c) ==
  LET f == Head(toClient[c]) IN
  /\ probe[c] \in {"hello", "batch"} /\ toClient[c] # <<>>
  /\ toClient' = [toClient EXCEPT ![c] = Tail(@)]
  /\ IF f.type # (IF probe[c] = "hello" THEN "hello_ack" ELSE "batch_ack") THEN Leave(c, "4")
     ELSE IF probe[c] = "hello" THEN
       IF f.accepted THEN Advance(c, 1, {}) ELSE Leave(c, "2")
     ELSE Advance(c, next[c] + 1, counted[c] \cup IF f.accepted THEN {next[c]} ELSE {})
  /\ UNCHANGED <<vars, serverVars, took, said, faults>>

ProbeLoses(c) ==
  /\ probe[c] \in {"hello", "batch"} /\ toClient[c] = <<>> /\ line[c] # "open"
  /\ Leave(c, "4")
  /\ UNCHANGED <<vars, serverVars, toClient, took, said, faults>>

ProbeDies(c) ==
  /\ probe[c] \in {"hello", "batch"} /\ faults < MaxFaults /\ faults' = faults + 1
  /\ Leave(c, "4")
  /\ UNCHANGED <<vars, serverVars, toClient, took, said>>

----------------------------------------------------------------------------
(* Clients of another make. *)

PeerConnects(p) ==
  Connect(p) /\ UNCHANGED <<vars, probeVars, toServer, toClient, took, said, faults>>

Say(p, f) ==
  /\ line[p] = "open" /\ said[p] < MaxSaid /\ said' = [said EXCEPT ![p] = @ + 1]
  /\ toServer' = [toServer EXCEPT ![p] = Append(@, f)]
  /\ UNCHANGED <<vars, serverVars, probeVars, line, toClient, took, faults>>

HangUp(p) ==
  /\ line[p] = "open" /\ line' = HungUp(p)
  /\ UNCHANGED <<vars, serverVars, probeVars, toServer, toClient, took, said, faults>>

----------------------------------------------------------------------------
ServerStep ==
  \/ Accept \/ HandleHello \/ RefuseBatchFrame \/ HandleBatch \/ HandleOther \/ HandleBye
  \/ ReadFails \/ Save

ProbeStep(c) == ProbeHears(c) \/ ProbeLoses(c)

ServiceNext ==
  \/ ServerStep \/ Restart
  \/ \E c \in Probes : ProbeConnects(c) \/ ProbeStep(c) \/ ProbeDies(c)
  \/ \E p \in Peers : PeerConnects(p) \/ HangUp(p) \/ \E f \in Frames : Say(p, f)
  \/ \E c \in Clients : Cut(c)

(* Processes that run go on; nobody has to connect, to speak or to start the *)
(* server again.                                                             *)
ServiceSpec ==
  /\ ServiceInit /\ [][ServiceNext]_allVars
  /\ WF_allVars(ServerStep) /\ \A c \in Probes : WF_allVars(ProbeStep(c))

----------------------------------------------------------------------------
(* What a probe believes is true although no answer names its batch to it    *)
(* (send_batch does not look): every batch before the one it is at was       *)
(* accepted on this connection exactly if it counts it as acknowledged, and  *)
(* none behind it was.  So whatever broke, one batch at most is in doubt,    *)
(* and a probe that exits with 0 has every batch accepted                    *)
(* (docs/tooling.md:75).                                                     *)
AnswersAreTrue ==
  \A c \in Probes : \A i \in DOMAIN Plan[c] :
    /\ i < next[c] => (Plan[c][i] \in took[c] <=> i \in counted[c])
    /\ i > next[c] => Plan[c][i] \notin took[c]
    /\ probe[c] = "0" => Plan[c][i] \in took[c]

(* What a store holds is not accepted again, by whatever server is started   *)
(* on it, however often probes repeat their plans and connections break; and *)
(* a saved batch stays saved (serve, save, restore).                         *)
SavedIsFinal ==
  [][/\ \A c \in Clients : \A f \in took'[c] \ took[c] : f.batch \notin Range(store.accepted[f.source])
     /\ \A s \in Sources : IsPrefix(store.accepted[s], store'.accepted[s])]_allVars

(* A server and a probe never both wait for the other to speak.              *)
SomeoneSpeaks ==
  serving \in Probes =>
    \/ probe[serving] \in ExitCodes \/ line[serving] # "open"
    \/ toServer[serving] # <<>> \/ toClient[serving] # <<>>

(* Every probe that connects ends, whatever is cut and whoever fails, unless *)
(* another client keeps its connection open for ever: there is no timer      *)
(* (docs/tooling.md:95).                                                     *)
ProbesEnd ==
  (\A p \in Peers : line[p] = "open" ~> line[p] # "open") =>
    \A c \in Probes : probe[c] \in {"hello", "batch"} ~> probe[c] \in ExitCodes
=============================================================================
