------------------------------ MODULE Adapters ------------------------------
(***************************************************************************)
(* The adapters between chat clients and the daemon.  Each is a process of *)
(* its own: it loads or makes the shared token, and the first to find port *)
(* 8766 free also receives observations from the browser extension.  An    *)
(* observation is posted up to three times; every attempt is one IPC call  *)
(* with a timeout, and the daemon goes on with a call its caller gave up.  *)
(* The stdio adapter answers one request at a time.                        *)
(***************************************************************************)
EXTENDS Integers, Sequences, FiniteSets

CONSTANTS
  Running,      (* adapters, by process                                    *)
  Posts,        (* observations the extension has to deliver               *)
  Lines,        (* requests on the stdio adapter's input, in order         *)
  NoOne,
  MaxPosts,     (* attempts for one observation                            *)
  MaxEnds,      (* bound: adapters that end                                *)
  MaxDaemonEnds (* bound: crashes of the daemon                            *)

Tries == Posts \X (1..MaxPosts)
LineKinds == {"call", "note", "junk", "garbled"}

ASSUME AdaptersAssumption ==
  /\ NoOne \notin Running
  /\ Lines \in Seq(LineKinds)
  /\ MaxPosts \in Nat \ {0} /\ MaxEnds \in Nat /\ MaxDaemonEnds \in Nat

VARIABLES
  tokenFile, tokenTmp, (* who wrote the token and its temporary file       *)
  token,               (* the token each adapter runs with                 *)
  up,                  (* where each adapter is                            *)
  crowded,             (* two adapters were making the token at once       *)
  receiver,            (* owner of port 8766                               *)
  ended,               (* adapters that owned it and ended                 *)
  daemonRuns, daemonEnds,
  malformed,           (* observations without a session or a text         *)
  posted,              (* attempts made for each observation               *)
  delivered,           (* what postCollect returned                        *)
  handling,            (* the adapter's handler of each attempt            *)
  job,                 (* the daemon's call of each attempt                *)
  line, replies        (* the stdio adapter: requests read, replies        *)

startVars == <<tokenFile, tokenTmp, token, up, crowded, receiver, ended>>
postVars == <<posted, delivered, handling, job>>
stdioVars == <<line, replies>>
adapterVars == <<startVars, daemonRuns, daemonEnds, malformed, postVars, stdioVars>>

AdapterInit ==
  /\ tokenFile = NoOne /\ tokenTmp = NoOne
  /\ token = [a \in Running |-> NoOne] /\ up = [a \in Running |-> "off"]
  /\ crowded = FALSE /\ receiver = NoOne /\ ended = {}
  /\ daemonRuns = TRUE /\ daemonEnds = 0
  /\ malformed \in SUBSET Posts
  /\ posted = [x \in Posts |-> 0] /\ delivered = [x \in Posts |-> "open"]
  /\ handling = [t \in Tries |-> "none"] /\ job = [t \in Tries |-> "none"]
  /\ line = 0 /\ replies = <<>>

(* Starting: the token file, the port, the servers.                        *)
Goes(a, s) == up' = [up EXCEPT ![a] = s]
Making == {a \in Running : up[a] \in {"making", "written"}}

(* Fault model: the file is made without looking for it.                   *)
LoadTokenUnchecked(a) ==
  /\ up[a] = "off" /\ a \notin ended
  /\ Goes(a, "making") /\ crowded' = (crowded \/ Making # {})
  /\ UNCHANGED <<tokenFile, tokenTmp, token, receiver, ended>>

LoadToken(a) ==
  /\ up[a] = "off" /\ a \notin ended
  /\ \/ /\ tokenFile = NoOne
        /\ Goes(a, "making") /\ crowded' = (crowded \/ Making # {})
        /\ UNCHANGED token
     \/ /\ tokenFile # NoOne
        /\ Goes(a, "loaded") /\ token' = [token EXCEPT ![a] = tokenFile]
        /\ UNCHANGED crowded
  /\ UNCHANGED <<tokenFile, tokenTmp, receiver, ended>>

WriteToken(a) ==
  /\ up[a] = "making"
  /\ tokenTmp' = a /\ Goes(a, "written")
  /\ UNCHANGED <<tokenFile, token, crowded, receiver, ended>>

(* The rename takes whatever the temporary file holds; without one it      *)
(* fails, and the import of the adapter with it.                           *)
ReplaceToken(a) ==
  /\ up[a] = "written"
  /\ \/ /\ tokenTmp # NoOne
        /\ tokenFile' = tokenTmp /\ tokenTmp' = NoOne
        /\ token' = [token EXCEPT ![a] = a] /\ Goes(a, "loaded")
     \/ /\ tokenTmp = NoOne
        /\ Goes(a, "dead") /\ UNCHANGED <<tokenFile, tokenTmp, token>>
  /\ UNCHANGED <<crowded, receiver, ended>>

LooksForPort(a) ==
  /\ up[a] = "loaded"
  /\ Goes(a, IF receiver = NoOne THEN "binding" ELSE "serving")
  /\ UNCHANGED <<tokenFile, tokenTmp, token, crowded, receiver, ended>>

(* A server that cannot bind exits, and takes the adapter with it.         *)
Binds(a) ==
  /\ up[a] = "binding"
  /\ \/ receiver = NoOne /\ receiver' = a /\ Goes(a, "serving")
     \/ receiver # NoOne /\ Goes(a, "dead") /\ UNCHANGED receiver
  /\ UNCHANGED <<tokenFile, tokenTmp, token, crowded, ended>>

AdapterEnds(a) ==
  /\ up[a] = "serving" /\ Cardinality(ended) < MaxEnds
  /\ Goes(a, "off") /\ ended' = ended \cup {a}
  /\ receiver' = IF receiver = a THEN NoOne ELSE receiver
  /\ handling' = [t \in Tries |->
       IF receiver = a /\ handling[t] \in {"read", "asking"} THEN "gone" ELSE handling[t]]
  /\ UNCHANGED <<tokenFile, tokenTmp, token, crowded, posted, delivered, job>>

Starting(a) ==
  \/ /\ LoadToken(a) \/ WriteToken(a) \/ ReplaceToken(a) \/ LooksForPort(a) \/ Binds(a)
     /\ UNCHANGED postVars
  \/ AdapterEnds(a)

(* One attempt: POST /observe, safe_ipc_call, the daemon's dispatch.       *)
Handles(t, h) == handling' = [handling EXCEPT ![t] = h]

Post(x) ==
  /\ delivered[x] = "open" /\ posted[x] < MaxPosts
  /\ posted[x] > 0 => handling[<<x, posted[x]>>] \in {"error", "gone", "late"}
  /\ posted' = [posted EXCEPT ![x] = @ + 1]
  /\ Handles(<<x, posted[x] + 1>>, IF receiver = NoOne THEN "gone" ELSE "read")
  /\ UNCHANGED <<delivered, job>>

HandleObserve(t) ==
  /\ handling[t] = "read"
  /\ \/ t[1] \in malformed /\ Handles(t, "bad") /\ UNCHANGED job
     \/ t[1] \notin malformed /\ ~daemonRuns /\ Handles(t, "error") /\ UNCHANGED job
     \/ /\ t[1] \notin malformed /\ daemonRuns
        /\ Handles(t, "asking") /\ job' = [job EXCEPT ![t] = "queued"]
  /\ UNCHANGED <<posted, delivered>>

Dispatched(t) ==
  /\ job[t] = "queued" /\ daemonRuns
  /\ job' = [job EXCEPT ![t] = "done"]
  /\ UNCHANGED <<posted, delivered, handling>>

(* Fault model: a call that timed out counts as made.                      *)
CallReturnsOptimistic(t) ==
  /\ handling[t] = "asking"
  /\ Handles(t, IF job[t] = "lost" THEN "error" ELSE "ok")
  /\ UNCHANGED <<posted, delivered, job>>

(* The reply, the end of the connection, or nothing within the timeout.    *)
CallReturns(t) ==
  /\ handling[t] = "asking"
  /\ \/ job[t] = "done" /\ Handles(t, "ok")
     \/ job[t] = "lost" /\ Handles(t, "error")
     \/ job[t] \in {"queued", "done"} /\ Handles(t, "late")
  /\ UNCHANGED <<posted, delivered, job>>

(* fetch() gives up while the adapter still waits; its call goes on.       *)
FetchTimesOut(t) ==
  /\ handling[t] \in {"read", "asking"} /\ posted[t[1]] = t[2]
  /\ Handles(t, "late")
  /\ job' = [job EXCEPT ![t] = IF handling[t] = "read" /\ daemonRuns /\ t[1] \notin malformed
                               THEN "queued" ELSE @]
  /\ UNCHANGED <<posted, delivered>>

Settle(x) ==
  /\ delivered[x] = "open" /\ posted[x] > 0
  /\ LET h == handling[<<x, posted[x]>>]
     IN \/ h = "ok" /\ delivered' = [delivered EXCEPT ![x] = "true"]
        \/ h = "bad" /\ delivered' = [delivered EXCEPT ![x] = "false"]
        \/ /\ h \in {"error", "gone", "late"} /\ posted[x] = MaxPosts
           /\ delivered' = [delivered EXCEPT ![x] = "false"]
  /\ UNCHANGED <<posted, handling, job>>

Posting ==
  \/ \E x \in Posts : Post(x) \/ Settle(x)
  \/ \E t \in Tries : HandleObserve(t) \/ Dispatched(t) \/ CallReturns(t) \/ FetchTimesOut(t)

(* The stdio adapter's loop.  A line that is not JSON is passed over, one  *)
(* that is JSON but no object ends the loop; a notification has no reply.  *)
ReadsOn == line < Len(Lines) /\ (line > 0 => Lines[line] # "junk")

StdioRequest ==
  /\ ReadsOn
  /\ line' = line + 1
  /\ LET kind == Lines[line + 1]
     IN IF kind = "call"
        THEN \E verdict \in IF daemonRuns THEN {"result", "error"} ELSE {"error"} :
               replies' = Append(replies, <<line + 1, verdict>>)
        ELSE UNCHANGED replies

DaemonStops ==
  /\ daemonRuns /\ daemonEnds < MaxDaemonEnds
  /\ daemonRuns' = FALSE /\ daemonEnds' = daemonEnds + 1
  /\ job' = [t \in Tries |-> IF job[t] = "queued" THEN "lost" ELSE job[t]]
  /\ UNCHANGED <<startVars, posted, delivered, handling, stdioVars>>

DaemonStarts ==
  /\ ~daemonRuns /\ daemonRuns' = TRUE
  /\ UNCHANGED <<startVars, daemonEnds, postVars, stdioVars>>

AdapterNext ==
  /\ UNCHANGED malformed
  /\ \/ (\E a \in Running : Starting(a)) /\ UNCHANGED <<daemonRuns, daemonEnds, stdioVars>>
     \/ Posting /\ UNCHANGED <<startVars, daemonRuns, daemonEnds, stdioVars>>
     \/ StdioRequest /\ UNCHANGED <<startVars, daemonRuns, daemonEnds, postVars>>
     \/ DaemonStops \/ DaemonStarts

-----------------------------------------------------------------------------
AdapterTypeOK ==
  /\ tokenFile \in Running \cup {NoOne} /\ tokenTmp \in Running \cup {NoOne}
  /\ token \in [Running -> Running \cup {NoOne}]
  /\ up \in [Running -> {"off", "making", "written", "loaded", "binding", "serving", "dead"}]
  /\ crowded \in BOOLEAN /\ receiver \in Running \cup {NoOne} /\ ended \subseteq Running
  /\ daemonRuns \in BOOLEAN /\ daemonEnds \in 0..MaxDaemonEnds
  /\ malformed \subseteq Posts
  /\ posted \in [Posts -> 0..MaxPosts] /\ delivered \in [Posts -> {"open", "true", "false"}]
  /\ handling \in [Tries -> {"none", "read", "asking", "ok", "bad", "error", "late", "gone"}]
  /\ job \in [Tries -> {"none", "queued", "done", "lost"}]
  /\ line \in 0..Len(Lines) /\ replies \in Seq((1..Len(Lines)) \X {"result", "error"})

Taken(x) == {n \in 1..MaxPosts : job[<<x, n>>] = "done"}

(* Adapters that did not make the token at the same time all run with the  *)
(* one in the file.  An observation reported as delivered was taken by the *)
(* daemon, a rejected one never, and it is taken again only after attempts *)
(* whose answer was late or lost.  The stdio adapter answers in order,     *)
(* every call it read, and once.                                           *)
AdaptersSound ==
  /\ ~crowded => \A a \in Running : up[a] \in {"loaded", "binding", "serving"} => token[a] = tokenFile
  /\ receiver # NoOne => up[receiver] = "serving"
  /\ \A x \in Posts :
       /\ (delivered[x] = "true") => (Taken(x) # {})
       /\ x \in malformed => (Taken(x) = {})
       /\ Cardinality(Taken(x) \ {n \in 1..MaxPosts : handling[<<x, n>>] \in {"late", "gone"}}) <= 1
  /\ {replies[i][1] : i \in DOMAIN replies} = {n \in 1..line : Lines[n] = "call"}
  /\ \A i, j \in DOMAIN replies : i < j => replies[i][1] < replies[j][1]
=============================================================================
