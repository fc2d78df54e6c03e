------------------------------- MODULE ReplayTrace -------------------------------
(***************************************************************************)
(* scripts/replay_trace.py: a server is launched, the requests of a trace  *)
(* are sent to it by a pool of threads, each streaming its answer, and the *)
(* cached tokens they report are summed up beside the server's own         *)
(* counters.                                                               *)
(*                                                                         *)
(* The server's prefix cache is external: a request matches some prefix of *)
(* what was inserted before (eviction may leave less than all of it) and   *)
(* is inserted itself when it has been prefilled, so that two requests in  *)
(* flight can both miss what they share; when it ends, the tokens that     *)
(* were generated for it stay cached behind its prompt.  A request its     *)
(* client gave up may still be served.                                     *)
(***************************************************************************)
EXTENDS ServerGroup, Trace

CONSTANTS
  Server,
  Traces,          \* sets of rows: [sequences, groups]
  Concurrency,     \* max_workers
  MaxNewTokens,    \* max_new_tokens; with ignore_eos every answer has as many
  Vocabulary,      \* the tokens that may be generated
  WarmUp           \* what SGLang's own warm-up leaves in the cache

ASSUME ReplayAssumption ==
  /\ Server \in Servers
  /\ Concurrency \in Nat \ {0} /\ MaxNewTokens \in Nat \ {0}
  /\ Vocabulary \subseteq Nat

(* The rows of a trace are the benchmark's prompts; none of them is empty.  *)
ASSUME TracesAssumption == \A t \in Traces : t.sequences \in Seq(Seq(Nat) \ {<<>>})

VARIABLES
  sequences, groups,           \* the trace
  pc, raising,                 \* main(), and whether an exception is on its way up
  interrupted,                 \* where Ctrl-C hit, once: "no", "body" or "finally"
  flushed, before, after,      \* flushed_cache, metrics_before, metrics_after
  status,                      \* [rows -> Status]: one_request, as its thread sees it
  stream,                      \* [rows -> what one_request has read so far]
  summary,                     \* result["summary"]
  job, matched, generated,     \* external: the request inside the server ("none",
                               \* "waiting", "prefilling", "decoding", "finished"),
  cache, promptTokens          \* its prefix cache, and prompt_tokens_total

trace == <<sequences, groups>>
request == <<status, stream>>
scrapes == <<before, after>>
serverVars == <<job, matched, generated, cache, promptTokens>>
mainVars == <<pc, raising, interrupted, flushed, scrapes, summary>>
vars == <<groupVars, trace, mainVars, request, serverVars>>

Rows == DOMAIN sequences

Status == {"queued", "cancelled", "open", "ok", "error"}

NoScrape == -1
NoSummary == [requests_ok |-> 0, prompt_tokens |-> -1, cached_tokens |-> -1]

(* No chunk has been read: no meta, no first token, no gaps.               *)
NothingRead == [meta |-> FALSE, first |-> 0, last |-> 0, itls |-> 0]

Open == {i \in Rows : status[i] = "open"}
Queued == {i \in Rows : status[i] = "queued"}
Ok == {i \in Rows : status[i] = "ok"}

Init ==
  /\ \E t \in Traces : sequences = t.sequences /\ groups = t.groups
  /\ leader = [g \in Servers |-> "none"] /\ workers = [g \in Servers |-> FALSE]
  /\ sig = [g \in Servers |-> "none"] /\ port = NoServer
  /\ pool \in [Servers -> Pools] /\ backed = [g \in Servers |-> 0]
  /\ pc = "launch" /\ raising = FALSE /\ interrupted = "no"
  /\ flushed = FALSE /\ before = NoScrape /\ after = NoScrape
  /\ status = [i \in Rows |-> "queued"] /\ stream = [i \in Rows |-> NothingRead]
  /\ summary = NoSummary
  /\ job = [i \in Rows |-> "none"] /\ matched = [i \in Rows |-> 0]
  /\ generated = [i \in Rows |-> 0]
  /\ cache = Nodes(WarmUp) /\ promptTokens = 0

-----------------------------------------------------------------------------
(* main().                                                                 *)

Launch ==
  /\ pc = "launch"
  /\ Popen(Server)
  /\ pc' = "starting"
  /\ UNCHANGED <<trace, raising, interrupted, flushed, scrapes, summary, request, serverVars>>

Go(from, to) ==
  /\ pc = from
  /\ pc' = to
  /\ UNCHANGED <<groupVars, trace, interrupted, request, serverVars>>

Healthy ==
  /\ Answers(Server)
  /\ Go("starting", "flush")
  /\ UNCHANGED <<raising, flushed, scrapes, summary>>

\* MUTANT: wait_for_server is called before the try block.
StartupFailsOutsideTry ==
  /\ Go("starting", "raised")
  /\ raising' = TRUE
  /\ UNCHANGED <<flushed, scrapes, summary>>

(* The server exited, or startup_timeout has passed.                       *)
StartupFails ==
  /\ Go("starting", "finally")
  /\ raising' = TRUE
  /\ UNCHANGED <<flushed, scrapes, summary>>

Flush ==
  /\ pc = "flush"
  /\ Answers(Server)
  /\ cache' = {}
  /\ flushed' = TRUE
  /\ pc' = "before"
  /\ UNCHANGED <<groupVars, trace, raising, interrupted, scrapes, summary, request,
                 job, matched, generated, promptTokens>>

\* MUTANT: the flag is set before the request is made.
FlushFailsUnnoticed ==
  /\ Go("flush", "before")
  /\ flushed' = TRUE
  /\ UNCHANGED <<raising, scrapes, summary>>

(* The request failed; the replay goes on with whatever is cached.         *)
FlushFails ==
  /\ Go("flush", "before")
  /\ flushed' = FALSE
  /\ UNCHANGED <<raising, scrapes, summary>>

ScrapeBefore ==
  /\ Answers(Server)
  /\ Go("before", "pool")
  /\ before' = promptTokens
  /\ UNCHANGED <<raising, flushed, after, summary>>

ScrapeFails ==
  /\ Go("before", "finally") \/ Go("after", "finally")
  /\ raising' = TRUE
  /\ UNCHANGED <<flushed, scrapes, summary>>

(* Leaving the with block waits for the threads.                           *)
Join ==
  /\ Queued = {} /\ Open = {}
  /\ Go("pool", IF raising THEN "finally" ELSE "after")
  /\ UNCHANGED <<raising, flushed, scrapes, summary>>

ScrapeAfter ==
  /\ Answers(Server)
  /\ Go("after", "summarize")
  /\ after' = promptTokens
  /\ UNCHANGED <<raising, flushed, before, summary>>

\* MUTANT: what was sent is counted, not what was reported.
PromptTokensSent(i) == Len(sequences[i])

PromptTokens(i) == IF stream[i].meta THEN Len(sequences[i]) ELSE 0
CachedTokens(i) == IF stream[i].meta THEN matched[i] ELSE 0

Sum(f(_), S) == MapThenSumSet(f, S)

Summarize ==
  [requests_ok |-> Cardinality(Ok),
   prompt_tokens |-> Sum(PromptTokens, Ok),
   cached_tokens |-> Sum(CachedTokens, Ok)]

\* MUTANT: the mean is taken of every group of the trace.
AnyGroupWithoutTokens ==
  \E g \in Range(groups) : \A i \in Ok : groups[i] = g => PromptTokens(i) = 0

(* mean_cached_fraction of a group whose requests all succeeded without a  *)
(* token: statistics.mean of nothing.                                      *)
GroupWithoutTokens ==
  \E g \in {groups[i] : i \in Ok} : \A i \in Ok : groups[i] = g => PromptTokens(i) = 0

SummarizeReturns ==
  /\ ~GroupWithoutTokens
  /\ Go("summarize", "finally")
  /\ summary' = Summarize
  /\ UNCHANGED <<raising, flushed, scrapes>>

SummarizeRaises ==
  /\ GroupWithoutTokens
  /\ Go("summarize", "finally")
  /\ raising' = TRUE
  /\ UNCHANGED <<flushed, scrapes, summary>>

Terminate ==
  /\ pc = "finally"
  /\ ~Exited(Server)
  /\ Killpg(Server, "TERM")
  /\ pc' = "wait"
  /\ UNCHANGED <<trace, raising, interrupted, flushed, scrapes, summary, request, serverVars>>

Ended == IF raising THEN "raised" ELSE "written"

(* poll() or wait(60) finds the server gone.                               *)
ServerGone ==
  /\ Exited(Server)
  /\ Go("finally", Ended) \/ Go("wait", Ended)
  /\ UNCHANGED <<raising, flushed, scrapes, summary>>

(* The 60 seconds are over.  Nobody waits after SIGKILL.                   *)
Kill ==
  /\ pc = "wait"
  /\ ~Exited(Server)
  /\ Killpg(Server, "KILL")
  /\ pc' = Ended
  /\ UNCHANGED <<trace, raising, interrupted, flushed, scrapes, summary, request, serverVars>>

\* MUTANT: the pool is left without waiting for its threads.
InterruptAbandons ==
  /\ interrupted = "no"
  /\ pc \in {"starting", "flush", "before", "pool", "after", "summarize"}
  /\ pc' = "finally"
  /\ raising' = TRUE
  /\ interrupted' = "body"
  /\ status' = [i \in Rows |-> IF status[i] = "queued" THEN "cancelled" ELSE status[i]]
  /\ UNCHANGED <<groupVars, trace, flushed, scrapes, summary, stream, serverVars>>

(* Ctrl-C in the try block.  While requests are in flight pool.map cancels *)
(* those that have not begun, and the with block waits for the others.     *)
Interrupt ==
  /\ interrupted = "no"
  /\ pc \in {"starting", "flush", "before", "pool", "after", "summarize"}
  /\ pc' = IF pc = "pool" THEN "pool" ELSE "finally"
  /\ raising' = TRUE
  /\ interrupted' = "body"
  /\ status' = [i \in Rows |-> IF pc = "pool" /\ status[i] = "queued" THEN "cancelled" ELSE status[i]]
  /\ UNCHANGED <<groupVars, trace, flushed, scrapes, summary, stream, serverVars>>

(* Ctrl-C in the finally block: no `except Exception` catches it.          *)
InterruptTeardown ==
  /\ interrupted = "no"
  /\ pc \in {"finally", "wait"}
  /\ pc' = "raised"
  /\ interrupted' = "finally"
  /\ UNCHANGED <<groupVars, trace, raising, flushed, scrapes, summary, request, serverVars>>

-----------------------------------------------------------------------------
(* one_request, in a thread of the pool.                                   *)

ThreadVars == <<groupVars, trace, mainVars>>

(* The next row in arrival order, for a thread that is free.               *)
Take ==
  /\ pc = "pool"
  /\ Queued # {}
  /\ Cardinality(Open) < Concurrency
  /\ LET i == Min(Queued)
     IN  /\ status' = [status EXCEPT ![i] = "open"]
         /\ job' = [job EXCEPT ![i] = IF Answers(Server) THEN "waiting" ELSE "none"]
  /\ UNCHANGED <<ThreadVars, stream, matched, generated, cache, promptTokens>>

\* MUTANT: `if` instead of `elif`, the first chunk adds gaps as well.
ReadFirstAsGap(s, completion) ==
  [meta |-> TRUE, first |-> IF s.first = 0 THEN completion ELSE s.first, last |-> completion,
   itls |-> s.itls + (IF completion > s.last THEN completion - s.last ELSE 0)]

(* A chunk with text.  The first sets ttft; the later ones add as many     *)
(* gaps as tokens.                                                         *)
Read(s, completion) ==
  IF s.first = 0
  THEN [meta |-> TRUE, first |-> completion, last |-> completion, itls |-> 0]
  ELSE [s EXCEPT !.last = completion,
                 !.itls = @ + (IF completion > s.last THEN completion - s.last ELSE 0)]

(* A request ends with n generated tokens: what it leaves in the cache, or *)
(* a part of it.                                                           *)
Keeps(i, n) ==
  \E answer \in [1..n -> Vocabulary] : cache' = cache \cup Nodes(sequences[i] \o answer)

(* The server emits a chunk with 1 or more new tokens; its text so far is  *)
(* empty as long as they are no complete character.  The last one comes    *)
(* when the counters have been updated.                                    *)
Chunk(i) ==
  /\ leader[Server] = "serving"
  /\ job[i] = "decoding"
  /\ \E n \in generated[i] + 1..MaxNewTokens, text \in BOOLEAN :
       /\ stream[i].first # 0 \/ status[i] # "open" => text
       /\ generated' = [generated EXCEPT ![i] = n]
       /\ IF n = MaxNewTokens
          THEN /\ job' = [job EXCEPT ![i] = "finished"]
               /\ promptTokens' = promptTokens + Len(sequences[i])
               /\ Keeps(i, n)
          ELSE UNCHANGED <<job, promptTokens, cache>>
       /\ stream' = IF status[i] # "open" THEN stream
                    ELSE [stream EXCEPT ![i] = IF text THEN Read(@, n)
                                               ELSE [@ EXCEPT !.meta = TRUE]]
  /\ UNCHANGED <<ThreadVars, status, matched>>

(* [DONE]                                                                  *)
Done(i) ==
  /\ status[i] = "open"
  /\ job[i] = "finished"
  /\ status' = [status EXCEPT ![i] = "ok"]
  /\ stream' = [stream EXCEPT ![i].last = 0]
  /\ UNCHANGED <<ThreadVars, serverVars>>

(* The server refuses the request: with another status than 200, or in a   *)
(* stream of one error chunk, which one_request does not look at.          *)
Refused(i) ==
  /\ status[i] = "open"
  /\ job[i] = "waiting"
  /\ leader[Server] = "serving"
  /\ job' = [job EXCEPT ![i] = "none"]
  /\ \E outcome \in {"error", "ok"} : status' = [status EXCEPT ![i] = outcome]
  /\ UNCHANGED <<ThreadVars, stream, matched, generated, cache, promptTokens>>

(* request_timeout, a refused or a broken connection: `except Exception`.  *)
(* Nothing that was read counts any more.                                  *)
GiveUp(i) ==
  /\ status[i] = "open"
  /\ status' = [status EXCEPT ![i] = "error"]
  /\ stream' = [stream EXCEPT ![i] = NothingRead]
  /\ matched' = [matched EXCEPT ![i] = 0]
  /\ UNCHANGED <<ThreadVars, job, generated, cache, promptTokens>>

-----------------------------------------------------------------------------
(* The server.                                                             *)

Prefill(i) ==
  /\ leader[Server] = "serving"
  /\ job[i] = "waiting"
  /\ job' = [job EXCEPT ![i] = "prefilling"]
  /\ \E n \in 0..(IF status[i] = "open" THEN Walk(cache, sequences[i]) ELSE 0) :
       matched' = [matched EXCEPT ![i] = n]
  /\ UNCHANGED <<ThreadVars, request, generated, cache, promptTokens>>

Insert(i) ==
  /\ leader[Server] = "serving"
  /\ job[i] = "prefilling"
  /\ job' = [job EXCEPT ![i] = "decoding"]
  /\ cache' = cache \cup Nodes(sequences[i])
  /\ UNCHANGED <<ThreadVars, request, matched, generated, promptTokens>>

(* A request whose client has gone is aborted, sooner or later.            *)
Abort(i) ==
  /\ status[i] = "error"
  /\ job[i] \in {"waiting", "prefilling", "decoding"}
  /\ job' = [job EXCEPT ![i] = "none"]
  /\ generated' = [generated EXCEPT ![i] = 0]
  /\ IF job[i] = "decoding" THEN Keeps(i, generated[i]) ELSE UNCHANGED cache
  /\ UNCHANGED <<ThreadVars, request, matched, promptTokens>>

(* The workers behind the leader are of no consequence here.               *)
ServerProcess ==
  /\ Ready(Server) \/ LeaderExits(Server)
  /\ UNCHANGED <<trace, mainVars, request, serverVars>>

-----------------------------------------------------------------------------

MainStep ==
  \/ Launch \/ Healthy \/ StartupFails \/ Flush \/ FlushFails
  \/ ScrapeBefore \/ ScrapeFails \/ Take \/ Join \/ ScrapeAfter
  \/ SummarizeReturns \/ SummarizeRaises
  \/ Terminate \/ ServerGone \/ Kill

RequestStep(i) == Chunk(i) \/ Done(i) \/ Refused(i) \/ GiveUp(i)

Next ==
  \/ MainStep \/ Interrupt \/ InterruptTeardown
  \/ \E i \in Rows : RequestStep(i) \/ Prefill(i) \/ Insert(i) \/ Abort(i)
  \/ ServerProcess

Spec == Init /\ [][Next]_vars

(* Every request has a timeout and so has the startup; a process that got  *)
(* SIGKILL dies.                                                           *)
Fairness ==
  /\ WF_vars(MainStep)
  /\ WF_vars(\E i \in Rows : GiveUp(i))
  /\ WF_vars(sig[Server] = "KILL" /\ ServerProcess)

FairSpec == Spec /\ Fairness

-----------------------------------------------------------------------------
(* Properties.                                                             *)

(* The oracle is an "upper bound" that omits completions (oracle.py:343):  *)
(* in whatever order the threads' requests are prefilled, fail or overtake *)
(* each other, a replay that begins with a flushed cache reports no more   *)
(* cached tokens than the ideal hits of its trace, except for what it may  *)
(* find of an earlier answer: one token for each node of the trie at which *)
(* a prompt goes on where another ends.  Without such prompts the bound is *)
(* the oracle's number itself.                                             *)
OracleIsUpperBound ==
  flushed /\ summary # NoSummary =>
    summary.cached_tokens <=
      SumFunction(TrieHits(sequences)) + Cardinality(Continuations(sequences))

(* The counters' growth covers the prompts that are reported, and is equal *)
(* to them when every request was answered.                                *)
CountersCoverTheRequests ==
  summary # NoSummary =>
    /\ after - before >= summary.prompt_tokens
    /\ (\A i \in Rows : status[i] = "ok" /\ stream[i].meta) =>
         after - before = summary.prompt_tokens

(* The server is not signalled while a request is in flight, Ctrl-C in the *)
(* middle of the replay included.                                          *)
NoRequestDuringTeardown == sig[Server] # "none" => Open = {}

(* Requests that fail do not cost the result of the others.  Only an error *)
(* that was streamed as a success can.                                     *)
FailedRequestsAreReported ==
  pc = "raised" /\ after # NoScrape /\ interrupted = "no" =>
    \E i \in Ok : ~stream[i].meta

(* A complete answer has one gap for each token after the first text.      *)
GapsCoverTheAnswer ==
  \A i \in Ok : stream[i].first # 0 => stream[i].itls = MaxNewTokens - stream[i].first

(* A launched replay ends, and its server with it, unless Ctrl-C hits the  *)
(* teardown itself.                                                        *)
LaunchedReplayEnds ==
  pc = "starting" ~>
    /\ pc \in {"written", "raised"}
    /\ Exited(Server) \/ interrupted = "finally"
=============================================================================
