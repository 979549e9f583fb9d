-------------------------------- MODULE Inject --------------------------------
(* Memory that is put in front of a prompt, and what is learnt from it:    *)
(* ConductorProxy.inject (integration/proxy.py) builds a block from a      *)
(* cached part, a semantic search (memory/search.py, tools/read.py) and    *)
(* the signals of the evaluator; the ImplicitFeedbackTracker               *)
(* (feedback/implicit.py) gives verdicts on what a search returned when    *)
(* the next one comes, and the observer's pipeline on what the last inject *)
(* used.  Tracker, cache and list of injected sessions are shared by all   *)
(* conversations of the daemon.                                            *)
EXTENDS FiniteSets

CONSTANTS
  Remembered, Notable,  \* those whose importance puts them in the cached part
  Prompts,            \* conversations that ask for a block
  Feelings            \* signals of the evaluator

ASSUME InjectAssumption == IsFiniteSet(Remembered) /\ Notable \subseteq Remembered

VARIABLES
  inRam,         \* sessions in ram_index
  staticCache,   \* sessions of _static_cache, or Unbuilt
  fresh,         \* it is at most five seconds old
  asking,        \* step of each inject
  hitsOf,        \* candidates of its search
  lastInjected,  \* _last_injected_ids
  lastReturned,  \* _last_semantic_ids
  sinceQuery,    \* time since the last query: "none", "short", "long"
  credited,      \* sessions in RAM whose use_count has grown
  signalled,     \* subconscious_signals
  gone,          \* history: sessions out of RAM when the cache expired last
  knownGone,     \* history: gone when the inject began
  misled,        \* history: sessions a block named though they were known to be gone
  claims,        \* history: results and injections without a verdict yet
  unearned       \* history: verdicts that had no claim

injectVars == <<inRam, staticCache, fresh, asking, hitsOf, misled, lastInjected, lastReturned,
                sinceQuery, credited, signalled, gone, knownGone, claims, unearned>>
cacheVars == <<staticCache, fresh, gone>>
verdicts == <<lastInjected, lastReturned, sinceQuery, credited, claims, unearned>>

Unbuilt == {"not built"}

InjectInit ==
  /\ inRam = {} /\ staticCache = Unbuilt /\ fresh = FALSE
  /\ asking = [p \in Prompts |-> "no"]
  /\ hitsOf = [p \in Prompts |-> {}] /\ knownGone = hitsOf /\ misled = {}
  /\ lastInjected = {} /\ lastReturned = {} /\ sinceQuery = "none"
  /\ credited = {}
  /\ signalled = {} /\ gone = {} /\ claims = {} /\ unearned = {}

-----------------------------------------------------------------------------
(* Verdicts, and the claims they answer.                                   *)

Of(S, kind) == S \X {kind}

(* record_signal for USE and REVISIT; nothing for a session not in RAM.    *)
Credit(S) == credited' = credited \union (S \intersect inRam)

(* on_semantic_query: the results of the previous query were ignored if it *)
(* is not long ago and used if it is; then the new ones take their place.  *)
OnSemanticQuery(found) ==
  /\ IF sinceQuery = "short" THEN UNCHANGED credited ELSE Credit(lastReturned)
  /\ sinceQuery' = "short" /\ lastReturned' = found
  /\ unearned' = unearned \union (Of(lastReturned, "query") \ claims)

-----------------------------------------------------------------------------
(* inject.                                                                 *)

Ask(p, from, to) == asking[p] = from /\ asking' = [asking EXCEPT ![p] = to]

(* _build_static_cache.                                                    *)
StaticPart == inRam \intersect Notable

StartInject(p) ==
  /\ Ask(p, "no", "embed")
  /\ knownGone' = [knownGone EXCEPT ![p] = gone]
  /\ IF fresh THEN UNCHANGED <<staticCache, fresh>>
     ELSE staticCache' = StaticPart /\ fresh' = TRUE
  /\ UNCHANGED <<inRam, gone, hitsOf, misled, verdicts, signalled>>

(* semantic_search: candidates are read from RAM once the query has been   *)
(* embedded, and then reranked in a thread.                                *)
Search(p) ==
  /\ Ask(p, "embed", "rerank") /\ \E S \in SUBSET inRam : hitsOf' = [hitsOf EXCEPT ![p] = S]
  /\ UNCHANGED <<inRam, cacheVars, misled, knownGone, verdicts, signalled>>

(* A model that fails, or a caller that gives up.                          *)
SearchFails(p) ==
  /\ asking[p] # "no" /\ asking' = [asking EXCEPT ![p] = "no"]
  /\ hitsOf' = [hitsOf EXCEPT ![p] = {}] /\ knownGone' = [knownGone EXCEPT ![p] = {}]
  /\ UNCHANGED <<inRam, cacheVars, misled, verdicts, signalled>>

(* What was found is a query of the tracker and the injection of the next  *)
(* response.  The signals leave their list and are formatted; _sc_log, to  *)
(* which the code then hands each of them, is defined nowhere, so inject   *)
(* raises if there is one.                                                 *)
FinishInject(p) ==
  LET found == hitsOf[p] IN
  /\ Ask(p, "rerank", "no") /\ hitsOf' = [hitsOf EXCEPT ![p] = {}]
  /\ OnSemanticQuery(found) /\ lastInjected' = found
  /\ claims' = Of(found, "query") \union Of(found, "prompt")
  /\ signalled' = {}
  /\ knownGone' = [knownGone EXCEPT ![p] = {}]
  /\ misled' = misled \union IF signalled = {} THEN staticCache \intersect knownGone[p] ELSE {}
  /\ UNCHANGED <<inRam, cacheVars>>

-----------------------------------------------------------------------------
(* The tools of the agent.                                                 *)

Query ==
  /\ \E found \in SUBSET inRam :
       /\ OnSemanticQuery(found)
       /\ claims' = (claims \ Of(Remembered, "query")) \union Of(found, "query")
  /\ UNCHANGED <<inRam, cacheVars, asking, hitsOf, misled, knownGone, lastInjected, signalled>>

(* ctx_get: a session that is not in RAM is loaded.                        *)
CtxGet(s) ==
  /\ inRam' = inRam \union {s} /\ gone' = gone \ {s}
  /\ knownGone' = [p \in Prompts |-> knownGone[p] \ {s}]
  /\ credited' = credited \union {s}
  /\ UNCHANGED <<staticCache, fresh, asking, hitsOf, misled, lastInjected, lastReturned,
                 sinceQuery, claims, unearned, signalled>>

-----------------------------------------------------------------------------
(* The observer's pipeline, for any text.                                  *)

(* subconscious_evaluate.                                                  *)
Feel ==
  /\ \E f \in Feelings \ signalled : signalled' = signalled \union {f}
  /\ UNCHANGED <<inRam, cacheVars, asking, hitsOf, misled, knownGone, verdicts>>

(* Fault model: the list of injected sessions is kept.                     *)
RespondKeeps ==
  /\ lastInjected # {} /\ UNCHANGED lastInjected
  /\ \E S \in SUBSET lastInjected :
       /\ Credit(S) /\ claims' = claims \ Of(S, "prompt")
       /\ unearned' = unearned \union (Of(S, "prompt") \ claims)
  /\ UNCHANGED <<inRam, cacheVars, asking, hitsOf, misled, knownGone, lastReturned, sinceQuery,
                 signalled>>

(* on_response: whatever was injected last and is mentioned was used.      *)
Respond ==
  /\ lastInjected # {} /\ lastInjected' = {}
  /\ \E S \in SUBSET lastInjected :
       /\ Credit(S) /\ claims' = claims \ Of(S, "prompt")
       /\ unearned' = unearned \union (Of(S, "prompt") \ claims)
  /\ UNCHANGED <<inRam, cacheVars, asking, hitsOf, misled, knownGone, lastReturned, sinceQuery,
                 signalled>>

ForgetSession(s) ==
  /\ s \in inRam /\ inRam' = inRam \ {s} /\ credited' = credited \ {s}
  /\ UNCHANGED <<cacheVars, asking, hitsOf, misled, knownGone, lastInjected, lastReturned,
                 sinceQuery, claims, unearned, signalled>>

-----------------------------------------------------------------------------
CacheExpires ==
  /\ fresh /\ fresh' = FALSE /\ gone' = Remembered \ inRam
  /\ UNCHANGED <<inRam, staticCache, asking, hitsOf, misled, knownGone, verdicts, signalled>>

(* ignore_window_sec pass without a query.                                 *)
WindowPasses ==
  /\ sinceQuery = "short" /\ sinceQuery' = "long"
  /\ UNCHANGED <<inRam, cacheVars, asking, hitsOf, misled, knownGone, lastInjected, lastReturned,
                 credited, claims, unearned, signalled>>

InjectNext ==
  \/ \E p \in Prompts : StartInject(p) \/ Search(p) \/ SearchFails(p) \/ FinishInject(p)
  \/ \E s \in Remembered : CtxGet(s) \/ ForgetSession(s)
  \/ Query \/ Feel \/ Respond \/ CacheExpires \/ WindowPasses

-----------------------------------------------------------------------------
InjectTypeOK ==
  /\ {inRam, credited, lastInjected, lastReturned, gone} \subseteq SUBSET Remembered
  /\ staticCache \in (SUBSET Notable) \union {Unbuilt} /\ fresh \in BOOLEAN
  /\ asking \in [Prompts -> {"no", "embed", "rerank"}] /\ sinceQuery \in {"none", "short", "long"}
  /\ misled \subseteq Remembered
  /\ \A f \in {hitsOf, knownGone} : f \in [Prompts -> SUBSET Remembered]
  /\ signalled \subseteq Feelings
  /\ {claims, unearned} \subseteq SUBSET (Remembered \X {"query", "prompt"})

(* A result of a search, and an injection, gets at most one verdict, though*)
(* searches and responses of all conversations share one tracker; and the  *)
(* cached part of a block does not name a session that had left RAM when   *)
(* the cache expired before the block was asked for.                       *)
InjectSound ==
  /\ unearned = {}
  /\ misled = {}
=============================================================================
