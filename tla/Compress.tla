------------------------------- MODULE Compress -------------------------------
(***************************************************************************)
(* The compression engine of openhawk-compress: texts longer than a        *)
(* threshold go through the sqz command, or through a pass of its own when *)
(* sqz fails, and the results are cached by text.  The mutex is held from  *)
(* the look into the cache on, while sqz runs.  A context is a sequence of *)
(* sentences, a sentence a sequence of words.                              *)
(***************************************************************************)
EXTENDS Naturals, FiniteSets, Filters

CONSTANTS
    Agents,
    Contexts,        \* sequences of sentences
    Thresholds,
    SqzWords,        \* how many words the output of sqz may have
    MaxCalls,        \* bound: calls of compress
    None

VARIABLES
    cache,           \* context -> the result kept for it, or None
    per_agent,       \* agent -> [processed, saved]
    totals,          \* [processed, saved]
    running,         \* the call that holds the mutex while sqz runs, or None
    answer,          \* history: the last answer and what it was asked for
    madeFor,         \* history: context -> the threshold its cached result was made for
    calls

vars == <<cache, per_agent, totals, running, answer, madeFor, calls>>

Nothing == [processed |-> 0, saved |-> 0]
Init ==
    /\ cache = [c \in Contexts |-> None] /\ per_agent = [a \in Agents |-> Nothing] /\ totals = Nothing
    /\ running = None /\ answer = None /\ madeFor = [c \in Contexts |-> 0] /\ calls = 0

--------------------------------------------------------------------------------
count_tokens(context) == Len(Joined(context))

(* Every sentence once, where it came first, and then the last words. *)
dedup(context) ==
    LET first(i) == \A j \in 1..(i - 1) : context[j] # context[i]
        kept == Only([i \in DOMAIN context |-> i], {i \in DOMAIN context : first(i)})
    IN  [n \in DOMAIN kept |-> context[kept[n]]]

(* Mutant: one word too many. *)
fallback_compress_Long(context, threshold) ==
    LET words == Joined(dedup(context))
    IN  IF Len(words) <= threshold + 1 THEN words ELSE SubSeq(words, Len(words) - threshold, Len(words))

fallback_compress(context, threshold) ==
    LET words == Joined(dedup(context))
    IN  IF Len(words) <= threshold THEN words ELSE SubSeq(words, Len(words) - threshold + 1, Len(words))

Saved(original, compressed) == IF original > compressed THEN original - compressed ELSE 0
Add(stats, original, saved) == [processed |-> stats.processed + original, saved |-> stats.saved + saved]

Account(agent, context, tokens) ==
    LET original == count_tokens(context)
        saved == Saved(original, tokens)
    IN  /\ totals' = Add(totals, original, saved)
        /\ per_agent' = [per_agent EXCEPT ![agent] = Add(@, original, saved)]

Answer(context, threshold, tokens, sqz, hit) ==
    answer' = [context |-> context, threshold |-> threshold, tokens |-> tokens, sqz |-> sqz, hit |-> hit]

(* compress: a short text comes back as it is, and is not counted. *)
Short(agent, context, threshold) ==
    /\ calls < MaxCalls /\ count_tokens(context) <= threshold
    /\ calls' = calls + 1
    /\ Answer(context, threshold, count_tokens(context), FALSE, FALSE)
    /\ UNCHANGED <<cache, per_agent, totals, running, madeFor>>

(* A result that is in the cache is the answer, whatever its threshold was. *)
Hit(agent, context, threshold) ==
    /\ running = None /\ calls < MaxCalls
    /\ count_tokens(context) > threshold /\ cache[context] # None
    /\ calls' = calls + 1
    /\ Account(agent, context, cache[context].tokens)
    /\ Answer(context, threshold, cache[context].tokens, cache[context].sqz, TRUE)
    /\ UNCHANGED <<cache, running, madeFor>>

Start(agent, context, threshold) ==
    /\ running = None /\ calls < MaxCalls
    /\ count_tokens(context) > threshold /\ cache[context] = None
    /\ calls' = calls + 1
    /\ running' = [agent |-> agent, context |-> context, threshold |-> threshold]
    /\ UNCHANGED <<cache, per_agent, totals, answer, madeFor>>

(* sqz_compress: its output may have any length; without one the fallback. *)
Finish ==
    /\ running # None
    /\ LET c == running.context
       IN  \E sqz \in BOOLEAN, n \in SqzWords :
              LET tokens == IF sqz THEN n ELSE Len(fallback_compress(c, running.threshold))
              IN  /\ Account(running.agent, c, tokens)
                  /\ Answer(c, running.threshold, tokens, sqz, FALSE)
                  /\ cache' = [cache EXCEPT ![c] = [tokens |-> tokens, sqz |-> sqz]]
                  /\ madeFor' = [madeFor EXCEPT ![c] = running.threshold]
    /\ running' = None /\ UNCHANGED calls

invalidate_cache ==
    /\ running = None
    /\ cache' = [c \in Contexts |-> None]
    /\ UNCHANGED <<per_agent, totals, running, answer, madeFor, calls>>

Next ==
    \/ \E a \in Agents, c \in Contexts, t \in Thresholds : Short(a, c, t) \/ Hit(a, c, t) \/ Start(a, c, t)
    \/ Finish \/ invalidate_cache
Spec == Init /\ [][Next]_vars

--------------------------------------------------------------------------------
(* What the engine makes itself is no longer than the threshold it was asked
   for, except that an answer from the cache may be as long as the threshold of
   the call that made it, when that was larger. *)
WithinThreshold ==
    answer # None /\ ~answer.sqz =>
        answer.tokens <= IF answer.hit /\ madeFor[answer.context] > answer.threshold
                         THEN madeFor[answer.context] ELSE answer.threshold

(* One pair for each token that the agents have been counted. *)
Tokens(counted) == UNION {{a} \X (1 .. counted[a]) : a \in Agents}

(* get_stats: the totals are the sums over the agents, nothing is saved that was
   not processed, whichever agents' calls hit the cache of each other. *)
StatsAddUp ==
    /\ totals.processed = Cardinality(Tokens([a \in Agents |-> per_agent[a].processed]))
    /\ totals.saved = Cardinality(Tokens([a \in Agents |-> per_agent[a].saved]))
    /\ \A a \in Agents : per_agent[a].saved <= per_agent[a].processed
================================================================================
