------------------------------ MODULE AgentMemory ----------------------------
(***************************************************************************)
(* Runs of the ai-agent composite (core/internal/engine/ai.go) that share  *)
(* one memory thread, kept as one object of the store (agentmemory.go).  A *)
(* run loads the transcript, talks to the model and its tools, compacts    *)
(* what has accumulated and saves it.                                      *)
(***************************************************************************)
EXTENDS KVCell, Sequences

CONSTANTS Agents,         \* runs of the block
          Clears,         \* runs of clear-agent-memory
          MaxIterations,  \* tool-calling turns of a run
          MaxTokens,      \* memoryMaxTokens
          Strategy,       \* memoryCompaction: "prune" or "summarize"
          Attempts,       \* memoryWriteAttempts
          CharsPerToken,
          Sizes           \* characters of a turn

AgentAssumption ==
    /\ MaxIterations \in Nat \ {0} /\ MaxTokens \in Nat \ {0} /\ Attempts \in Nat \ {0}
    /\ CharsPerToken \in Nat \ {0} /\ Sizes \subseteq Nat
    /\ Strategy \in {"prune", "summarize"}

\* A turn of the conversation: who said it, in which run and iteration, and how
\* long it is.  A tool turn answers the assistant turn of its iteration.
Turn(role, by, n, size) == [role |-> role, by |-> by, n |-> n, size |-> size]
Turns == [role : {"user", "assistant", "tool"}, by : Agents \cup {None}, n : Nat, size : Nat]
Threads == Seq(Turns)   \* what the store holds, as its Values
IsTool(t) == t.role = "tool"

-----------------------------------------------------------------------------
(* Compaction.                                                             *)

Chars(ts) ==
    LET sum[i \in 0..Len(ts)] == IF i = 0 THEN 0 ELSE sum[i - 1] + ts[i].size
    IN sum[Len(ts)]

\* estimateTokens
Estimate(ts) == Chars(ts) \div CharsPerToken

From(ts, i) == SubSeq(ts, i, Len(ts))

\* Variant: a leading tool turn is kept.
PruneAnywhere(ts) ==
    LET n == Len(ts)
        first[i \in 1..n] ==
            IF i < n /\ Estimate(From(ts, i)) > MaxTokens THEN first[i + 1] ELSE i
    IN From(ts, first[1])

\* pruneMemory: drop the oldest turn, and the tool turns behind it, until the
\* rest fits; one turn always stays.
Prune(ts) ==
    LET n == Len(ts)
        skip[i \in 1..n] == IF i < n /\ IsTool(ts[i]) THEN skip[i + 1] ELSE i
        first[i \in 1..n] ==
            IF i < n /\ Estimate(From(ts, i)) > MaxTokens THEN first[skip[i + 1]] ELSE i
    IN From(ts, first[1])

\* summarizeMemory: keep the turns that fit half the budget, replace the others
\* by one turn of s characters; without a summary (s = 0) prune.
Summarize(ts, s) ==
    LET n == Len(ts)
        cut[i \in 1..(n + 1)] ==
            IF i <= n /\ Estimate(From(ts, i)) > MaxTokens \div 2 THEN cut[i + 1] ELSE i
        skip[i \in 1..(n + 1)] == IF i <= n /\ IsTool(ts[i]) THEN skip[i + 1] ELSE i
        keep == skip[cut[1]]
    IN CASE keep = 1 -> ts
         [] keep > 1 /\ s = 0 -> Prune(ts)
         [] OTHER -> <<Turn("user", None, 0, s)>> \o From(ts, keep)

\* compactMemory; s stands for what the model makes of a request to summarize.
Compact(ts, s) ==
    IF Estimate(ts) <= MaxTokens THEN ts
    ELSE IF Strategy = "summarize" THEN Summarize(ts, s) ELSE Prune(ts)

-----------------------------------------------------------------------------
VARIABLES
    entry,     \* the thread's object
    pc,        \* pc[p]: "load", "model", "tools", "compact", "get", "set", "run", "done"
    messages,  \* messages[a]: the conversation so far
    iter,      \* iter[a]
    version,   \* version[a]: the version saveMemory has read
    tries,     \* tries[a]: its attempts
    outcome    \* outcome[p]: "none", "answered", "guardrail", "error", "cleared"

vars == <<entry, pc, messages, iter, version, tries, outcome>>

Procs == Agents \cup Clears

TypeOK ==
    /\ entry.version \in Nat
    /\ entry.version = 0 <=> entry.value = None
    /\ pc \in [Procs -> {"load", "model", "tools", "compact", "get", "set", "run", "done"}]
    /\ iter \in [Agents -> 0..MaxIterations]
    /\ version \in [Agents -> Nat]
    /\ tries \in [Agents -> 0..Attempts]
    /\ outcome \in [Procs -> {"none", "answered", "guardrail", "error", "cleared"}]

Init ==
    /\ entry = Absent
    /\ pc = [p \in Procs |-> IF p \in Agents THEN "load" ELSE "run"]
    /\ messages = [a \in Agents |-> <<>>]
    /\ iter = [a \in Agents |-> 0]
    /\ version = [a \in Agents |-> 0]
    /\ tries = [a \in Agents |-> 0]
    /\ outcome = [p \in Procs |-> "none"]

To(p, s) == pc' = [pc EXCEPT ![p] = s]
Say(a, t) == messages' = [messages EXCEPT ![a] = Append(@, t)]

\* initConversation: the stored transcript, then the task.
Load(a) ==
    /\ pc[a] = "load"
    /\ \/ /\ \E s \in Sizes :
               messages' = [messages EXCEPT ![a] =
                 (IF entry = Absent THEN <<>> ELSE entry.value) \o <<Turn("user", a, 0, s)>>]
          /\ To(a, "model")
          /\ UNCHANGED outcome
       \/ /\ To(a, "done")
          /\ outcome' = [outcome EXCEPT ![a] = "error"]
          /\ UNCHANGED messages
    /\ UNCHANGED <<entry, iter, version, tries>>

\* client.Complete fails: the block fails and nothing is saved.
ModelFails(a) ==
    /\ pc[a] = "model"
    /\ To(a, "done")
    /\ outcome' = [outcome EXCEPT ![a] = "error"]
    /\ UNCHANGED <<entry, messages, iter, version, tries>>

\* The model refuses, answers, or calls tools.
Model(a) ==
    /\ pc[a] = "model"
    /\ \E s \in Sizes : Say(a, Turn("assistant", a, iter[a], s))
    /\ \/ To(a, "compact") /\ outcome' = [outcome EXCEPT ![a] = "guardrail"]
       \/ To(a, "compact") /\ outcome' = [outcome EXCEPT ![a] = "answered"]
       \/ To(a, "tools") /\ UNCHANGED outcome
    /\ UNCHANGED <<entry, iter, version, tries>>

\* The tools answer; after the last iteration the guardrail takes over.
Tools(a) ==
    /\ pc[a] = "tools"
    /\ \E s \in Sizes : Say(a, Turn("tool", a, iter[a], s))
    /\ iter' = [iter EXCEPT ![a] = @ + 1]
    /\ IF iter[a] + 1 < MaxIterations
         THEN To(a, "model") /\ UNCHANGED outcome
         ELSE To(a, "compact") /\ outcome' = [outcome EXCEPT ![a] = "guardrail"]
    /\ UNCHANGED <<entry, version, tries>>

\* persistMemory: compactMemory ...
CompactMessages(a) ==
    /\ pc[a] = "compact"
    /\ \E s \in Sizes \cup {0} : messages' = [messages EXCEPT ![a] = Compact(@, s)]
    /\ To(a, "get")
    /\ UNCHANGED <<entry, iter, version, tries, outcome>>

\* ... and saveMemory, whose failure is only logged.
SaveReads(a) ==
    /\ pc[a] = "get"
    /\ \/ To(a, "set") /\ version' = [version EXCEPT ![a] = entry.version]
       \/ To(a, "done") /\ UNCHANGED version
    /\ UNCHANGED <<entry, messages, iter, tries, outcome>>

SaveWrites(a) ==
    /\ pc[a] = "set"
    /\ \/ /\ Matches(entry, version[a])
          /\ entry' = Stored(entry, messages[a])
          /\ To(a, "done")
          /\ UNCHANGED tries
       \/ /\ ~Matches(entry, version[a])
          /\ tries' = [tries EXCEPT ![a] = @ + 1]
          /\ To(a, IF tries[a] + 1 < Attempts THEN "get" ELSE "done")
          /\ UNCHANGED entry
       \/ To(a, "done") /\ UNCHANGED <<entry, tries>>
    /\ UNCHANGED <<messages, iter, version, outcome>>

\* clearAgentMemory.Process: kv.Delete with version 0.
Clear(c) ==
    /\ pc[c] = "run"
    /\ \/ DeleteAllowed(entry, 0) /\ entry' = Absent /\ outcome' = [outcome EXCEPT ![c] = "cleared"]
       \/ UNCHANGED entry /\ outcome' = [outcome EXCEPT ![c] = "error"]
    /\ To(c, "done")
    /\ UNCHANGED <<messages, iter, version, tries>>

Agent(a) ==
    \/ Load(a) \/ ModelFails(a) \/ Model(a) \/ Tools(a)
    \/ CompactMessages(a) \/ SaveReads(a) \/ SaveWrites(a)

Finished == (\A p \in Procs : pc[p] = "done") /\ UNCHANGED vars

Next == (\E a \in Agents : Agent(a)) \/ (\E c \in Clears : Clear(c)) \/ Finished

Spec == Init /\ [][Next]_vars

-----------------------------------------------------------------------------
(* Properties.                                                             *)

Transcripts == {entry.value} \ {None}

\* A stored tool turn comes right after the assistant turn that called it.  The
\* one exception: a run that used up its iterations ends with a tool turn, which
\* compaction may have left as the first one.
ToolsFollowCalls ==
    \A ts \in Transcripts : \A i \in DOMAIN ts :
        IsTool(ts[i]) =>
            IF i = 1 THEN ts[i].n = MaxIterations - 1
            ELSE /\ ts[i - 1].role = "assistant"
                 /\ ts[i - 1].by = ts[i].by /\ ts[i - 1].n = ts[i].n

\* A caller retries "so no concurrent update is silently lost": the turns of a
\* run whose save succeeded stay in the thread.
SavedTurnsStay ==
    [][\A a \in Agents : \A ts \in Transcripts :
          SaveWrites(a) /\ entry' # entry =>
              \A i \in DOMAIN ts : \E j \in DOMAIN entry'.value : entry'.value[j] = ts[i]]_vars
=============================================================================
