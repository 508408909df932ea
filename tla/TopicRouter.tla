----------------------------- MODULE TopicRouter -----------------------------
(***************************************************************************)
(* Which callbacks a message goes to: class TopicMatcher of                *)
(* dispatch/matcher.py, the filter rules of topics.py, and the client's    *)
(* message_callback_add and message_callback_remove.                       *)
(*                                                                         *)
(* Filters without a wildcard are found by equality; the others live in a  *)
(* prefix tree that is pruned when a filter is removed.  Routes change     *)
(* only before the first connection attempt.                               *)
(*                                                                         *)
(* Abstractions.  A topic or a filter is the sequence of its levels, a     *)
(* level a model string; Dollar is the set of levels that begin with "$".  *)
(* A tree node is named by the levels that lead to it.  Callbacks are      *)
(* numbers.                                                                *)
(***************************************************************************)
EXTENDS Integers, Sequences, FiniteSets, FiniteSetsExt, SequencesExt

CONSTANTS
    Filter,      \* the filters the application uses, as level sequences
    Topic,       \* the topics messages have
    Dollar,      \* levels that begin with "$"
    Callback,    \* application callbacks
    MaxSequence  \* bound: filters ever registered

Share == "$share"

\* validate_subscribe_filter
ValidLevels(f) == f # <<>> /\ \A i \in DOMAIN f : f[i] = "#" => i = Len(f)
ValidFilter(f) ==
    IF f # <<>> /\ f[1] = Share
    THEN Len(f) >= 3 /\ f[2] \notin {"", "+", "#"} /\ SubSeq(f, 3, Len(f)) # <<"">>
         /\ ValidLevels(SubSeq(f, 3, Len(f)))
    ELSE ValidLevels(f) /\ f # <<"">>

\* validate_received_publish_topic
ValidTopic(t) == t # <<>> /\ \A i \in DOMAIN t : t[i] \notin {"+", "#"}

ASSUME RouterAssumptions ==
    /\ \A t \in Topic : ValidTopic(t)
    /\ Share \in Dollar /\ {"+", "#"} \cap Dollar = {}
    /\ Callback \subseteq Nat /\ MaxSequence \in Nat

VARIABLES
    entries,     \* _entries: filter -> [seq, value]
    tree,        \* _root: node -> [entries, wild]; no node when it is None
    next,        \* _next_sequence
    registered,  \* history: the registered filters, in registration order
    given        \* history: the callback last given to a registered filter

vars == <<entries, tree, next, registered, given>>

-----------------------------------------------------------------------------
(* The tree *)

\* _compile: a shared filter matches as the filter it shares
Wildcards(f) == \E i \in DOMAIN f : f[i] \in {"+", "#"}
InTree(f) == f[1] = Share \/ Wildcards(f)
Levels(f) == IF f[1] = Share THEN SubSeq(f, 3, Len(f)) ELSE f

EmptyNode == [entries |-> {}, wild |-> FALSE]
Children(t, n) == {c \in DOMAIN t : Len(c) = Len(n) + 1 /\ IsPrefix(n, c)}
Path(levels) == {SubSeq(levels, 1, k) : k \in 0..Len(levels)}
HasWild(t, n) == \E c \in Children(t, n) : Last(c) \in {"+", "#"}

\* The tree part of __setitem__: the nodes on the way are added, and a parent
\* of a wildcard child remembers that it has one.
Grown(t, f) ==
    LET nodes == DOMAIN t \cup Path(Levels(f))
        node(n) == IF n \in DOMAIN t THEN t[n] ELSE EmptyNode IN
    [n \in nodes |->
        [entries |-> IF n = Levels(f) THEN node(n).entries \cup {f} ELSE node(n).entries,
         wild |-> \/ node(n).wild
                  \/ \E c \in Path(Levels(f)) : Len(c) = Len(n) + 1 /\ IsPrefix(n, c)
                                                /\ c \notin DOMAIN t /\ Last(c) \in {"+", "#"}]]

\* _Node.is_empty
IsEmpty(t, n) ==
    /\ t[n].entries = {} /\ ~t[n].wild
    /\ \A c \in Children(t, n) : Last(c) \in {"+", "#"}

\* As WithoutChild, leaving the parent marked.
WithoutChildStillWild(t, c) == [n \in DOMAIN t \ {c} |-> t[n]]

\* remove_child
WithoutChild(t, c) ==
    LET rest == [n \in DOMAIN t \ {c} |-> t[n]] IN
    IF c = <<>> THEN rest ELSE [rest EXCEPT ![Front(c)].wild = HasWild(rest, Front(c))]

\* The tree part of __delitem__: the filter leaves its node; then, from there
\* upwards, nodes that are empty leave, up to the root.
Detached(t, f) == [t EXCEPT ![Levels(f)].entries = @ \ {f}]
Pruned(t, f) ==
    LET levels == Levels(f)
        after[k \in 0..(Len(levels) + 1)] ==     \* k nodes looked at
          IF k = 0 THEN Detached(t, f)
          ELSE LET u == after[k - 1]
                   n == SubSeq(levels, 1, Len(levels) - k + 1) IN
               IF n \in DOMAIN u /\ IsEmpty(u, n) THEN WithoutChild(u, n) ELSE u
    IN after[Len(levels) + 1]

-----------------------------------------------------------------------------
(* Registration *)

\* message_callback_add: replacing a callback moves nothing
MessageCallbackAdd(f, c) ==
    /\ ValidFilter(f) /\ (f \in DOMAIN entries \/ next < MaxSequence)
    /\ IF f \in DOMAIN entries
       THEN entries' = [entries EXCEPT ![f].value = c] /\ UNCHANGED <<tree, next, registered>>
       ELSE /\ entries' = [g \in DOMAIN entries \cup {f} |->
                             IF g = f THEN [seq |-> next, value |-> c] ELSE entries[g]]
            /\ tree' = IF InTree(f) THEN Grown(tree, f) ELSE tree
            /\ next' = next + 1
            /\ registered' = Append(registered, f)
    /\ given' = [given EXCEPT ![f] = c]

\* message_callback_remove; a matcher left without filters is dropped
MessageCallbackRemove(f) ==
    /\ f \in DOMAIN entries
    /\ entries' = [g \in DOMAIN entries \ {f} |-> entries[g]]
    /\ tree' = IF InTree(f) THEN Pruned(tree, f) ELSE tree
    /\ next' = IF entries' = <<>> THEN 0 ELSE next
    /\ registered' = SelectSeq(registered, LAMBDA g : g # f)
    /\ given' = [given EXCEPT ![f] = 0]

-----------------------------------------------------------------------------
(* Matching *)

\* The nodes the walk of iter_match stands on after k levels of a topic: the
\* literal child, and the "+" child where the node says there is a wildcard.
\* A first level with "$" is followed literally only.
Reached(t, topic) ==
    LET at[k \in 0..Len(topic)] ==
          IF k = 0 THEN {<<>>}
          ELSE LET literal == {Append(n, topic[k]) : n \in at[k - 1]}
                   plus == {Append(n, "+") : n \in {m \in at[k - 1] : t[m].wild}}
                   ok == IF k = 1 /\ topic[1] \in Dollar THEN literal ELSE literal \cup plus
               IN ok \cap DOMAIN t
    IN at

\* "#" children match their parent's level and all below.
HashDepths(topic) == (IF topic[1] \in Dollar THEN 1 ELSE 0)..Len(topic)
Candidates(topic) ==
    LET at == Reached(tree, topic)
        hashes == {Append(n, "#") : n \in UNION {{m \in at[k] : tree[m].wild} : k \in HashDepths(topic)}}
        found == (hashes \cap DOMAIN tree) \cup at[Len(topic)]
        exact == IF topic \in DOMAIN entries /\ ~InTree(topic) THEN {topic} ELSE {} IN
    exact \cup (IF tree = <<>> THEN {} ELSE UNION {tree[n].entries : n \in found})

\* iter_match: their values, by insertion sequence
IterMatch(topic) ==
    LET fs == SetToSortSeq(Candidates(topic), LAMBDA f, g : entries[f].seq < entries[g].seq) IN
    [i \in DOMAIN fs |-> entries[fs[i]].value]

-----------------------------------------------------------------------------
Init ==
    /\ entries = <<>> /\ tree = <<>> /\ next = 0
    /\ registered = <<>> /\ given = [f \in Filter |-> 0]

Next == \E f \in Filter : MessageCallbackRemove(f) \/ \E c \in Callback : MessageCallbackAdd(f, c)

Spec == Init /\ [][Next]_vars

-----------------------------------------------------------------------------
(* Properties *)

\* The types
TypeOK ==
    /\ DOMAIN entries \subseteq Filter /\ next \in 0..MaxSequence
    /\ \A f \in DOMAIN entries : entries[f].seq \in 0..(next - 1) /\ entries[f].value \in Callback
    /\ \A n \in DOMAIN tree : tree[n].entries \subseteq DOMAIN entries /\ tree[n].wild \in BOOLEAN

\* A message goes to the callbacks of exactly the filters that match its topic
\* by the rules of MQTT, each once, with its latest callback, in the order in
\* which the filters were registered, whatever was registered and removed
\* before.
Matches(f, t) ==
    LET levels == Levels(f)
        open == Last(levels) = "#"
        fixed == IF open THEN Len(levels) - 1 ELSE Len(levels) IN
    /\ IF open THEN Len(t) >= fixed ELSE Len(t) = fixed
    /\ \A i \in 1..fixed : levels[i] \in {"+", t[i]}
    /\ t[1] \in Dollar => levels[1] \notin {"+", "#"}
MatchesExact ==
    \A t \in Topic :
      LET fs == SelectSeq(registered, LAMBDA f : Matches(f, t)) IN
      IterMatch(t) = [i \in DOMAIN fs |-> given[fs[i]]]

\* Nothing is left of a removed filter, and no other filter lost a part: the
\* nodes are exactly those on the way to a registered filter, and each knows
\* whether it has a wildcard child.
TreeExact ==
    /\ DOMAIN tree = UNION {Path(Levels(f)) : f \in {g \in DOMAIN entries : InTree(g)}}
    /\ \A n \in DOMAIN tree : /\ tree[n].wild = HasWild(tree, n)
                              /\ tree[n].entries = {f \in DOMAIN entries : InTree(f) /\ Levels(f) = n}

\* The router through every order of registrations and removals: its tree, and
\* the answers read from it.
RouterExact == TypeOK /\ TreeExact /\ MatchesExact
=============================================================================
