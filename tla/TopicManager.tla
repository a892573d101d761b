---------------------------- MODULE TopicManager ----------------------------
(***************************************************************************)
(* The subscription table of one topic (src/mq/topic_manager.cpp).  Every  *)
(* method holds mutex_ from its first to its last line, so each one is one *)
(* action.  Topics do not share entries, and one topic is the component.   *)
(*                                                                         *)
(* An entry of `subs' or of a group's members is [id, conn].  A topic with *)
(* no entry in subscribers_ and one with an empty vector answer every call *)
(* alike; both are subs = << >>.  A group that is not in consumer_groups_  *)
(* is not in DOMAIN groups.                                                *)
(***************************************************************************)
EXTENDS Naturals, Sequences, FiniteSets

CONSTANTS Subscribers,  \* non-empty ids chosen by the clients
          Groups,       \* non-empty group ids
          Conns         \* connection ids

ASSUME EntriesFinite == IsFiniteSet(Subscribers) /\ IsFiniteSet(Groups)
                                                 /\ IsFiniteSet(Conns)

VARIABLES
  registered,  \* the topic is in topics_
  subs,        \* subscribers_: the broadcast subscribers, in order
  groups,      \* consumer_groups_: group id -> [members, rr]
  round        \* history: whom SelectNextMember chose since the group's
               \* members changed or, if later, since all had a turn

tableVars == <<registered, subs, groups, round>>

Entries == [id : Subscribers, conn : Conns]
NoRound == [g \in Groups |-> << >>]

HasId(q, s)    == \E k \in 1..Len(q) : q[k].id = s
HasConn(q, c)  == \E k \in 1..Len(q) : q[k].conn = c
Entry(s, c)    == [id |-> s, conn |-> c]

(* The elements of q at the places K, in their order: what is left of a    *)
(* vector when erase(remove_if(...)) has dropped those at the other places.*)
(* The n-th of them is at the place of K up to which there are n in K.     *)
PlaceOf(K, n) == CHOOSE k \in K : Cardinality({j \in K : j <= k}) = n
Kept(q, K) == [n \in 1..Cardinality(K) |-> q[PlaceOf(K, n)]]

DropId(q, s)   == Kept(q, {k \in 1..Len(q) : q[k].id # s})
DropConn(q, c) == Kept(q, {k \in 1..Len(q) : q[k].conn # c})

(* consumer_groups_ with the members of g replaced, or g added.            *)
WithGroup(g, q, rr) ==
  [h \in DOMAIN groups \cup {g} |->
     IF h = g THEN [members |-> q, rr |-> rr] ELSE groups[h]]

(* consumer_groups_ after the groups of which every member went are gone.  *)
Inhabited(gs) ==
  [g \in {h \in DOMAIN gs : gs[h].members # << >>} |-> gs[g]]

TableInit ==
  /\ registered = FALSE
  /\ subs = << >>
  /\ groups = [g \in {} |-> [members |-> << >>, rr |-> 0]]
  /\ round = NoRound
-----------------------------------------------------------------------------
(* RegisterTopic, whose lines Subscribe repeats: of a topic that exists it *)
(* changes nothing.                                                        *)
RegisterTopic == registered' = TRUE

UnregisterTopic ==
  /\ registered' = FALSE
  /\ subs' = << >>
  /\ groups' = [g \in {} |-> groups[g]]
  /\ round' = NoRound

(* Mutant: the subscriber id is not looked for first.                      *)
SubscribeBroadcastTwice(s, c) ==
  /\ RegisterTopic
  /\ subs' = Append(subs, Entry(s, c))
  /\ UNCHANGED <<groups, round>>

(* Subscribe with an empty group_id: a broadcast subscription.             *)
SubscribeBroadcast(s, c) ==
  /\ RegisterTopic
  /\ subs' = IF HasId(subs, s) THEN subs ELSE Append(subs, Entry(s, c))
  /\ UNCHANGED <<groups, round>>

(* Subscribe with a group_id, which creates the group when it is missing.  *)
SubscribeGroup(s, c, g) ==
  /\ RegisterTopic
  /\ IF g \notin DOMAIN groups
       THEN /\ groups' = WithGroup(g, <<Entry(s, c)>>, 0)
            /\ round' = [round EXCEPT ![g] = << >>]
       ELSE IF HasId(groups[g].members, s)
         THEN UNCHANGED <<groups, round>>
         ELSE /\ groups' = WithGroup(g, Append(groups[g].members, Entry(s, c)),
                                     groups[g].rr)
              /\ round' = [round EXCEPT ![g] = << >>]
  /\ UNCHANGED subs

UnsubscribeBroadcast(s) ==
  /\ subs' = DropId(subs, s)
  /\ UNCHANGED <<registered, groups, round>>

UnsubscribeGroup(s, g) ==
  /\ IF g \in DOMAIN groups /\ HasId(groups[g].members, s)
       THEN /\ groups' = Inhabited(WithGroup(g, DropId(groups[g].members, s),
                                             groups[g].rr))
            /\ round' = [round EXCEPT ![g] = << >>]
       ELSE UNCHANGED <<groups, round>>
  /\ UNCHANGED <<registered, subs>>

(* Everything the connection subscribed to, in every list of the topic.    *)
UnsubscribeByConnId(c) ==
  /\ subs' = DropConn(subs, c)
  /\ groups' = Inhabited([g \in DOMAIN groups |->
                 [groups[g] EXCEPT !.members = DropConn(@, c)]])
  /\ round' = [g \in Groups |->
                 IF g \in DOMAIN groups /\ HasConn(groups[g].members, c)
                   THEN << >> ELSE round[g]]
  /\ UNCHANGED registered

(* SelectNextMember.  Selected(g) is its result when it finds the group,   *)
(* which by TableSound has members.                                        *)
Selected(g) ==
  groups[g].members[(groups[g].rr % Len(groups[g].members)) + 1].id

(* Mutant: the index stays where it is.                                    *)
NextIndexSame(g) == groups[g].rr

NextIndex(g) == (groups[g].rr + 1) % Len(groups[g].members)

(* The groups of G have their next turn.                                   *)
SelectNext(G) ==
  /\ groups' = [g \in DOMAIN groups |->
                  IF g \in G THEN [groups[g] EXCEPT !.rr = NextIndex(g)]
                             ELSE groups[g]]
  /\ round' = [g \in Groups |->
                 IF g \notin G THEN round[g]
                 ELSE IF Len(round[g]) = Len(groups[g].members)
                        THEN <<Selected(g)>> ELSE Append(round[g], Selected(g))]
  /\ UNCHANGED <<registered, subs>>

SelectNextMember(g) == g \in DOMAIN groups /\ SelectNext({g})
-----------------------------------------------------------------------------
Unique(q) == \A i, j \in 1..Len(q) : q[i].id = q[j].id => i = j

(* A subscriber id occurs once in the broadcast list and once in each      *)
(* group, whatever order of Subscribe, Unsubscribe and cleanup produced    *)
(* the list: HandlePublish sends a message once per entry, and resolves    *)
(* the selected id to the first entry that carries it.  A group goes with  *)
(* its last member, whichever method removes that one; and only a          *)
(* registered topic has subscribers, so that ADMIN_LIST_TOPICS shows it.   *)
TableSound ==
  /\ Unique(subs)
  /\ \A g \in DOMAIN groups : Unique(groups[g].members)
  /\ \A g \in DOMAIN groups : groups[g].members # << >>
  /\ subs # << >> \/ DOMAIN groups # {} => registered

(* Round-robin: as long as the members of a group stay the same, nobody is *)
(* selected twice before everybody was selected once, although the index   *)
(* survives joins and leaves and may lie beyond the end of the list.       *)
RoundRobinFair ==
  \A g \in Groups : \A i, j \in 1..Len(round[g]) :
    round[g][i] = round[g][j] => i = j
=============================================================================
