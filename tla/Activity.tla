------------------------------ MODULE Activity ------------------------------
(***************************************************************************)
(* The activity feed: what each event of the vault decodes to              *)
(* (chain/event-reader.ts, user-activity.ts, agent-activity.ts), the rows  *)
(* GET /activity selects for a query (activity-feed.ts), and the tabs the  *)
(* app sorts them into (activity/map.ts, activity/page.tsx).               *)
(*                                                                         *)
(* The server knows a run of the vault's events, in order, as ChainPoller  *)
(* promises; a row's seq is its event's place in that run. The in-memory   *)
(* ActivityLog, to which nothing appends, is empty.                        *)
(***************************************************************************)
EXTENDS Naturals, SequencesExt, FiniteSetsExt

CONSTANTS
  Users, NoUser, Currencies, NoCurrency,
  Limit,         (* The rows an answer holds: 50 unless the query says.     *)
  MaxEvents      (* Bound: events of the vault.                             *)

ConstantsOK ==
  /\ NoUser \notin Users /\ NoCurrency \notin Currencies /\ Limit \in Nat \ {0}

VARIABLES
  events,        (* The vault's events.                                     *)
  known          (* How many of them the server has stored.                 *)

vars == <<events, known>>

Event(topic, u, c) == [topic |-> topic, who |-> u, currency |-> c]

(* What the vault emits, and an event of a contract that is not known.     *)
Emitted ==
  {Event(t, u, c) : t \in {"deposit", "withdraw"}, u \in Users, c \in Currencies}
    \cup {Event(t, u, NoCurrency) : t \in {"consent_set", "auto_compound_set"}, u \in Users}
    \cup {Event(t, NoUser, c) : t \in {"allocated", "deallocated", "exit_proposed",
                                       "exit_approved"}, c \in Currencies}
    \cup {Event(t, NoUser, NoCurrency) : t \in {"frozen", "unfrozen", "unknown"}}

Init == events = <<>> /\ known = 0

Emit(e) ==
  /\ Len(events) < MaxEvents
  /\ events' = Append(events, e)
  /\ UNCHANGED known

Poll ==
  /\ \E n \in known + 1 .. Len(events) : known' = n
  /\ UNCHANGED events

Restart == known > 0 /\ known' = 0 /\ UNCHANGED events

-----------------------------------------------------------------------------
(* decodeEvent: the row kind of each topic. Events that name no depositor  *)
(* and no action of the keeper give none.                                  *)
UserKind ==
  [deposit |-> "deposit", withdraw |-> "withdraw", consent_set |-> "sign-mandate",
   auto_compound_set |-> "auto-compound"]

AgentKind ==
  [allocated |-> "allocated", deallocated |-> "rebalanced", frozen |-> "froze",
   unfrozen |-> "froze", exit_proposed |-> "proposed-exit"]

Row(actor, kind, seq) ==
  [actor |-> actor, kind |-> kind, seq |-> seq, who |-> events[seq].who,
   currency |-> events[seq].currency]

userEvents ==
  {Row("you", UserKind[events[n].topic], n) :
     n \in {m \in 1 .. known : events[m].topic \in DOMAIN UserKind}}

agentEvents ==
  {Row("agent", AgentKind[events[n].topic], n) :
     n \in {m \in 1 .. known : events[m].topic \in DOMAIN AgentKind}}

-----------------------------------------------------------------------------
(* getActivity. A query names a depositor, an actor and a currency, or not.*)
Queries ==
  [depositor : Users \cup {NoUser}, actor : {"you", "agent", "both"},
   currency : Currencies \cup {NoCurrency}]

userRows(q) ==
  {r \in userEvents : /\ q.depositor # NoUser => r.who = q.depositor
                      /\ q.currency # NoCurrency => r.currency = q.currency}

(* The depositor is in the scope of a bucket from his first row there on,  *)
(* and in that of actions on no bucket from his first row of all on.       *)
LastSeq(rows) == Max({r.seq : r \in rows})

FirstSeq(rows) == Min({r.seq : r \in rows})

inScope(r, q) ==
  LET own == {o \in userRows(q) : r.currency # NoCurrency => o.currency = r.currency}
      buckets == {o \in userRows(q) : o.currency # NoCurrency}
  IN q.depositor # NoUser =>
       /\ own # {} /\ buckets # {}
       /\ r.seq >= FirstSeq(own)

chainAgentRows(q) ==
  {r \in agentEvents :
     /\ q.currency # NoCurrency => r.currency \in {q.currency, NoCurrency}
     /\ inScope(r, q)}

merged(q) ==
  {r \in userRows(q) \cup chainAgentRows(q) : q.actor \in {r.actor, "both"}}

Newer(r, rows) == {o \in rows : o.seq > r.seq}

getActivity(q) == {r \in merged(q) : Cardinality(Newer(r, merged(q))) < Limit}

-----------------------------------------------------------------------------
(* The page: every row of the depositor's feed, or those of one tab.       *)
Tab(r) == IF r.actor = "you" THEN "you" ELSE "auto"

Feed(u) == getActivity([depositor |-> u, actor |-> "both", currency |-> NoCurrency])

Shown(u, tab) == {r \in Feed(u) : tab \in {"all", Tab(r)}}

-----------------------------------------------------------------------------
Next == (\E e \in Emitted : Emit(e)) \/ Poll \/ Restart

Spec == Init /\ [][Next]_vars

-----------------------------------------------------------------------------
(* As the server learns more, no answer loses a row, and no tab of the     *)
(* page, except the oldest to as many newer ones as an answer holds: what  *)
(* brought a row into a depositor's scope stays the first of its kind.     *)
RowsStay ==
  [][known' > known =>
       /\ \A q \in Queries : \A r \in getActivity(q) :
            r \in getActivity(q)' \/ Cardinality(Newer(r, getActivity(q)')) >= Limit
       /\ \A u \in Users, tab \in {"all", "you", "auto"} : \A r \in Shown(u, tab) :
            r \in Shown(u, tab)' \/ Cardinality(Newer(r, Feed(u)')) >= Limit]_vars

=============================================================================
