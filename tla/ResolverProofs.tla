---- MODULE ResolverProofs ----
(***************************************************************************)
(* One call of the resolver, for every number of nameservers and retries   *)
(* and whatever they answer.                                               *)
(***************************************************************************)
EXTENDS Resolver, SequenceTheorems, TLAPS

AddrEntry == [type : {"hosts", "A", "AAAA"}, server : Nat, n : Nat]
Turns == [q : 1..2, s : Nat \ {0}, attempt : 0..Retries]

ResolverTypes ==
    /\ zone \in Zones /\ hits \in HostsHits
    /\ stage \in {"start", "send", "wait", "done"} /\ turn \in Turns
    /\ sock \in [port : Ports \cup {0}, id : QueryIds \cup {0}]
    /\ \A a \in flight : a.server \in Servers /\ a.type \in {"A", "AAAA"}
    /\ found \in BOOLEAN /\ addrs \in Seq(AddrEntry)
    /\ tries \in [1..2 -> [Servers -> Nat]]

Asking == stage \in {"send", "wait"}

\* The attempts up to a turn, `used` of them with its server and question.
Tally(count, t, used, answered) ==
    \A q \in 1..2, s \in Servers :
      /\ q = t.q /\ s < t.s => count[q][s] = Retries + 1
      /\ q = t.q /\ s = t.s => count[q][s] = used
      /\ q = t.q /\ s > t.s => count[q][s] = 0
      /\ q > t.q => count[q][s] = 0
      /\ q < t.q /\ ~answered => count[q][s] = Retries + 1

InTurn(count) ==
    \A q \in 1..2, s \in Servers :
      /\ count[q][s] <= Retries + 1
      /\ \A r \in Servers : r < s /\ count[q][s] > 0 => count[q][r] = Retries + 1

None(count) == \A q \in 1..2, s \in Servers : count[q][s] = 0
All(count) == \A q \in 1..2, s \in Servers : count[q][s] = Retries + 1

\* Where the call stands, by the attempts it has made.
TurnExact ==
    /\ stage = "start" => turn = [q |-> 1, s |-> 1, attempt |-> 0]
    /\ stage = "start" \/ hits > 0 => None(tries)
    /\ Asking => /\ turn.s \in Servers /\ hits = 0
                 /\ Tally(tries, turn, IF stage = "wait" THEN turn.attempt + 1 ELSE turn.attempt, found)
    /\ InTurn(tries)
    /\ stage = "done" /\ hits = 0 /\ ~found => All(tries)
    /\ sock # NoSock <=> stage = "wait"

\* What the call has appended by then.
AddrsExact ==
    /\ stage = "start" => ~found
    /\ Asking /\ turn.q = 1 => ~found
    /\ Asking => \A k \in DOMAIN addrs : addrs[k].type = "A"
    /\ \A a \in flight : a.type = "AAAA" => turn.q = 2
    /\ AnswersOfZones

ResolverInv == ResolverTypes /\ TurnExact /\ AddrsExact

------------------------------------------------------------------------------
\* What an append adds to `out`.

AddsEntries(out, numbers, type, server) ==
    /\ out \in Seq(AddrEntry) /\ Len(addrs) <= Len(out)
    /\ \A k \in 1..Len(addrs) : out[k] = addrs[k]
    /\ \A k \in DOMAIN out : k > Len(addrs) =>
         out[k].type = type /\ out[k].server = server /\ out[k].n \in numbers
    /\ \A j, k \in DOMAIN out : Len(addrs) < j /\ j < k => out[j].n < out[k].n

\* A selection of numbered entries is appended in the order of its numbers.
LEMMA AppendedAdds ==
  ASSUME addrs \in Seq(AddrEntry), NEW numbers \in SUBSET Nat,
         NEW type \in {"hosts", "A", "AAAA"}, NEW server \in Nat,
         NEW out \in Appended(numbers, type, server)
  PROVE  AddsEntries(out, numbers, type, server)
<1>1. PICK f \in Selections(numbers) :
        out = addrs \o [k \in DOMAIN f |-> [type |-> type, server |-> server, n |-> f[k]]]
  BY DEF Appended
<1>2. PICK m \in 0..Cardinality(numbers) : f \in [1..m -> numbers]
  BY DEF Selections
<1>3. m \in Nat /\ DOMAIN f = 1..m /\ \A i, j \in 1..m : i < j => f[i] < f[j]
  BY <1>2 DEF Selections
<1> DEFINE new == [k \in 1..m |-> [type |-> type, server |-> server, n |-> f[k]]]
<1>4. new \in Seq(AddrEntry) /\ Len(new) = m
  <2>1. \A k \in 1..m : f[k] \in Nat  BY <1>2
  <2>2. new \in [1..m -> AddrEntry]  BY <2>1 DEF AddrEntry
  <2> HIDE DEF new
  <2> QED  BY <2>2, <1>3
<1>5. \A k \in 1..m : new[k].type = type /\ new[k].server = server /\ new[k].n = f[k]
  OBVIOUS
<1>6. out = addrs \o new  BY <1>1, <1>3
<1> HIDE DEF new
<1>7. /\ out \in Seq(AddrEntry) /\ Len(out) = Len(addrs) + m
      /\ \A k \in 1..Len(addrs) : out[k] = addrs[k]
      /\ \A k \in DOMAIN out : k > Len(addrs) => k - Len(addrs) \in 1..m /\ out[k] = new[k - Len(addrs)]
  BY <1>3, <1>4, <1>6
<1>8. ASSUME NEW j \in DOMAIN out, NEW k \in DOMAIN out, Len(addrs) < j, j < k
      PROVE  out[j].n < out[k].n
  <2>1. Len(addrs) \in Nat /\ j \in Nat /\ k \in Nat  BY <1>7
  <2> DEFINE a == j - Len(addrs)
             b == k - Len(addrs)
  <2>2. a \in 1..m /\ b \in 1..m /\ a < b  BY <1>7, <1>8, <2>1
  <2>3. out[j] = new[a] /\ out[k] = new[b]  BY <1>7, <1>8, <2>1
  <2> HIDE DEF a, b
  <2> QED  BY <2>2, <2>3, <1>3, <1>5
<1>9. ASSUME NEW k \in DOMAIN out, k > Len(addrs)
      PROVE  out[k].type = type /\ out[k].server = server /\ out[k].n \in numbers
  <2> DEFINE b == k - Len(addrs)
  <2>1. b \in 1..m /\ out[k] = new[b]  BY <1>7, <1>9
  <2> HIDE DEF b
  <2>2. f[b] \in numbers  BY <2>1, <1>2
  <2> QED  BY <2>1, <2>2, <1>5
<1>10. Len(addrs) <= Len(out)  BY <1>7, <1>3
<1> QED  BY <1>7, <1>8, <1>9, <1>10 DEF AddsEntries

------------------------------------------------------------------------------
\* What comes after an attempt.

\* The turn that the loops go to, and what has been tried by then.
Moved ==
    \/ /\ stage' = "send" /\ turn' \in Turns /\ turn'.s \in Servers
       /\ Tally(tries', turn', turn'.attempt, found') /\ turn'.q >= turn.q
       /\ turn'.q = 1 => ~found'
    \/ stage' = "done" /\ turn' = turn /\ (~found' => All(tries'))

\* The resolver goes to AAAA after A, and then it is done.
LEMMA QuestionMoves ==
  ASSUME ResolverTypes, turn.s \in Servers, NextQuestion, found' \in BOOLEAN,
         \A q \in 1..2, s \in Servers :
           /\ q > turn.q => tries'[q][s] = 0
           /\ q <= turn.q /\ ~found' => tries'[q][s] = Retries + 1
  PROVE  Moved
<1>1. zone \in Seq([{"A", "AAAA"} -> AnswerRecord])  BY ResolverAssumption DEF ResolverTypes
<1>2. Servers = 1..Len(zone) /\ Len(zone) \in Nat  BY <1>1 DEF Servers
<1>3. turn \in Turns /\ turn.q \in 1..2 /\ turn.s \in Nat  BY DEF ResolverTypes, Turns
<1>4. CASE turn.q = 1
  <2>1. turn' = [q |-> 2, s |-> 1, attempt |-> 0] /\ stage' = "send"
    BY <1>4 DEF NextQuestion, QUERY_TYPES
  <2>2. turn' \in Turns /\ turn'.q = 2 /\ turn'.s = 1 /\ turn'.attempt = 0
    BY <2>1, ResolverAssumption DEF Turns
  <2>3. 1 \in Servers  BY <1>2, <1>3
  <2>4. \A q \in 1..2, s \in Servers : q <= 2 /\ (q < 2 => q = 1) /\ s >= 1  BY <1>2
  <2>5. Tally(tries', turn', turn'.attempt, found')  BY <2>2, <2>4, <1>2, <1>4 DEF Tally
  <2> QED  BY <2>1, <2>2, <2>3, <2>5, <1>4 DEF Moved
<1>5. CASE turn.q = 2
  <2>1. stage' = "done" /\ turn' = turn  BY <1>5 DEF NextQuestion, QUERY_TYPES
  <2>2. ~found' => All(tries')  BY <1>5 DEF All
  <2> QED  BY <2>1, <2>2 DEF Moved
<1> QED  BY <1>3, <1>4, <1>5

\* A failed attempt is followed by the next one of its server, by the first
\* one of the next server, or by the next question.
LEMMA AttemptMoves ==
  ASSUME ResolverTypes, turn.s \in Servers, NextAttempt, found' = found, turn.q = 1 => ~found,
         Tally(tries', turn, turn.attempt + 1, found)
  PROVE  Moved
<1>1. zone \in Seq([{"A", "AAAA"} -> AnswerRecord])  BY ResolverAssumption DEF ResolverTypes
<1>2. Servers = 1..Len(zone) /\ Len(zone) \in Nat  BY <1>1 DEF Servers
<1>3. /\ turn \in Turns /\ turn.q \in 1..2 /\ turn.s \in Nat /\ turn.attempt \in 0..Retries
      /\ Retries \in Nat
  BY ResolverAssumption DEF ResolverTypes, Turns
<1>4. CASE turn.attempt < Retries
  <2>1. turn' = [turn EXCEPT !.attempt = @ + 1] /\ stage' = "send"
    BY <1>3, <1>4 DEF NextAttempt
  <2>2. turn' \in Turns /\ turn'.q = turn.q /\ turn'.s = turn.s /\ turn'.attempt = turn.attempt + 1
    BY <2>1, <1>3, <1>4 DEF Turns
  <2>3. Tally(tries', turn', turn'.attempt, found')  BY <2>2 DEF Tally
  <2> QED  BY <2>1, <2>2, <2>3, <1>3 DEF Moved
<1>5. CASE turn.attempt = Retries /\ turn.s < Len(zone)
  <2>1. turn' = [turn EXCEPT !.s = @ + 1, !.attempt = 0] /\ stage' = "send"
    BY <1>3, <1>5 DEF NextAttempt
  <2>2. turn.s + 1 \in Nat \ {0} /\ 0 \in 0..Retries  BY <1>3
  <2>3. turn' = [q |-> turn.q, s |-> turn.s + 1, attempt |-> 0]  BY <2>1, <1>3 DEF Turns
  <2>4. turn' \in Turns /\ turn'.q = turn.q /\ turn'.s = turn.s + 1 /\ turn'.attempt = 0
    BY <2>2, <2>3, <1>3 DEF Turns
  <2>5. turn'.s \in Servers  BY <2>4, <1>2, <1>3, <1>5
  <2>6. Tally(tries', turn', turn'.attempt, found')
    BY <2>4, <1>2, <1>3, <1>5 DEF Tally
  <2> QED  BY <2>1, <2>4, <2>5, <2>6, <1>3 DEF Moved
<1>6. CASE turn.attempt = Retries /\ ~(turn.s < Len(zone))
  <2>1. NextQuestion  BY <1>3, <1>6 DEF NextAttempt
  <2>2. turn.s = Len(zone)  BY <1>2, <1>3, <1>6
  <2>3. \A q \in 1..2, s \in Servers :
          /\ q > turn.q => tries'[q][s] = 0
          /\ q <= turn.q /\ ~found' => tries'[q][s] = Retries + 1
    <3> SUFFICES ASSUME NEW q \in 1..2, NEW s \in Servers
                 PROVE  /\ q > turn.q => tries'[q][s] = 0
                        /\ q <= turn.q /\ ~found' => tries'[q][s] = Retries + 1
      OBVIOUS
    <3>1. s < turn.s \/ s = turn.s  BY <2>2, <1>2
    <3>2. q < turn.q \/ q = turn.q \/ q > turn.q  BY <1>3
    <3> QED  BY <3>1, <3>2, <1>3, <1>6 DEF Tally
  <2> QED  BY <2>1, <2>3, QuestionMoves DEF ResolverTypes
<1> QED  BY <1>3, <1>4, <1>5, <1>6

\* One more attempt is the next one of the server and the question in turn.
LEMMA AttemptCounted ==
  ASSUME ResolverTypes, turn.s \in Servers, Tried, InTurn(tries),
         Tally(tries, turn, turn.attempt, found)
  PROVE  tries' \in [1..2 -> [Servers -> Nat]] /\ InTurn(tries') /\ Tally(tries', turn, turn.attempt + 1, found)
<1>1. zone \in Seq([{"A", "AAAA"} -> AnswerRecord])  BY ResolverAssumption DEF ResolverTypes
<1>2. Servers = 1..Len(zone) /\ Len(zone) \in Nat  BY <1>1 DEF Servers
<1>3. turn.q \in 1..2 /\ turn.s \in 1..Len(zone) /\ turn.attempt \in 0..Retries /\ Retries \in Nat
  BY <1>2, ResolverAssumption DEF ResolverTypes, Turns
<1>4. tries \in [1..2 -> [Servers -> Nat]]  BY DEF ResolverTypes
<1>5. tries[turn.q][turn.s] = turn.attempt  BY <1>3, <1>2 DEF Tally
<1>6. tries' = [tries EXCEPT ![turn.q] = [tries[turn.q] EXCEPT ![turn.s] = turn.attempt + 1]]
  BY <1>3, <1>4, <1>5 DEF Tried
<1>7. tries[turn.q] \in [Servers -> Nat] /\ turn.attempt + 1 \in Nat  BY <1>3, <1>4
<1>8. tries' \in [1..2 -> [Servers -> Nat]]  BY <1>3, <1>4, <1>6, <1>7
<1>9. \A q \in 1..2, s \in Servers :
        tries'[q][s] = IF q = turn.q /\ s = turn.s THEN turn.attempt + 1 ELSE tries[q][s]
  BY <1>3, <1>4, <1>6, <1>7
<1>10. Tally(tries', turn, turn.attempt + 1, found)
  BY <1>9, <1>2, <1>3 DEF Tally
<1>11. ASSUME NEW q \in 1..2, NEW s \in Servers
       PROVE  /\ tries'[q][s] <= Retries + 1
              /\ \A r \in Servers : r < s /\ tries'[q][s] > 0 => tries'[q][r] = Retries + 1
  <2>1. tries[q][s] \in Nat /\ s \in 1..Len(zone)  BY <1>2, <1>4
  <2>2. tries'[q][s] <= Retries + 1  BY <1>3, <1>9, <2>1 DEF InTurn
  <2>3. ASSUME NEW r \in Servers, r < s, tries'[q][s] > 0
        PROVE  tries'[q][r] = Retries + 1
    <3>1. r \in 1..Len(zone)  BY <1>2
    <3>2. CASE q = turn.q /\ s = turn.s
      <4>1. tries[q][r] = Retries + 1  BY <2>3, <3>2 DEF Tally
      <4> QED  BY <4>1, <3>1, <3>2, <2>1, <2>3, <1>9, <1>2
    <3>3. CASE ~(q = turn.q /\ s = turn.s)
      <4>1. tries[q][s] > 0  BY <3>3, <2>3, <1>9
      <4>2. tries[q][r] = Retries + 1  BY <4>1, <2>3 DEF InTurn
      <4>3. ~(q = turn.q /\ r = turn.s)
        <5> SUFFICES ASSUME q = turn.q, r = turn.s  PROVE FALSE  OBVIOUS
        <5>1. s > turn.s  BY <2>1, <2>3, <3>1, <1>3
        <5>2. tries[q][s] = 0  BY <5>1 DEF Tally
        <5> QED  BY <5>2, <4>1
      <4> QED  BY <4>2, <4>3, <3>1, <1>9
    <3> QED  BY <3>2, <3>3
  <2> QED  BY <2>2, <2>3
<1> QED  BY <1>8, <1>10, <1>11 DEF InTurn

------------------------------------------------------------------------------
\* The invariant, action by action.

\* A call starts in the invariant.
LEMMA ResolverInvInit == ResolverInit => ResolverInv
<1> SUFFICES ASSUME ResolverInit PROVE ResolverInv  OBVIOUS
<1> USE DEF ResolverInit
<1>1. zone \in Seq([{"A", "AAAA"} -> AnswerRecord])  BY ResolverAssumption
<1>2. Servers = 1..Len(zone) /\ Len(zone) \in Nat  BY <1>1 DEF Servers
<1>3. addrs = << >> /\ addrs \in Seq(AddrEntry) /\ DOMAIN addrs = {}  OBVIOUS
<1>4. tries \in [1..2 -> [Servers -> Nat]] /\ None(tries)  BY DEF None
<1>5. turn \in Turns  BY ResolverAssumption DEF Turns
<1>6. ResolverTypes  BY <1>3, <1>4, <1>5 DEF ResolverTypes, NoSock
<1>7. TurnExact
  <2>1. InTurn(tries)  BY <1>2, ResolverAssumption DEF InTurn
  <2> QED  BY <1>4, <2>1 DEF TurnExact, Asking
<1>8. AddrsExact  BY <1>3 DEF AddrsExact, Asking, AnswersOfZones
<1> QED  BY <1>6, <1>7, <1>8 DEF ResolverInv

\* The invariant is about the call's variables.
LEMMA ResolverInvStutter == ResolverInv /\ UNCHANGED resolver => ResolverInv'
BY DEF ResolverInv, resolver, ResolverTypes, TurnExact, AddrsExact, AnswersOfZones, Asking, Tally, InTurn,
       None, All, Servers

\* The hosts table answers before any server is asked.
LEMMA HostsKeepInv == ResolverInv /\ FromHosts => ResolverInv'
<1> SUFFICES ASSUME ResolverInv, FromHosts PROVE ResolverInv'  OBVIOUS
<1> USE DEF ResolverInv
<1>1. hits \in Nat /\ hits > 0  BY ResolverAssumption DEF ResolverTypes, FromHosts
<1>2. addrs \in Seq(AddrEntry) /\ addrs = << >> /\ Len(addrs) = 0
  BY DEF ResolverTypes, AddrsExact, AnswersOfZones, FromHosts
<1>3. AddsEntries(addrs', 1..hits, "hosts", 0)
  <2>1. 1..hits \in SUBSET Nat  BY <1>1
  <2> QED  BY <2>1, <1>2, AppendedAdds DEF FromHosts
<1>4. ResolverTypes'
  BY <1>3 DEF ResolverTypes, FromHosts, AddsEntries, Servers
<1>5. TurnExact'
  BY <1>1 DEF TurnExact, FromHosts, Asking, None, InTurn, Servers
<1>6. AddrsExact'
  <2>1. \A k \in DOMAIN addrs' :
          k > 0 /\ addrs'[k].type = "hosts" /\ addrs'[k].server = 0
    BY <1>2, <1>3 DEF AddsEntries
  <2>2. \A j, k \in DOMAIN addrs' : j < k => addrs'[j].n < addrs'[k].n
    BY <1>2, <1>3, <2>1 DEF AddsEntries
  <2>3. AnswersOfZones'  BY <2>1, <2>2 DEF AnswersOfZones, FromHosts
  <2> QED  BY <2>3 DEF AddrsExact, FromHosts, Asking
<1> QED  BY <1>4, <1>5, <1>6

\* The name is not in the hosts table: the first server is asked, if there is one.
LEMMA ServersKeepInv == ResolverInv /\ FromServers => ResolverInv'
<1> SUFFICES ASSUME ResolverInv, FromServers PROVE ResolverInv'  OBVIOUS
<1> USE DEF ResolverInv
<1>1. zone \in Seq([{"A", "AAAA"} -> AnswerRecord])  BY ResolverAssumption DEF ResolverTypes
<1>2. Servers = 1..Len(zone) /\ Len(zone) \in Nat  BY <1>1 DEF Servers
<1>3. turn = [q |-> 1, s |-> 1, attempt |-> 0] /\ None(tries) /\ ~found /\ addrs = << >> /\ DOMAIN addrs = {}
  BY DEF TurnExact, AddrsExact, AnswersOfZones, FromServers
<1>4. Servers' = Servers  BY DEF FromServers, Servers
<1>5. ResolverTypes'  BY <1>4 DEF ResolverTypes, FromServers
<1>6. TurnExact'
  <2>1. CASE Servers = {}
    <3>1. stage' = "done"  BY <2>1 DEF FromServers
    <3> QED  BY <2>1, <3>1, <1>4 DEF TurnExact, FromServers, Asking, InTurn, All, None
  <2>2. CASE Servers # {}
    <3>1. stage' = "send" /\ 1 \in Servers  BY <2>2, <1>2 DEF FromServers
    <3>2. Tally(tries', turn', 0, found')
      BY <1>2, <1>3, <1>4 DEF Tally, None, FromServers
    <3>3. InTurn(tries)'  BY <1>4 DEF TurnExact, FromServers, InTurn
    <3>4. turn'.s = 1 /\ turn'.attempt = 0 /\ hits' = 0 /\ sock' = sock /\ sock = NoSock
      BY <1>3 DEF FromServers, TurnExact
    <3>5. Tally(tries, turn, turn.attempt, found)'  BY <3>2, <3>4, <1>4 DEF Tally
    <3> QED  BY <3>1, <3>3, <3>4, <3>5, <1>4 DEF TurnExact, Asking
  <2> QED  BY <2>1, <2>2
<1>7. AddrsExact'
  BY <1>3 DEF AddrsExact, AnswersOfZones, FromServers, Asking
<1> QED  BY <1>5, <1>6, <1>7

\* The step to the next turn keeps the account of the attempts.
LEMMA MovedTurnExact ==
  ASSUME Moved, zone' = zone, hits' = hits, hits = 0, InTurn(tries'), sock' = NoSock
  PROVE  TurnExact'
<1>1. Servers' = Servers  BY DEF Servers
<1>2. InTurn(tries)'  BY <1>1 DEF InTurn
<1>3. CASE stage' = "send"
  <2>1. turn'.s \in Servers /\ Tally(tries', turn', turn'.attempt, found')  BY <1>3 DEF Moved
  <2>2. Tally(tries, turn, turn.attempt, found)'  BY <2>1, <1>1 DEF Tally
  <2> QED  BY <2>1, <2>2, <1>1, <1>2, <1>3 DEF TurnExact, Asking
<1>4. CASE stage' = "done"
  <2>1. ~found' => All(tries)'  BY <1>4, <1>1 DEF Moved, All
  <2> QED  BY <2>1, <1>2, <1>4 DEF TurnExact, Asking
<1> QED  BY <1>3, <1>4 DEF Moved

\* And an attempt that brings nothing appends nothing.
LEMMA MovedAddrsExact ==
  ASSUME ResolverTypes, Asking, AddrsExact, Moved, UNCHANGED <<zone, found, addrs>>, flight' \subseteq flight
  PROVE  AddrsExact'
<1>1. turn.q \in 1..2 /\ turn'.q \in Int /\ (turn.q = 2 => turn'.q = 2)
  BY DEF ResolverTypes, Turns, Moved
<1>2. AnswersOfZones'  BY DEF AddrsExact, AnswersOfZones
<1>3. stage' # "start"  BY DEF Moved
<1>4. Asking' /\ turn'.q = 1 => ~found'
  BY DEF Moved, Asking
<1>5. \A a \in flight' : a.type = "AAAA" => turn'.q = 2  BY <1>1 DEF AddrsExact
<1> QED  BY <1>2, <1>3, <1>4, <1>5 DEF AddrsExact, Asking

\* The types after a step to the next turn.
LEMMA MovedTypes ==
  ASSUME ResolverTypes, Moved, UNCHANGED <<zone, hits>>, sock' = NoSock, flight' \subseteq flight,
         found' \in BOOLEAN, addrs' \in Seq(AddrEntry), tries' \in [1..2 -> [Servers -> Nat]]
  PROVE  ResolverTypes'
<1>1. Servers' = Servers  BY DEF Servers
<1>2. stage' \in {"send", "done"} /\ turn' \in Turns  BY DEF Moved, ResolverTypes
<1>3. sock' \in [port : Ports \cup {0}, id : QueryIds \cup {0}]  BY DEF NoSock
<1> QED  BY <1>1, <1>2, <1>3 DEF ResolverTypes

\* An attempt that sends nothing is counted.
LEMMA FailureKeepsInv == ResolverInv /\ AttemptFails => ResolverInv'
<1> SUFFICES ASSUME ResolverInv, AttemptFails PROVE ResolverInv'  OBVIOUS
<1> USE DEF ResolverInv
<1>1. /\ stage = "send" /\ Asking /\ Tried /\ NextAttempt
      /\ UNCHANGED <<zone, hits, sock, flight, found, addrs>>
  BY DEF AttemptFails, Asking
<1>2. turn.s \in Servers /\ hits = 0 /\ Tally(tries, turn, turn.attempt, found) /\ InTurn(tries) /\ sock = NoSock
  BY <1>1 DEF TurnExact
<1>3. tries' \in [1..2 -> [Servers -> Nat]] /\ InTurn(tries') /\ Tally(tries', turn, turn.attempt + 1, found)
  BY <1>1, <1>2, AttemptCounted
<1>4. turn.q = 1 => ~found  BY <1>1 DEF AddrsExact
<1>5. Moved  BY <1>1, <1>2, <1>3, <1>4, AttemptMoves
<1>6. TurnExact'  BY <1>1, <1>2, <1>3, <1>5, MovedTurnExact
<1>7. flight' \subseteq flight /\ found' \in BOOLEAN /\ addrs' \in Seq(AddrEntry)  BY <1>1 DEF ResolverTypes
<1>8. AddrsExact'  BY <1>1, <1>5, <1>7, MovedAddrsExact
<1>9. ResolverTypes'  BY <1>1, <1>2, <1>3, <1>5, <1>7, MovedTypes
<1> QED  BY <1>6, <1>8, <1>9

\* A question sent is counted, and its answer may come at any time.
LEMMA SendKeepsInv == ResolverInv /\ Send => ResolverInv'
<1> SUFFICES ASSUME ResolverInv, Send PROVE ResolverInv'  OBVIOUS
<1> USE DEF ResolverInv
<1>1. /\ stage = "send" /\ stage' = "wait" /\ Asking /\ Asking' /\ Tried
      /\ UNCHANGED <<zone, hits, turn, found, addrs>>
  BY DEF Send, Asking
<1>2. turn.s \in Servers /\ hits = 0 /\ Tally(tries, turn, turn.attempt, found) /\ InTurn(tries)
  BY <1>1 DEF TurnExact
<1>3. tries' \in [1..2 -> [Servers -> Nat]] /\ InTurn(tries') /\ Tally(tries', turn, turn.attempt + 1, found)
  BY <1>1, <1>2, AttemptCounted
<1>4. Servers' = Servers  BY <1>1 DEF Servers
<1>5. PICK p \in Ports, id \in QueryIds :
        /\ sock' = [port |-> p, id |-> id]
        /\ flight' = IF zone[turn.s][qtype].rcode = "silent" THEN flight
                     ELSE flight \cup {[server |-> turn.s, port |-> p, id |-> id, type |-> qtype]}
  BY DEF Send
<1>6. sock' # NoSock /\ sock' \in [port : Ports \cup {0}, id : QueryIds \cup {0}]
  BY <1>5, ResolverAssumption DEF NoSock
<1>7. turn.q \in 1..2 /\ qtype \in {"A", "AAAA"} /\ (qtype = "AAAA" => turn.q = 2)
  BY DEF ResolverTypes, Turns, qtype, QUERY_TYPES
<1>8. \A a \in flight' : a.server \in Servers /\ a.type \in {"A", "AAAA"} /\ (a.type = "AAAA" => turn.q = 2)
  BY <1>2, <1>5, <1>7 DEF ResolverTypes, AddrsExact
<1>9. ResolverTypes'  BY <1>1, <1>3, <1>4, <1>6, <1>8 DEF ResolverTypes
<1>10. TurnExact'
  <2>1. InTurn(tries)'  BY <1>3, <1>4 DEF InTurn
  <2>2. Tally(tries, turn, turn.attempt + 1, found)'  BY <1>1, <1>3, <1>4 DEF Tally
  <2> QED  BY <1>1, <1>2, <1>4, <1>6, <2>1, <2>2 DEF TurnExact
<1>11. AddrsExact'
  <2>1. AnswersOfZones'  BY <1>1 DEF AddrsExact, AnswersOfZones
  <2> QED  BY <1>1, <1>8, <2>1 DEF AddrsExact
<1> QED  BY <1>9, <1>10, <1>11

\* An attempt without an answer leaves its socket behind.
LEMMA NothingKeepsInv == ResolverInv /\ RecvNothing => ResolverInv'
<1> SUFFICES ASSUME ResolverInv, RecvNothing PROVE ResolverInv'  OBVIOUS
<1> USE DEF ResolverInv
<1>1. /\ stage = "wait" /\ Asking /\ NextAttempt /\ sock' = NoSock
      /\ UNCHANGED <<zone, hits, flight, found, addrs, tries>>
  BY DEF RecvNothing, Asking
<1>2. turn.s \in Servers /\ hits = 0 /\ Tally(tries, turn, turn.attempt + 1, found) /\ InTurn(tries)
  BY <1>1 DEF TurnExact
<1>3. InTurn(tries') /\ Tally(tries', turn, turn.attempt + 1, found)  BY <1>1, <1>2
<1>4. turn.q = 1 => ~found  BY <1>1 DEF AddrsExact
<1>5. Moved  BY <1>1, <1>2, <1>3, <1>4, AttemptMoves
<1>6. TurnExact'  BY <1>1, <1>2, <1>3, <1>5, MovedTurnExact
<1>7. /\ flight' \subseteq flight /\ found' \in BOOLEAN /\ addrs' \in Seq(AddrEntry)
      /\ tries' \in [1..2 -> [Servers -> Nat]]
  BY <1>1 DEF ResolverTypes
<1>8. AddrsExact'  BY <1>1, <1>5, <1>7, MovedAddrsExact
<1>9. ResolverTypes'  BY <1>1, <1>2, <1>3, <1>5, <1>7, MovedTypes
<1> QED  BY <1>6, <1>8, <1>9

\* An answer, this attempt's or a late one, appends records of the type asked
\* or nothing.
LEMMA AnswerKeepsInv == ResolverInv /\ RecvAnswer => ResolverInv'
<1> SUFFICES ASSUME ResolverInv, RecvAnswer PROVE ResolverInv'  OBVIOUS
<1> USE DEF ResolverInv
<1>1. stage = "wait" /\ Asking /\ sock' = NoSock /\ UNCHANGED <<zone, hits, tries>>
  BY DEF RecvAnswer, Asking
<1>2. turn.s \in Servers /\ hits = 0 /\ Tally(tries, turn, turn.attempt + 1, found) /\ InTurn(tries)
  BY <1>1 DEF TurnExact
<1>3. InTurn(tries') /\ Tally(tries', turn, turn.attempt + 1, found)  BY <1>1, <1>2
<1>4. turn.q = 1 => ~found  BY <1>1 DEF AddrsExact
<1>5. tries' \in [1..2 -> [Servers -> Nat]]  BY <1>1 DEF ResolverTypes
<1>6. PICK a \in flight :
        LET answer == zone[a.server][a.type]
            entries == IF a.id = sock.id /\ answer.rcode = "NOERROR" THEN Extracted(answer) ELSE {}
        IN  /\ a.server = turn.s /\ a.port = sock.port
            /\ flight' \in {flight, flight \ {a}}
            /\ IF entries = {} THEN NextAttempt /\ UNCHANGED <<found, addrs>>
               ELSE NextQuestion /\ found' = TRUE /\ addrs' \in Appended(entries, qtype, turn.s)
  BY DEF RecvAnswer
<1>7. flight' \subseteq flight  BY <1>6
<1>8. CASE NextAttempt /\ UNCHANGED <<found, addrs>>
  <2>1. Moved  BY <1>1, <1>2, <1>3, <1>4, <1>8, AttemptMoves
  <2>2. TurnExact'  BY <1>1, <1>2, <1>3, <2>1, MovedTurnExact
  <2>3. found' \in BOOLEAN /\ addrs' \in Seq(AddrEntry)  BY <1>8 DEF ResolverTypes
  <2>4. AddrsExact'  BY <1>1, <1>7, <1>8, <2>1, MovedAddrsExact
  <2>5. ResolverTypes'  BY <1>1, <1>2, <1>5, <1>7, <2>1, <2>3, MovedTypes
  <2> QED  BY <2>2, <2>4, <2>5
<1>9. CASE /\ NextQuestion /\ found' = TRUE
           /\ addrs' \in Appended(Extracted(zone[a.server][a.type]), qtype, turn.s)
  <2>1. Moved
    <3>1. \A q \in 1..2, s \in Servers :
            /\ q > turn.q => tries'[q][s] = 0
            /\ q <= turn.q /\ ~found' => tries'[q][s] = Retries + 1
      BY <1>3, <1>9 DEF Tally
    <3> QED  BY <1>2, <1>9, <3>1, QuestionMoves
  <2>2. TurnExact'  BY <1>1, <1>2, <1>3, <2>1, MovedTurnExact
  <2> DEFINE answer == zone[turn.s][a.type]
             numbers == Extracted(answer)
             before == Len(addrs)
  <2>3. a.server = turn.s /\ a.type \in {"A", "AAAA"} /\ (a.type = "AAAA" => turn.q = 2)
    BY <1>6 DEF ResolverTypes, AddrsExact
  <2>4. /\ turn.q \in 1..2 /\ turn'.q \in 1..2 /\ qtype \in {"A", "AAAA"}
        /\ turn.q = 1 <=> qtype = "A"
    BY <2>1 DEF ResolverTypes, Turns, Moved, qtype, QUERY_TYPES
  <2>5. zone \in Zones /\ zone \in Seq([{"A", "AAAA"} -> AnswerRecord])
    BY ResolverAssumption DEF ResolverTypes
  <2>6. turn.s \in Nat /\ turn.s \in DOMAIN zone /\ zone[turn.s] \in [{"A", "AAAA"} -> AnswerRecord]
    BY <1>2, <2>5 DEF ResolverTypes, Turns, Servers
  <2>7. answer \in AnswerRecord /\ DOMAIN answer.types \in SUBSET Nat  BY <2>3, <2>6 DEF AnswerRecord
  <2>8. \A n \in numbers : zone[turn.s][qtype].types[n] = qtype
    <3> SUFFICES ASSUME NEW n \in numbers PROVE zone[turn.s][qtype].types[n] = qtype  OBVIOUS
    <3>1. n \in DOMAIN answer.types /\ answer.types[n] = qtype  BY DEF Extracted
    <3>2. CASE a.type = qtype  BY <3>1, <3>2
    <3>3. CASE a.type # qtype
      <4>1. a.type = "A" /\ qtype = "AAAA"  BY <3>3, <2>3, <2>4
      <4> QED  BY <4>1, <3>1, <2>5, <2>6, ResolverAssumption
    <3> QED  BY <3>2, <3>3
  <2>9. numbers \in SUBSET Nat  BY <2>7 DEF Extracted
  <2>10. addrs' \in Appended(numbers, qtype, turn.s)  BY <1>9, <2>3
  <2> HIDE DEF numbers
  <2>11. addrs \in Seq(AddrEntry)  BY DEF ResolverTypes
  <2>12. AddsEntries(addrs', numbers, qtype, turn.s)  BY <2>4, <2>6, <2>9, <2>10, <2>11, AppendedAdds
  <2>13. ResolverTypes'
    <3>1. addrs' \in Seq(AddrEntry) /\ found' \in BOOLEAN  BY <1>9, <2>12 DEF AddsEntries
    <3> QED  BY <1>1, <1>5, <1>7, <2>1, <3>1, MovedTypes
  <2>14. before \in Nat /\ (turn.q = 1 => before = 0) /\ \A k \in DOMAIN addrs : addrs[k].type = "A"
    BY <1>1, <2>11 DEF AddrsExact, AnswersOfZones
  <2> HIDE DEF before
  <2>15. \A k \in DOMAIN addrs' :
           \/ k <= before /\ k \in DOMAIN addrs /\ addrs'[k] = addrs[k] /\ qtype = "AAAA"
           \/ k > before /\ addrs'[k].type = qtype /\ addrs'[k].server = turn.s /\ addrs'[k].n \in numbers
    BY <2>4, <2>11, <2>12, <2>14 DEF AddsEntries, before
  <2>16. AnswersOfZones'
    <3>1. ASSUME NEW k \in DOMAIN addrs'
          PROVE  /\ addrs'[k].type \in {"A", "AAAA"}
                 /\ zone'[addrs'[k].server][addrs'[k].type].types[addrs'[k].n] = addrs'[k].type
      <4>1. CASE k \in DOMAIN addrs /\ addrs'[k] = addrs[k]
        BY <4>1, <1>1, <2>14 DEF AddrsExact, AnswersOfZones
      <4>2. CASE addrs'[k].type = qtype /\ addrs'[k].server = turn.s /\ addrs'[k].n \in numbers
        BY <4>2, <1>1, <2>4, <2>8
      <4> QED  BY <4>1, <4>2, <2>15
    <3>2. ASSUME NEW j \in DOMAIN addrs', NEW k \in DOMAIN addrs', j < k
          PROVE  \/ /\ addrs'[j].type = addrs'[k].type /\ addrs'[j].server = addrs'[k].server
                    /\ addrs'[j].n < addrs'[k].n
                 \/ addrs'[j].type = "A" /\ addrs'[k].type = "AAAA"
      <4>1. j \in Nat /\ k \in Nat  BY <2>12 DEF AddsEntries
      <4>2. CASE k <= before
        <5>1. j \in DOMAIN addrs /\ k \in DOMAIN addrs /\ addrs'[j] = addrs[j] /\ addrs'[k] = addrs[k]
          BY <4>1, <4>2, <3>2, <2>14, <2>15
        <5> QED  BY <5>1, <3>2 DEF AddrsExact, AnswersOfZones
      <4>3. CASE j <= before /\ k > before
        BY <4>1, <4>3, <2>14, <2>15
      <4>4. CASE j > before
        BY <4>1, <4>4, <3>2, <2>12, <2>14, <2>15 DEF AddsEntries, before
      <4> QED  BY <4>1, <4>2, <4>3, <4>4, <2>14
    <3> QED  BY <1>9, <3>1, <3>2 DEF AnswersOfZones
  <2>17. AddrsExact'
    <3>1. Asking' => turn.q = 1
      BY <1>9, <2>4 DEF NextQuestion, Asking, QUERY_TYPES
    <3>2. turn.q = 1 => turn'.q = 2 /\ \A k \in DOMAIN addrs' : addrs'[k].type = "A"
      BY <1>9, <2>4, <2>15 DEF NextQuestion, QUERY_TYPES
    <3>3. \A b \in flight' : b.type = "AAAA" => turn'.q = 2
      BY <1>7, <2>1, <2>4 DEF Moved, AddrsExact
    <3>4. stage' # "start"  BY <2>1 DEF Moved
    <3> QED  BY <3>1, <3>2, <3>3, <3>4, <2>16 DEF AddrsExact
  <2> QED  BY <2>2, <2>13, <2>17
<1> QED  BY <1>6, <1>8, <1>9

\* Every step of the call keeps the invariant.
LEMMA ResolverInvStep == ResolverInv /\ [ResolverNext]_resolver => ResolverInv'
BY HostsKeepInv, ServersKeepInv, FailureKeepsInv, SendKeepsInv, NothingKeepsInv, AnswerKeepsInv,
   ResolverInvStutter DEF ResolverNext

\* The invariant says what the runs check.
LEMMA ResolverInvExact == ResolverInv => ResolverExact
<1> SUFFICES ASSUME ResolverInv PROVE ResolverExact  OBVIOUS
<1> USE DEF ResolverInv
<1>1. AnswersOfZones  BY DEF AddrsExact
<1>2. tries \in [1..2 -> [Servers -> Nat]] /\ Retries \in Nat  BY ResolverAssumption DEF ResolverTypes
<1>3. AskedInTurn
  <2> SUFFICES ASSUME NEW q \in 1..2, NEW r \in Servers, NEW s \in Servers, NEW t \in Servers
               PROVE  /\ r < s => tries[q][s] <= tries[q][r]
                      /\ r < s /\ t < s /\ tries[q][s] > 0 => tries[q][r] = tries[q][t]
                      /\ hits > 0 => tries[q][s] = 0
    BY DEF AskedInTurn
  <2>1. tries[q][s] \in Nat /\ tries[q][r] \in Nat  BY <1>2
  <2>2. /\ tries[q][s] <= Retries + 1
        /\ r < s /\ tries[q][s] > 0 => tries[q][r] = Retries + 1
        /\ t < s /\ tries[q][s] > 0 => tries[q][t] = Retries + 1
    BY DEF TurnExact, InTurn
  <2>3. hits > 0 => tries[q][s] = 0  BY DEF TurnExact, None
  <2> QED  BY <2>1, <2>2, <2>3, <1>2
<1>4. stage = "done" /\ hits = 0 /\ ~found => \A q \in 1..2 : \A r, s \in Servers : tries[q][r] = tries[q][s]
  BY DEF TurnExact, All
<1>5. (sock # NoSock) <=> (stage = "wait")  BY DEF TurnExact
<1> QED  BY <1>1, <1>3, <1>4, <1>5 DEF ResolverExact

\* What the resolver appends answers the question that was asked, whichever
\* answers come late, repeated or not at all; the servers are asked in turn,
\* and a call gives up on a name none of them knows only when all have been
\* asked equally often; no socket outlives its attempt (dns_resolve_5_zstr,
\* try_one_query).
THEOREM ResolverAnswersExact == ResolverSpec => []ResolverExact
<1>1. ResolverSpec => []ResolverInv
  BY ResolverInvInit, ResolverInvStep, PTL DEF ResolverSpec
<1> QED  BY <1>1, ResolverInvExact, PTL
====
