------------------------------ MODULE Resolver ------------------------------
(***************************************************************************)
(* dns_resolve_5_zstr of Sys/Dns.c, one call: the hosts table first, then  *)
(* A and AAAA questions, each to the nameservers in turn with a number of  *)
(* attempts per server.  An attempt has its own id and its own UDP socket, *)
(* connected to the server.  The network may lose, delay and duplicate     *)
(* answers; a late one reaches a later socket that has the same port, and  *)
(* ids may repeat.                                                         *)
(***************************************************************************)
EXTENDS Integers, Sequences, FiniteSets

CONSTANTS
    Zones,       \* what the nameservers answer: per server and type, a record [rcode, types]
    HostsHits,   \* how many entries of the hosts table have the name
    Retries,     \* `retries`
    QueryIds, Ports

\* retries + 1 does not wrap, a bound socket has a port, and no nameserver puts
\* AAAA records in its answer to an A question.
AnswerRecord == [rcode : STRING, types : Seq(STRING)]
ASSUME ResolverAssumption ==
    /\ Retries \in Nat /\ HostsHits \subseteq Nat /\ Ports \subseteq Nat \ {0}
    /\ Zones \subseteq Seq([{"A", "AAAA"} -> AnswerRecord])
    /\ \A z \in Zones : \A s \in DOMAIN z : \A k \in DOMAIN z[s]["A"].types : z[s]["A"].types[k] # "AAAA"

VARIABLES
    zone, hits,  \* the environment of the call
    stage,       \* "start", "send", "wait" or "done"
    turn,        \* the question, the server and the attempt
    sock,        \* port and id of the open socket, or NoSock
    flight,      \* the answers under way
    found, addrs, \* the result, and what was appended to `out`
    tries        \* ghost: attempts for each question and server
resolver == <<zone, hits, stage, turn, sock, flight, found, addrs, tries>>

QUERY_TYPES == <<"A", "AAAA">>
NoSock == [port |-> 0, id |-> 0]
Servers == DOMAIN zone
qtype == QUERY_TYPES[turn.q]

ResolverInit ==
    /\ zone \in Zones /\ hits \in HostsHits
    /\ stage = "start" /\ turn = [q |-> 1, s |-> 1, attempt |-> 0]
    /\ sock = NoSock /\ flight = {}
    /\ found = FALSE /\ addrs = << >>
    /\ tries = [q \in 1..2 |-> [s \in Servers |-> 0]]

\* The entries with these numbers are appended to `out` in their order; an
\* append that fails is skipped.
Selections(numbers) ==
    {f \in UNION {[1..m -> numbers] : m \in 0..Cardinality(numbers)} :
        \A i, j \in DOMAIN f : i < j => f[i] < f[j]}
Appended(numbers, type, server) ==
    {addrs \o [k \in DOMAIN f |-> [type |-> type, server |-> server, n |-> f[k]]] : f \in Selections(numbers)}

\* The hosts table answers without the network.
FromHosts ==
    /\ stage = "start" /\ hits > 0
    /\ addrs' \in Appended(1..hits, "hosts", 0)
    /\ found' = TRUE /\ stage' = "done"
    /\ UNCHANGED <<zone, hits, turn, sock, flight, tries>>

FromServers ==
    /\ stage = "start" /\ hits = 0
    /\ stage' = IF Servers = {} THEN "done" ELSE "send"
    /\ UNCHANGED <<zone, hits, turn, sock, flight, found, addrs, tries>>

\* The loops around try_one_query: what comes after an attempt.
NextQuestion ==
    IF turn.q < Len(QUERY_TYPES) THEN /\ turn' = [q |-> turn.q + 1, s |-> 1, attempt |-> 0]
                                      /\ stage' = "send"
    ELSE stage' = "done" /\ UNCHANGED turn

\* Mutant: the attempts of the last server are counted on for the next one.
KeptAttempts ==
    CASE turn.attempt < Retries -> turn' = [turn EXCEPT !.attempt = @ + 1] /\ stage' = "send"
      [] turn.attempt = Retries /\ turn.s < Len(zone) -> turn' = [turn EXCEPT !.s = @ + 1] /\ stage' = "send"
      [] OTHER -> NextQuestion

NextAttempt ==
    CASE turn.attempt < Retries -> turn' = [turn EXCEPT !.attempt = @ + 1] /\ stage' = "send"
      [] turn.attempt = Retries /\ turn.s < Len(zone) ->
           turn' = [turn EXCEPT !.s = @ + 1, !.attempt = 0] /\ stage' = "send"
      [] OTHER -> NextQuestion

Tried == tries' = [tries EXCEPT ![turn.q][turn.s] = @ + 1]

\* The query cannot be built, or the socket not opened, set up or written.
AttemptFails ==
    /\ stage = "send" /\ Tried /\ NextAttempt
    /\ UNCHANGED <<zone, hits, sock, flight, found, addrs>>

Send ==
    /\ stage = "send" /\ Tried
    /\ \E p \in Ports, id \in QueryIds :
         /\ sock' = [port |-> p, id |-> id]
         /\ flight' = IF zone[turn.s][qtype].rcode = "silent" THEN flight
                      ELSE flight \cup {[server |-> turn.s, port |-> p, id |-> id, type |-> qtype]}
    /\ stage' = "wait"
    /\ UNCHANGED <<zone, hits, turn, found, addrs>>

\* udp_round_trip ends without an answer, or with one that does not parse.
RecvNothing ==
    /\ stage = "wait" /\ sock' = NoSock /\ NextAttempt
    /\ UNCHANGED <<zone, hits, flight, found, addrs, tries>>

\* The records of the answer that have the type of the question.
Extracted(answer) == {k \in DOMAIN answer.types : answer.types[k] = qtype}

\* An answer to this socket, whatever query it belongs to.
RecvAnswer ==
    /\ stage = "wait" /\ sock' = NoSock
    /\ \E a \in flight :
         LET answer == zone[a.server][a.type]
             entries == IF a.id = sock.id /\ answer.rcode = "NOERROR" THEN Extracted(answer) ELSE {}
         IN  /\ a.server = turn.s /\ a.port = sock.port
             /\ flight' \in {flight, flight \ {a}}
             /\ IF entries = {} THEN NextAttempt /\ UNCHANGED <<found, addrs>>
                ELSE NextQuestion /\ found' = TRUE /\ addrs' \in Appended(entries, qtype, turn.s)
    /\ UNCHANGED <<zone, hits, tries>>

ResolverNext == FromHosts \/ FromServers \/ AttemptFails \/ Send \/ RecvNothing \/ RecvAnswer

ResolverSpec == ResolverInit /\ [][ResolverNext]_resolver

AnswersOfZones ==
    /\ \A k \in DOMAIN addrs :
         LET e == addrs[k]
         IN  \/ e.type = "hosts"
             \/ e.type \in {"A", "AAAA"} /\ zone[e.server][e.type].types[e.n] = e.type
    /\ \A j, k \in DOMAIN addrs :
         j < k => \/ addrs[j].type = addrs[k].type /\ addrs[j].server = addrs[k].server /\ addrs[j].n < addrs[k].n
                  \/ addrs[j].type = "A" /\ addrs[k].type = "AAAA"
    /\ ~found => addrs = << >>

\* A server that is asked after another has been is asked no more often, and
\* all before it were asked equally often; the hosts table spares them all.
AskedInTurn ==
    \A q \in 1..2 : \A r, s, t \in Servers :
      /\ r < s => tries[q][s] <= tries[q][r]
      /\ r < s /\ t < s /\ tries[q][s] > 0 => tries[q][r] = tries[q][t]
      /\ hits > 0 => tries[q][s] = 0

\* How often a server is asked, and what one is worth that answers NOERROR
\* without a record, is left open: Dns.h says `retries` times, and that such an
\* answer wins.
NoNameAnywhere == \A s \in Servers, type \in {"A", "AAAA"} : zone[s][type].rcode # "NOERROR"

\* What is appended answers the question that was asked, the A records of one
\* server and then the AAAA records of one server, each as its zone has them,
\* whichever late answers arrive; the servers are asked in turn, each as often
\* as the others before the call gives up; no socket outlives its attempt
\* (dns_resolve_5_zstr, try_one_query, udp_round_trip).
ResolverExact ==
    /\ AnswersOfZones /\ AskedInTurn
    /\ stage = "done" /\ hits = 0 /\ ~found /\ NoNameAnywhere =>
         \A q \in 1..2 : \A r, s \in Servers : tries[q][r] = tries[q][s]
    /\ (sock # NoSock) <=> (stage = "wait")
=============================================================================
