------------------------------- MODULE Ikev2 -------------------------------
(***************************************************************************)
(* The IKEv2 plugin of two VPP instances that protect one ipip tunnel:     *)
(* "A" whose profile names a responder, and "B" that answers.  Each runs   *)
(* single threaded (no worker), so a packet handler, a pass of the manager *)
(* process and an operator command are atomic and the calls to             *)
(* vl_api_rpc_call_main_thread run in place.                               *)
(*                                                                         *)
(* Cryptography is abstract: the keys of an IKE SA are those of its pair   *)
(* of SPIs, the keys of a child SA are named by the responder's last       *)
(* nonce, and random SPIs and nonces are numbers never drawn twice.  The   *)
(* peers are VPP, so the requests that VPP only answers (a new child SA,   *)
(* a rekey of the IKE SA) do not occur; NAT traversal is left out.         *)
(***************************************************************************)
EXTENDS Integers, Sequences, FiniteSets, SequencesExt

CONSTANTS
    Verdicts,        \* what B's profile may make of A's proposals
    Commands,        \* the operator commands of a run
    Expires,         \* BOOLEAN: A's profile has an SA lifetime
    LivenessRetries, \* km->liveness_max_retries
    RekeyRetries,    \* retries of a rekey before the child SA is dropped (5)
    OldIdTicks,      \* sa->old_id_expiration of a rekeyed child SA (3)
    Patient,         \* no command or retry while the last one is under way
    MaxDraw,         \* bound: random numbers a peer draws, [Peers -> Nat]
    MaxReq,          \* bound: request ids an SA uses, [Peers -> Nat]
    MaxNet,          \* bound: packets on the way to one peer
    MaxFaults        \* bound: packets the network loses, repeats or reorders

Peers == {"A", "B"}
Other(p) == IF p = "A" THEN "B" ELSE "A"
None == <<>>

ASSUME Ikev2Assumption ==
    /\ Verdicts \subseteq {"ok", "init", "auth", "ts", "child"}
    /\ Commands \subseteq {"initiate", "rekey", "del_child", "del_ike_A",
                           "del_ike_B", "cut"}
    /\ Expires \in BOOLEAN
    /\ LivenessRetries \in Nat \ {0} /\ RekeyRetries \in Nat \ {0}
    /\ OldIdTicks \in Nat /\ Patient \in BOOLEAN
    /\ MaxDraw \in [Peers -> Nat] /\ MaxReq \in [Peers -> Nat]
    /\ MaxNet \in Nat /\ MaxFaults \in Nat

VARIABLES
    peer,    \* the plugin's state in each instance
    net,     \* packets on their way to each peer, in order
    verdict, \* how B's profile receives A's proposals
    cut,     \* the link is down for good
    faults   \* packets lost, repeated or reordered so far

vars == <<peer, net, verdict, cut, faults>>

----------------------------------------------------------------------------
(* Data.  The state of an instance is one record:                          *)
(*   sais  km->sais by ispi: the child's inbound SPI, init_response_received*)
(*   sas   the pool of IKE SAs        byr  sa_by_rspi                      *)
(*   sad   the IPsec SAs by id        prot the protection of the tunnel    *)
(*   n     random numbers drawn       out  packets sent by this step       *)
(*   late, crashed  for the properties only: responder SPIs for which an SA *)
(*                  was made of a late SA_INIT response; the process ended  *)

Unset(f, k) == Restrict(f, DOMAIN f \ {k})
Put(f, k, v) == [x \in DOMAIN f \cup {k} |-> IF x = k THEN v ELSE f[x]]
NoProt == [out |-> None, in |-> {}]

Peer0 == [sais |-> <<>>, sas |-> <<>>, byr |-> <<>>, sad |-> <<>>,
          prot |-> NoProt, n |-> 0, out |-> <<>>, late |-> {}, crashed |-> FALSE]

Draw(s) == [s EXCEPT !.n = @ + 1]
Drawn(p, s) == <<p, s.n + 1>>
Send(s, m) == [s EXCEPT !.out = Append(@, m)]
FreeIndex(s) == CHOOSE i \in 0..Cardinality(DOMAIN s.sas) :
                    /\ i \notin DOMAIN s.sas
                    /\ \A j \in 0..(i - 1) : j \in DOMAIN s.sas

Msg(ex, resp, id, sa, body) ==
    [ex |-> ex, resp |-> resp, id |-> id, ispi |-> sa.ispi,
     rspi |-> sa.rspi, body |-> body]
NoMsg == None
Body(k, i, r) == [k |-> k, i |-> i, r |-> r]
Empty == Body("", None, None)
IkeDelete == <<"ike">>

\* A child SA: its two SPIs, the alternate bit of its inbound id (-1 before
\* it is installed), and the state of its rekeying.
Child(i, r) == [i |-> i, r |-> r, alt |-> -1, expired |-> FALSE, retries |-> 0]

\* sa->rekey[0]; the id of the request and the flag "mixed" (an answer to
\* another request was taken) are kept for the properties only.
NoRekey == [spi |-> None, id |-> -1]

Sa0 == [state |-> "SA_INIT", init |-> FALSE, ispi |-> None, rspi |-> None,
        keys |-> FALSE, ids |-> FALSE, childs |-> <<>>,
        nr |-> None, rekey |-> NoRekey, mixed |-> FALSE, del |-> None, last_msg_id |-> 0,
        last_res |-> NoMsg, last_init_msg_id |-> 0, alt |-> 0,
        old |-> FALSE, old_exp |-> 0, liveness |-> 0]

----------------------------------------------------------------------------
(* The IPsec side: SAs by id with a lock count, and the tunnel protection. *)

LocalId(i) == <<"local", i, 0>>
RemoteId(i, alt) == <<"remote", i, alt>>

Lock(s, id) == [s EXCEPT !.sad[id].locks = @ + 1]

UnlockId(s, id) ==
    IF id \notin DOMAIN s.sad THEN s
    ELSE IF s.sad[id].locks = 1 THEN [s EXCEPT !.sad = Unset(@, id)]
    ELSE [s EXCEPT !.sad[id].locks = @ - 1]

AddAndLock(s, id, spi, key) ==
    [s EXCEPT !.sad = Put(@, id, [spi |-> spi, key |-> key, locks |-> 1])]

ProtectIds(prot) == IF prot = NoProt THEN {} ELSE prot.in \cup {prot.out}

ProtectDel(s) ==
    FoldLeft(UnlockId, [s EXCEPT !.prot = NoProt],
             SetToSeq(ProtectIds(s.prot)))

\* ipsec_tun_protect_update: all the SAs are there, so the new protection
\* takes its locks and the old one gives back its own.
ProtectUpdate(s, out, in) ==
    LET locked == FoldLeft(Lock, s, SetToSeq(in \cup {out}))
    IN  [ProtectDel(locked) EXCEPT !.prot = [out |-> out, in |-> in]]

\* ikev2_add_tunnel_from_main.
AddTunnel(s, i, is_rekey) ==
    LET sa == s.sas[i]
        c == sa.childs[1]
        lid == LocalId(i)
        rid == RemoteId(i, c.alt)
        old == RemoteId(i, 1 - c.alt)
        s1 == IF is_rekey THEN UnlockId(ProtectDel(s), lid) ELSE s
        s2 == AddAndLock(s1, lid, IF sa.init THEN c.r ELSE c.i, sa.nr)
        s3 == AddAndLock(s2, rid, IF sa.init THEN c.i ELSE c.r, sa.nr)
    IN  CASE lid \in DOMAIN s1.sad -> s1
          [] lid \notin DOMAIN s1.sad /\ rid \in DOMAIN s1.sad -> s1
          [] OTHER ->
               IF ~is_rekey THEN ProtectUpdate(s3, lid, {rid})
               ELSE IF old \in DOMAIN s3.sad
               THEN ProtectUpdate(s3, lid, {rid, old})
               ELSE UnlockId(s3, lid)    \* the lock taken on rid is not undone

\* ikev2_create_tunnel_interface for the first child of SA i.
CreateTunnel(s, i, is_rekey) ==
    LET sa == s.sas[i]
        alt == IF is_rekey THEN 1 - sa.alt ELSE 0
        sa1 == [sa EXCEPT !.childs[1].alt = alt,
                          !.alt = IF is_rekey THEN alt ELSE @,
                          !.old = @ \/ is_rekey,
                          !.old_exp = IF is_rekey THEN OldIdTicks ELSE @]
    IN  IF sa.childs[1].r = None
        THEN [s EXCEPT !.sas[i].state = "NO_PROPOSAL_CHOSEN"]
        ELSE AddTunnel([s EXCEPT !.sas[i] = sa1], i, is_rekey)

\* ikev2_delete_tunnel_interface and ikev2_del_tunnel_from_main.
DeleteTunnel(s, i, c) ==
    IF c.alt = -1 THEN ProtectDel(s)
    ELSE UnlockId(UnlockId(UnlockId(ProtectDel(s), RemoteId(i, c.alt)),
                           LocalId(i)), RemoteId(i, 1 - c.alt))

DeleteTunnels(s, i) ==
    FoldLeft(LAMBDA t, c : DeleteTunnel(t, i, c), s, s.sas[i].childs)

----------------------------------------------------------------------------
(* SAs come and go. *)

AddSa(s, sa) ==
    [s EXCEPT !.sas = Put(@, FreeIndex(s), sa),
              !.byr = Put(@, sa.rspi, FreeIndex(s))]

\* ikev2_delete_sa: an SA that sa_by_rspi no longer names stays in the pool.
DeleteSa(s, i) ==
    LET rspi == s.sas[i].rspi
    IN  IF rspi \in DOMAIN s.byr
        THEN [s EXCEPT !.byr = Unset(@, rspi), !.sas = Unset(@, i)]
        ELSE [s EXCEPT !.sas[i] = [Sa0 EXCEPT !.state = @, !.rspi = rspi]]

DropSa(s, i) == DeleteSa(DeleteTunnels(s, i), i)

Ascending(S) == SetToSortSeq(S, <)

\* The other SAs of the same pair of identities are deleted.
InitialContactCleanup(s, rspi) ==
    FoldLeft(DropSa, s,
             Ascending({i \in DOMAIN s.sas : s.sas[i].ids
                                             /\ s.sas[i].rspi # rspi}))

\* Fault: the packet is not kept.
GenerateUnstored(s, i, ex, resp, id, body) ==
    Send(s, Msg(ex, resp, id, s.sas[i], body))

\* ikev2_generate_message: what is sent is kept for a retransmission.
Generate(s, i, ex, resp, id, body) ==
    LET m == Msg(ex, resp, id, s.sas[i], body)
    IN  Send([s EXCEPT !.sas[i].last_res = m], m)

\* A request of this side takes the next id.
Request(s, i, ex, body) ==
    Generate([s EXCEPT !.sas[i].last_init_msg_id = @ + 1],
             i, ex, FALSE, s.sas[i].last_init_msg_id, body)

\* An INFORMATIONAL carries the pending delete and clears it; a pending
\* delete of the IKE SA is left out of a response and ends the SA.
Informational(s, i, resp, id) ==
    LET del == s.sas[i].del
        body == Body("", IF resp /\ del = IkeDelete THEN None ELSE del, None)
        t == [s EXCEPT !.sas[i].del = None,
                       !.sas[i].last_init_msg_id = IF resp THEN @ ELSE @ + 1]
        u == Generate(t, i, "INFORMATIONAL", resp, id, body)
    IN  IF del = IkeDelete
        THEN [u EXCEPT !.sas[i].state = "NOTIFY_AND_DELETE"] ELSE u

InformationalRequest(s, i) ==
    Informational(s, i, FALSE, s.sas[i].last_init_msg_id)

SaInitRequest(ispi) ==
    Msg("SA_INIT", FALSE, 0, [ispi |-> ispi, rspi |-> None], Empty)

\* ikev2_initiate_sa_init
InitiateSaInit(s) ==
    LET t == InitialContactCleanup(Draw(s), None)
        ispi == Drawn("A", s)
    IN  Send([t EXCEPT !.sais = Put(@, ispi, FALSE)], SaInitRequest(ispi))

----------------------------------------------------------------------------
(* Packets: ikev2_node_internal.                                           *)

\* Fault: a repeated request counts as a new one.
FreshOrEqual(sa, m) ==
    m.resp \/ m.id >= sa.last_msg_id \/ sa.last_msg_id = -1

Fresh(sa, m) == m.resp \/ m.id > sa.last_msg_id \/ sa.last_msg_id = -1

\* The end of the node: an SA in one of these states is deleted.
Reap(s, i) ==
    IF i \in DOMAIN s.sas /\ s.sas[i].state \in {"DELETED", "NOTIFY_AND_DELETE"}
    THEN DropSa(s, i) ELSE s

SaInitResponse(sa) ==
    Msg("SA_INIT", TRUE, 0, sa, Body("ok", None, None))

\* The responder on an SA_INIT request.
OnSaInitReq(s, m) ==
    LET same == {i \in DOMAIN s.sas : s.sas[i].ispi = m.ispi}
        sa == [Sa0 EXCEPT !.ispi = m.ispi, !.rspi = Drawn("B", s),
                          !.nr = Drawn("B", s)]
    IN  IF \E i \in same : s.sas[i].state = "SA_INIT"
        THEN Send(s, SaInitResponse(s.sas[CHOOSE i \in same : TRUE]))
        ELSE IF same # {} THEN s
        ELSE IF verdict = "init"
        THEN Send(s, [SaInitResponse(sa) EXCEPT !.rspi = None,
                                                !.body.k = "notify"])
        ELSE Send(AddSa(Draw(s), sa), SaInitResponse(sa))

\* Fault: every response for a pending ispi completes an SA.
AnyResponse(s, ispi) == ispi \in DOMAIN s.sais

\* The compare and swap of sai->init_response_received.
FirstResponse(s, ispi) == ispi \in DOMAIN s.sais /\ ~s.sais[ispi]

\* The initiator on an SA_INIT response: the first one for a pending ispi
\* completes the SA; if the ispi is not known any more an SA is made of
\* what the response holds.
OnSaInitResp(s, m) ==
    LET bare == [Sa0 EXCEPT !.ispi = m.ispi, !.rspi = m.rspi]
        sa == [bare EXCEPT !.init = TRUE, !.keys = TRUE, !.ids = TRUE,
                           !.nr = m.rspi, !.childs = <<Child(m.ispi, None)>>,
                           !.last_init_msg_id = 1]
        t == AddSa([s EXCEPT !.sais[m.ispi] = TRUE], sa)
    IN  CASE m.body.k = "notify" -> s
          [] m.body.k = "ok" /\ m.ispi \notin DOMAIN s.sais ->
               AddSa([s EXCEPT !.late = @ \cup {m.rspi}], bare)
          [] m.body.k = "ok" /\ m.ispi \in DOMAIN s.sais ->
               IF FirstResponse(s, m.ispi)
               THEN Request(t, FreeIndex(s), "IKE_AUTH",
                            Body("", m.ispi, None))
               ELSE s

\* The initiator on an IKE_AUTH response.
OnAuthResp(s, i, m) ==
    LET t == [s EXCEPT
                !.sas[i].childs[1].r = m.body.r,
                !.sas[i].state = IF m.body.k = "auth_failed"
                                 THEN "AUTH_FAILED" ELSE "AUTHENTICATED"]
        u == IF m.body.k = "auth_failed" THEN t ELSE CreateTunnel(t, i, FALSE)
    IN  [u EXCEPT !.sas[i].last_msg_id = -1,
                  !.sais = Unset(@, s.sas[i].ispi)]

AuthReply(state) ==
    CASE state = "AUTHENTICATED" -> "ok"
      [] state = "AUTH_FAILED" -> "auth_failed"
      [] state = "TS_UNACCEPTABLE" -> "ts"
      [] state = "NO_PROPOSAL_CHOSEN" -> "child"

\* The responder on an IKE_AUTH request: authentication, cleanup of what the
\* initiator had before, traffic selectors, the tunnel, and the reply.
OnAuthReq(s, i, m) ==
    LET r == IF verdict = "child" THEN None ELSE Drawn("B", s)
        t == [Draw(s) EXCEPT
                !.sas[i] = [@ EXCEPT !.keys = TRUE, !.ids = TRUE,
                                     !.childs = <<Child(m.body.i, r)>>,
                                     !.state = "AUTHENTICATED"]]
        clean == InitialContactCleanup(t, t.sas[i].rspi)
        u == CASE verdict = "auth" ->
                    [t EXCEPT !.sas[i].state = "AUTH_FAILED"]
               [] verdict = "ts" ->
                    [clean EXCEPT !.sas[i].state = "TS_UNACCEPTABLE"]
               [] OTHER -> CreateTunnel(clean, i, FALSE)
        k == AuthReply(u.sas[i].state)
        v == Generate(u, i, "IKE_AUTH", TRUE, m.id,
                      Body(k, None, IF k = "ok" THEN r ELSE None))
    IN  IF verdict = "auth"
        THEN [v EXCEPT !.sas[i].state = "NOTIFY_AND_DELETE"] ELSE v

OnAuth(s, i, m) ==
    IF m.resp
    THEN IF s.sas[i].init THEN OnAuthResp(s, i, m)
         ELSE [s EXCEPT !.sas[i].state = "DELETED"]   \* does not decrypt
    ELSE OnAuthReq(s, i, m)

\* Both sides on an INFORMATIONAL: a child SA is looked up by the SPI of the
\* peer's inbound direction; only the responder clears sa->del.
OnInformational(s, i, m) ==
    LET t == [s EXCEPT !.sas[i].liveness = 0]
        sa == s.sas[i]
        hit == {c \in 1..Len(sa.childs) :
                  m.body.i = IF sa.init THEN sa.childs[c].r ELSE sa.childs[c].i}
        u == IF m.body.i = None THEN t
             ELSE IF m.body.i = IkeDelete \/ (sa.init /\ hit = {})
             THEN [t EXCEPT !.sas[i].del = m.body.i]
             ELSE IF hit = {} THEN [t EXCEPT !.sas[i].del = None]
             ELSE [DeleteTunnel(t, i, sa.childs[1]) EXCEPT
                     !.sas[i].childs = <<>>,
                     !.sas[i].del = IF sa.init THEN m.body.i
                                    ELSE sa.childs[1].r]
    IN  IF ~sa.keys THEN t
        ELSE IF m.resp THEN u ELSE Informational(u, i, TRUE, m.id)

\* The initiator on a CREATE_CHILD_SA response: it is taken for the answer
\* to the last rekey request, whatever its id.
OnChildResp(s, i, m) ==
    LET sa == s.sas[i]
        t == [s EXCEPT !.sas[i].childs = <<Child(sa.rekey.spi, m.body.r)>>,
                       !.sas[i].nr = m.body.r,
                       !.sas[i].mixed = @ \/ m.id # sa.rekey.id]
        u == CreateTunnel(t, i, TRUE)
    IN  IF sa.rekey = NoRekey \/ m.body.k = "temporary_failure" THEN s
        ELSE [u EXCEPT !.sas[i].rekey = NoRekey]

\* The responder on a request to rekey the child SA m.body.r to m.body.i.
OnChildReq(s, i, m) ==
    LET sa == s.sas[i]
        r == Drawn("B", s)
        known == \E c \in 1..Len(sa.childs) : sa.childs[c].i = m.body.r
        t == [Draw(s) EXCEPT !.sas[i].childs = <<Child(m.body.i, r)>>,
                             !.sas[i].nr = r]
        Reply(u, k, spi) == Generate(u, i, "CREATE_CHILD_SA", TRUE, m.id,
                                     Body(k, None, spi))
    IN  IF ~known THEN s
        ELSE IF sa.old THEN Reply(s, "temporary_failure", None)
        ELSE Reply(CreateTunnel(t, i, TRUE), "ok", r)

OnCreateChild(s, i, m) ==
    IF ~s.sas[i].keys THEN s
    ELSE IF m.resp THEN OnChildResp(s, i, m) ELSE OnChildReq(s, i, m)

Exchange(s, i, m) ==
    CASE m.ex = "IKE_AUTH"        -> OnAuth(s, i, m)
      [] m.ex = "INFORMATIONAL"   -> OnInformational(s, i, m)
      [] m.ex = "CREATE_CHILD_SA" -> OnCreateChild(s, i, m)

\* There is no packet to send again: the process ends, and starts afresh.
Crash(s) == [Peer0 EXCEPT !.n = s.n, !.late = s.late, !.crashed = TRUE]

\* ikev2_retransmit_resp: a new request goes to its handler, a repeated one
\* is answered with the last packet generated, an older one is ignored.
RetransmitOr(s, i, m) ==
    LET sa == s.sas[i]
        last_msg_id == IF m.resp THEN sa.last_msg_id ELSE m.id
    IN  IF Fresh(sa, m)
        THEN Exchange([s EXCEPT !.sas[i].last_msg_id = last_msg_id], i, m)
        ELSE IF m.id # sa.last_msg_id THEN s
        ELSE IF sa.last_res = NoMsg THEN Crash(s) ELSE Send(s, sa.last_res)

\* The whole handler of one packet.
Handle(s, m) ==
    IF m.ex = "SA_INIT"
    THEN IF m.resp THEN OnSaInitResp(s, m) ELSE OnSaInitReq(s, m)
    ELSE IF m.rspi \notin DOMAIN s.byr THEN s
    ELSE LET i == s.byr[m.rspi] IN Reap(RetransmitOr(s, i, m), i)

----------------------------------------------------------------------------
(* The manager process: one pass over the SAs, every two seconds.          *)

\* ikev2_rekey_child_sa_internal: a new SPI for A's child SA.
RekeyRequest(s, i) ==
    LET spi == Drawn("A", s)
        rekey == [spi |-> spi, id |-> s.sas[i].last_init_msg_id]
    IN  Request([Draw(s) EXCEPT !.sas[i].rekey = rekey], i, "CREATE_CHILD_SA",
                Body("", spi, s.sas[i].childs[1].i))

\* ikev2_delete_child_sa_internal
DeleteChildRequest(s, i) ==
    LET c == s.sas[i].childs[1]
        t == InformationalRequest([s EXCEPT !.sas[i].del = c.i], i)
    IN  [DeleteTunnel(t, i, c) EXCEPT !.sas[i].childs = <<>>]

\* An expired child SA is rekeyed; after the last retry it is deleted.
ExpireChild(s, i) ==
    LET c == s.sas[i].childs[1]
        retries == CASE c.retries = 0 -> RekeyRetries
                     [] c.retries = 1 -> -1
                     [] OTHER -> c.retries - 1
    IN  IF ~c.expired \/ c.retries > 0
        THEN [RekeyRequest(s, i) EXCEPT
                !.sas[i].childs[1].expired = TRUE,
                !.sas[i].childs[1].retries = retries]
        ELSE DeleteChildRequest(s, i)

\* Fault: the old inbound SA keeps its lock.
DelOldIdsLocked(s, i) ==
    ProtectUpdate(s, LocalId(i), {RemoteId(i, s.sas[i].childs[1].alt)})

\* The protection lets go of the old inbound SA, whose lock is given back.
DelOldIds(s, i) ==
    LET c == s.sas[i].childs[1]
        lid == LocalId(i)
        rid == RemoteId(i, c.alt)
        t == IF {lid, rid} \subseteq DOMAIN s.sad
             THEN ProtectUpdate(s, lid, {rid}) ELSE s
    IN  UnlockId(t, RemoteId(i, 1 - c.alt))

ManagerChild(s, i, exp, del_old) ==
    LET t == IF i \in exp THEN ExpireChild(s, i) ELSE s
    IN  IF s.sas[i].childs = <<>> THEN s
        ELSE IF del_old /\ t.sas[i].childs # <<>> THEN DelOldIds(t, i) ELSE t

\* ikev2_mngr_process_responder_sas: dead peer detection.
DeadPeer(s, i) == s.sas[i].keys /\ s.sas[i].liveness >= LivenessRetries

ManagerLiveness(s, i, due) ==
    IF s.sas[i].keys /\ ~DeadPeer(s, i) /\ i \in due
    THEN InformationalRequest([s EXCEPT !.sas[i].liveness = @ + 1], i) ELSE s

\* old_id_expiration is compared with 0 only: it is not counted below -1.
ManagerSa(s, i, exp, due) ==
    LET sa == s.sas[i]
        del_old == sa.old /\ sa.old_exp < 0
        t == IF del_old THEN [s EXCEPT !.sas[i].old = FALSE]
             ELSE IF sa.old THEN [s EXCEPT !.sas[i].old_exp = @ - 1] ELSE s
    IN  ManagerLiveness(ManagerChild(t, i, exp, del_old), i, due)

Visited(s) ==
    {i \in DOMAIN s.sas : s.sas[i].state \in {"SA_INIT", "AUTHENTICATED"}}

ToBeDeleted(s) ==
    {i \in Visited(s) : \/ /\ s.sas[i].state = "SA_INIT"
                           /\ s.sas[i].childs # <<>>
                        \/ DeadPeer(s, i)}

\* Fault: the SA goes and leaves its tunnel behind.
ManagerDeleteSaOnly(s, i) ==
    LET t == [s EXCEPT !.byr = Unset(@, s.sas[i].rspi), !.sas = Unset(@, i)]
    IN  IF i \notin DOMAIN s.sas THEN s
        ELSE IF s.sas[i].init THEN InitiateSaInit(t) ELSE t

\* The SA goes, and the initiator starts again.
ManagerDelete(s, i) ==
    LET t == [DeleteTunnels(s, i) EXCEPT !.byr = Unset(@, s.sas[i].rspi),
                                         !.sas = Unset(@, i)]
    IN  IF i \notin DOMAIN s.sas THEN s
        ELSE IF s.sas[i].init THEN InitiateSaInit(t) ELSE t

ProcessPendingSaInit(s) ==
    FoldLeft(LAMBDA t, ispi : Send(t, SaInitRequest(ispi)), s,
             SetToSeq({x \in DOMAIN s.sais : ~s.sais[x]}))

ManagerPass(s, exp, due) ==
    LET t == FoldLeft(LAMBDA u, i : ManagerSa(u, i, exp, due), s,
                      Ascending(Visited(s)))
    IN  ProcessPendingSaInit(FoldLeft(ManagerDelete, t,
                                      Ascending(ToBeDeleted(s))))

----------------------------------------------------------------------------
(* The behaviours.                                                         *)

Underway(exchanges) ==
    \E p \in Peers : \E k \in 1..Len(net[p]) : net[p][k].ex \in exchanges

Init ==
    /\ peer = [p \in Peers |-> Peer0]
    /\ net = [p \in Peers |-> <<>>]
    /\ verdict \in Verdicts
    /\ cut = FALSE /\ faults = 0

Bounded(p, s) ==
    \/ cut
    \/ /\ s.n <= MaxDraw[p]
       /\ \A i \in DOMAIN s.sas : s.sas[i].last_init_msg_id <= MaxReq[p]
       /\ Len(net[Other(p)]) + Len(s.out) <= MaxNet

\* Instance p goes to s, having taken what is not in `rest' off the wire.
Step(p, s, rest) ==
    /\ Bounded(p, s)
    /\ peer' = [peer EXCEPT ![p] = [s EXCEPT !.out = <<>>]]
    /\ net' = [net EXCEPT ![p] = rest,
                          ![Other(p)] = IF cut THEN @ ELSE @ \o s.out]
    /\ UNCHANGED <<verdict, cut>>

\* The network does something it should not.
Fault == faults < MaxFaults /\ faults' = faults + 1

\* A packet arrives, the oldest or one that overtakes it.
Receive(p) ==
    \E k \in 1..Len(net[p]) :
        /\ \/ k = 1 /\ UNCHANGED faults
           \/ k > 1 /\ Fault
        /\ Step(p, Handle(peer[p], net[p][k]), RemoveAt(net[p], k))

\* The child SAs whose lifetime may be over in this pass.
MayExpire(p) ==
    {i \in Visited(peer[p]) :
        LET sa == peer[p].sas[i]
        IN  /\ Expires /\ sa.init /\ sa.childs # <<>>
            /\ sa.state = "AUTHENTICATED"
            /\ Patient => ~sa.old /\ ~Underway({"IKE_AUTH", "CREATE_CHILD_SA"})}

Manager(p, exp, due) ==
    /\ Step(p, ManagerPass(peer[p], exp, due), net[p])
    /\ UNCHANGED faults

\* Timers abstract the clock: any child SA may expire in a pass, any peer
\* may be due for a keepalive.
Tick(p) ==
    \E exp \in SUBSET MayExpire(p), due \in SUBSET Visited(peer[p]) :
        Manager(p, exp, due)

DueTick(p) == Manager(p, {}, Visited(peer[p]))

----------------------------------------------------------------------------
(* Operator commands. *)

Live(p) == {i \in DOMAIN peer[p].sas : /\ peer[p].sas[i].state = "AUTHENTICATED"
                                       /\ peer[p].sas[i].keys}
Owners(p) == {i \in Live(p) : peer[p].sas[i].childs # <<>>}

Command(c, p, s) ==
    c \in Commands /\ ~cut /\ Step(p, s, net[p]) /\ UNCHANGED faults

Initiate ==
    /\ Patient => \A x \in DOMAIN peer["A"].sais : peer["A"].sais[x]
    /\ Command("initiate", "A", InitiateSaInit(peer["A"]))

Rekey ==
    \E i \in Owners("A") :
        /\ Patient => /\ ~peer["A"].sas[i].old
                      /\ ~Underway({"IKE_AUTH", "CREATE_CHILD_SA"})
        /\ Command("rekey", "A", RekeyRequest(peer["A"], i))

DeleteChild ==
    \E i \in Owners("A") :
        /\ Patient => ~Underway({"IKE_AUTH", "CREATE_CHILD_SA"})
        /\ Command("del_child", "A", DeleteChildRequest(peer["A"], i))

\* ikev2_initiate_delete_ike_sa
DeleteIke(p) ==
    \E i \in Live(p) :
        LET t == [peer[p] EXCEPT !.sas[i].del = IkeDelete]
        IN  Command(IF p = "A" THEN "del_ike_A" ELSE "del_ike_B", p,
                    DropSa(InformationalRequest(t, i), i))

----------------------------------------------------------------------------
(* The network. *)

\* Only the oldest packet is lost or repeated: a later one will be the
\* oldest when those before it have arrived.
Lose(p) ==
    /\ net[p] # <<>> /\ Fault
    /\ net' = [net EXCEPT ![p] = Tail(@)]
    /\ UNCHANGED <<peer, verdict, cut>>

Duplicate(p) ==
    /\ net[p] # <<>> /\ Len(net[p]) < MaxNet /\ Fault
    /\ net' = [net EXCEPT ![p] = <<Head(@)>> \o @]
    /\ UNCHANGED <<peer, verdict, cut>>

\* The link goes down for good.
Cut ==
    /\ "cut" \in Commands /\ ~cut
    /\ cut' = TRUE
    /\ net' = [p \in Peers |-> <<>>]
    /\ UNCHANGED <<peer, verdict, faults>>

Next ==
    \/ \E p \in Peers : Receive(p) \/ Tick(p) \/ DeleteIke(p)
    \/ Initiate \/ Rekey \/ DeleteChild
    \/ \E p \in Peers : Lose(p) \/ Duplicate(p)
    \/ Cut

\* When a pass with every timer due would change something: ENABLED of
\* <<DueTick(p)>>_vars, spelt out because TLC is slow at evaluating it.
DueTickEnabled(p) ==
    LET s == ManagerPass(peer[p], {}, Visited(peer[p]))
    IN  /\ Bounded(p, s)
        /\ \/ [s EXCEPT !.out = <<>>] # peer[p]
           \/ ~cut /\ s.out # <<>>

\* The manager process of each instance keeps running and its timers fire,
\* which matters once the link is down: weak fairness of cut /\ DueTick(p).
Fairness ==
    \A p \in Peers : \/ []<><<cut /\ DueTick(p)>>_vars
                     \/ []<>(~(cut /\ DueTickEnabled(p)))

Spec == Init /\ [][Next]_vars /\ Fairness

----------------------------------------------------------------------------
(* Properties.                                                             *)

States == {"SA_INIT", "AUTHENTICATED", "AUTH_FAILED", "TS_UNACCEPTABLE",
           "NO_PROPOSAL_CHOSEN"}

\* TypeOK: the pool, the indices and the SA database have their shapes, an
\* SA has at most one child SA, and a packet to be sent again was stored, but
\* for an SA made of a late SA_INIT response.
TypeOK ==
    /\ \A p \in Peers :
         /\ \A i \in DOMAIN peer[p].sas :
              LET sa == peer[p].sas[i]
              IN  /\ sa.state \in States /\ Len(sa.childs) <= 1
                  /\ sa.last_msg_id \in Nat \cup {-1}
                  /\ sa.old_exp \in Int /\ sa.old_exp >= -1
                  /\ sa.liveness \in 0..LivenessRetries
         /\ \A r \in DOMAIN peer[p].byr : peer[p].byr[r] \in DOMAIN peer[p].sas
         /\ \A id \in DOMAIN peer[p].sad : peer[p].sad[id].locks \in 1..3
         /\ peer[p].crashed => peer[p].late # {}
    /\ cut \in BOOLEAN /\ faults \in 0..MaxFaults

\* SaIndexed: sa_by_rspi names, for a responder SPI, an SA with that SPI, and
\* it names every SA of the pool: a second SA for the same SPI would take the
\* packets of the first one.  That happens only for an SPI whose SA_INIT
\* response arrived once more after the pending SA was gone.
SaIndexed ==
    \A p \in Peers :
        LET s == peer[p]
        IN  /\ \A r \in DOMAIN s.byr : s.sas[s.byr[r]].rspi = r
            /\ \A i \in DOMAIN s.sas :
                 LET r == s.sas[i].rspi
                 IN  r \in s.late \/ (r \in DOMAIN s.byr /\ s.byr[r] = i)

\* The IPsec SAs that child SA c of IKE SA i accounts for.
Installed(i, sa) ==
    LET c == sa.childs[1]
        in == {RemoteId(i, c.alt)}
              \cup (IF sa.old THEN {RemoteId(i, 1 - c.alt)} ELSE {})
    IN  [out |-> LocalId(i), in |-> in]

\* TunnelExact: the tunnel is protected by exactly the SAs of its owner,
\* with the negotiated SPIs and keys; after a rekey the old inbound SA stays
\* as long as the IKE SA says so, and nothing is left behind in the SA
\* database when an IKE SA or a child SA goes.
TunnelExact ==
    \A p \in Peers :
        LET s == peer[p]
        IN  /\ Owners(p) = {} => s.prot = NoProt /\ DOMAIN s.sad = {}
            /\ \A i \in Owners(p) :
                 LET sa == s.sas[i]
                     c == sa.childs[1]
                     out == s.sad[LocalId(i)]
                     in == s.sad[RemoteId(i, c.alt)]
                 IN  /\ s.prot = Installed(i, sa)
                     /\ DOMAIN s.sad = ProtectIds(s.prot)
                     /\ \A id \in DOMAIN s.sad : s.sad[id].locks = 2
                     /\ out.spi = (IF sa.init THEN c.r ELSE c.i)
                     /\ in.spi = (IF sa.init THEN c.i ELSE c.r)
                     /\ out.key = sa.nr /\ in.key = sa.nr

\* AnswerMatches: a rekey answer is taken for the request it answers (the
\* window of outstanding requests is one).
AnswerMatches ==
    \A i \in DOMAIN peer["A"].sas : ~peer["A"].sas[i].mixed

\* Agreement: when both ends of an IKE SA have a child SA and the initiator
\* waits for no rekey answer, the two hold the same SPIs and keys (unless an
\* answer was taken for another request's: AnswerMatches).
Agreement ==
    \A i \in Owners("A"), j \in Owners("B") :
        LET a == peer["A"].sas[i]
            b == peer["B"].sas[j]
        IN  a.rspi = b.rspi /\ a.rekey = NoRekey /\ ~a.mixed =>
              /\ a.childs[1].i = b.childs[1].i
              /\ a.childs[1].r = b.childs[1].r
              /\ a.nr = b.nr

\* DeadPeerGone: when the peer is gone for good, dead peer detection removes
\* the IKE SA and its tunnel on either side.
DeadPeerGone ==
    \A p \in Peers : cut ~> (Live(p) = {} /\ peer[p].prot = NoProt)
=============================================================================
