---------------------------- MODULE SourceConfigs ----------------------------
(***************************************************************************)
(* The sources table of one chain: the rows that the admin API and the seed *)
(* command write and that the gateway turns into adapters on every run.     *)
(*                                                                         *)
(* The id of a row is derived from its type and chain, so over one chain    *)
(* the type is the key and UNIQUE(type, chain_id) can not be violated: a    *)
(* second create is an upsert of the first row.  An update loads the row,   *)
(* merges the request into the copy and upserts the whole copy.             *)
(***************************************************************************)
EXTENDS Naturals, FiniteSets, Sequences

CONSTANTS
    Types,        \* the adapter types rows are created for, "rpc" among them
    KnownTypes,   \* the types the gateway's registry has a factory for
    SeedOrder,    \* the types csw migrate seed inserts, in that order
    Endpoints,    \* the upstream endpoints rows may name
    NoEndpoint,   \* the empty string
    DefaultEndpoint, \* DefaultEndpoint[t]: what seed writes, and an explorer falls back to
    Admins,       \* concurrent PUT /sources/{id} requests
    Keep,         \* an optional field missing from a request
    MaxEvents      \* bound on admin writes, changes upstream and sweeps, together

Null == "null"
NoRow == [endpoint |-> Null, ct |-> 0, nonce |-> 0, enabled |-> FALSE]
Body(endpoint, enabled, secret) == [endpoint |-> endpoint, enabled |-> enabled, secret |-> secret]
Idle == [id |-> Null, row |-> NoRow, body |-> Body(Keep, Keep, "keep")]

ASSUME SourceConfigsAssumption ==
    /\ KnownTypes \subseteq Types /\ SeedOrder \in Seq(KnownTypes) /\ "rpc" \in KnownTypes
    /\ NoEndpoint \notin Endpoints /\ DefaultEndpoint \in [Types -> Endpoints]
    /\ MaxEvents \in Nat

VARIABLES
    rows,      \* rows[t]: the row of type t, or NoRow
    puts,      \* puts[a]: the update in flight
    events,     \* events so far, of those MaxEvents bounds
    nonces,    \* nonces drawn so far; a nonce is its number
    seeding    \* the seed command: whether it has begun, the types it has yet to insert

configVars == <<rows, puts, events, nonces, seeding>>

Present(t) == rows[t] # NoRow

(***************************************************************************)
(* A secret is encrypted with a fresh nonce: the ciphertext and the nonce   *)
(* of one encryption carry the same number, and only such a pair decrypts.  *)
(* 0 is NULL.                                                              *)
(***************************************************************************)
\* Creates with and without a secret, enabled by default or not.
Creates(t) == {Body(DefaultEndpoint[t], Keep, "keep"), Body(DefaultEndpoint[t], FALSE, "set")}

\* Updates of one field; the endpoint may be set to the empty string.
Updates(row) ==
    {Body(e, Keep, "keep") : e \in (Endpoints \cup {NoEndpoint}) \ {row.endpoint}}
    \cup {Body(Keep, ~row.enabled, "keep")}
    \cup {Body(Keep, Keep, s) : s \in IF row.ct = 0 THEN {"set"} ELSE {"set", "clear"}}

\* Mutant of ApplyUpdate: a new secret keeps the stored nonce.
ApplyUpdateOldNonce(row, body, n) ==
    [endpoint |-> IF body.endpoint = Keep THEN row.endpoint ELSE body.endpoint,
     enabled |-> IF body.enabled = Keep THEN row.enabled ELSE body.enabled,
     ct |-> CASE body.secret = "clear" -> 0 [] body.secret = "set" -> n [] OTHER -> row.ct,
     nonce |-> CASE body.secret = "clear" -> 0
                 [] body.secret = "set" /\ row.nonce = 0 -> n
                 [] OTHER -> row.nonce]

\* applyUpdate; n is the nonce drawn when a secret is set.
ApplyUpdate(row, body, n) ==
    [endpoint |-> IF body.endpoint = Keep THEN row.endpoint ELSE body.endpoint,
     enabled |-> IF body.enabled = Keep THEN row.enabled ELSE body.enabled,
     ct |-> CASE body.secret = "clear" -> 0 [] body.secret = "set" -> n [] OTHER -> row.ct,
     nonce |-> CASE body.secret = "clear" -> 0 [] body.secret = "set" -> n [] OTHER -> row.nonce]

ConfigInit ==
    /\ rows = [t \in Types |-> NoRow]
    /\ puts = [a \in Admins |-> Idle]
    /\ events = 0 /\ nonces = 0 /\ seeding = [begun |-> FALSE, todo |-> <<>>]
-----------------------------------------------------------------------------
(* The gateway.                                                            *)

HasSecret(row) == row.ct # 0 /\ row.nonce # 0
Decrypts(row) == row.ct = row.nonce

\* build and Registry.Build: decryption, a known type, and a factory that does
\* not refuse; rpc needs an endpoint.
Builds(t) ==
    /\ HasSecret(rows[t]) => Decrypts(rows[t])
    /\ t \in KnownTypes
    /\ t = "rpc" => rows[t].endpoint # NoEndpoint

\* The endpoint the adapter talks to.
Upstream(t) == IF rows[t].endpoint = NoEndpoint THEN DefaultEndpoint[t] ELSE rows[t].endpoint

\* ListByChain with enabledOnly.
Enabled == {t \in Types : Present(t) /\ rows[t].enabled}

\* ForChain answers when every enabled row builds; RPCChainHead needs the
\* enabled rpc row.
ForChainOK == \A t \in Enabled : Builds(t)
ChainHeadOK == "rpc" \in Enabled /\ rows["rpc"].endpoint # NoEndpoint
-----------------------------------------------------------------------------
(* The admin API.                                                          *)

Event == events < MaxEvents /\ events' = events + 1

\* The nonce an encryption draws.
Draw(secret) == nonces' = IF secret = "set" THEN nonces + 1 ELSE nonces

\* POST /sources: any type is accepted and an existing row is overwritten.
Create(t, body) ==
    /\ Event /\ Draw(body.secret)
    /\ rows' = [rows EXCEPT ![t] = ApplyUpdate([NoRow EXCEPT !.enabled = TRUE], body, nonces + 1)]
    /\ UNCHANGED <<puts, seeding>>

\* PUT /sources/{id}: FindByID ...
PutLoad(a, t, body) ==
    /\ Event
    /\ puts[a] = Idle /\ Present(t)
    /\ puts' = [puts EXCEPT ![a] = [id |-> t, row |-> rows[t], body |-> body]]
    /\ UNCHANGED <<rows, nonces, seeding>>

\* ... applyUpdate and Save, which may fail.
PutSave(a) ==
    /\ puts[a] # Idle
    /\ Draw(puts[a].body.secret)
    /\ \/ rows' = [rows EXCEPT ![puts[a].id] = ApplyUpdate(puts[a].row, puts[a].body, nonces + 1)]
       \/ UNCHANGED rows
    /\ puts' = [puts EXCEPT ![a] = Idle]
    /\ UNCHANGED <<events, seeding>>

\* DELETE /sources/{id}.
Delete(t) ==
    /\ Event /\ Present(t)
    /\ rows' = [rows EXCEPT ![t] = NoRow]
    /\ UNCHANGED <<puts, nonces, seeding>>

\* csw migrate seed: it refuses a table with rows ...
SeedCheck ==
    /\ ~seeding.begun
    /\ seeding' = [begun |-> TRUE, todo |-> IF \E t \in Types : Present(t) THEN <<>> ELSE SeedOrder]
    /\ UNCHANGED <<rows, puts, events, nonces>>

\* ... and upserts one row after the other, or stops at one that fails.
SeedRow ==
    /\ seeding.todo # <<>>
    /\ LET t == Head(seeding.todo)
       IN  \/ /\ rows' = [rows EXCEPT ![t] = [endpoint |-> DefaultEndpoint[t], ct |-> 0, nonce |-> 0,
                                              enabled |-> TRUE]]
              /\ seeding' = [seeding EXCEPT !.todo = Tail(@)]
           \/ UNCHANGED rows /\ seeding' = [seeding EXCEPT !.todo = <<>>]
    /\ UNCHANGED <<puts, events, nonces>>

ConfigNext ==
    \/ \E t \in Types : \E body \in Creates(t) : Create(t, body)
    \/ \E a \in Admins, t \in Types : \E body \in Updates(rows[t]) : PutLoad(a, t, body)
    \/ \E a \in Admins : PutSave(a)
    \/ \E t \in Types : Delete(t)
    \/ SeedCheck \/ SeedRow
=============================================================================
