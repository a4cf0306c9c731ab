------------------------------- MODULE OlmKeys -------------------------------
(***************************************************************************)
(* Olm key material of one browser profile: the key server                 *)
(* (app/api/dm/olm/keys: device, claim, devices; lib/olm-key-validation)   *)
(* and the account in IndexedDB (lib/olm-protocol-store, lib/olm-protocol) *)
(* as the tabs of that browser use it (dm-channel-area: ensureOlmReady,    *)
(* maybeTopUpOlmKeys, encryptOlmText, the decrypt effect).                 *)
(*                                                                         *)
(* A route's transaction is one step.  In the browser every access to      *)
(* IndexedDB is awaited: the wrap key is looked up, stored if there is     *)
(* none, and then the account is loaded and saved under it.  The           *)
(* single-flight promises of the store are per tab and cover the first and *)
(* the creation only: tabs overlap everywhere, the other operations of one *)
(* tab too.                                                                *)
(***************************************************************************)
EXTENDS Naturals, FiniteSets

CONSTANTS
  Tabs,       \* tabs of the browser, or operations at work in one of them
  Batch,      \* keys of a batch (20 in the code)
  Watermark,  \* OLM_ONE_TIME_KEY_LOW_WATERMARK
  MaxStored,  \* MAX_STORED_ONE_TIME_KEYS
  MaxKeys,    \* bound: key pairs generated
  MaxIdents,  \* bound: accounts created
  MaxWraps    \* bound: wrap keys generated

VARIABLES
  acct,    \* ACCOUNT_STORE: identity, next key id, private keys
  dev,     \* DEVICE_ID_STORAGE_KEY: number of the device id
  tab,     \* what each tab is in the middle of
  served,  \* olm_device_identities: the identity of each device id
  stock,   \* olm_one_time_keys of each device id
  wire,    \* keys claimed by a peer whose first message is on its way
  mint,    \* key pairs generated so far
  idents,  \* accounts created so far
  wrap,    \* WRAP_KEY_STORE: number of the wrap key, 0 without
  wraps,   \* wrap keys generated so far
  seal,    \* the wrap key that the account is stored under
  held,    \* the wrap key that each tab works with
  \* history
  handed,  \* the keys given out, as often as they were
  clash,   \* device ids for which two tabs created an account or a wrap key,
           \* or whose account was wiped while a tab was at it
  lost     \* private keys dropped by a save over somebody else's

wrapVars == <<wrap, wraps, seal, held>>
keyVars == <<acct, dev, tab, served, stock, wire, mint, idents, handed, clash, lost,
             wrapVars>>

Devices == 1 .. MaxIdents
NoAcct == [id |-> 0, next |-> 1, priv |-> {}]
\* A public key is its id on the account, its pair and who signed it.
Idle == [pc |-> "idle", got |-> NoAcct, dev |-> 0, keys |-> {}]

Init ==
  /\ acct = NoAcct
  /\ dev = 1
  /\ tab = [t \in Tabs |-> Idle]
  /\ served = [d \in Devices |-> 0]
  /\ stock = [d \in Devices |-> {}]
  /\ wire = {}
  /\ mint = 0
  /\ idents = 0
  /\ handed = {}
  /\ clash = {}
  /\ lost = {}
  /\ wrap = 0 /\ wraps = 0 /\ seal = 0
  /\ held = [t \in Tabs |-> 0]

\* generateOneTimeKeysOnAccount: the ids go on from the account's counter.
Fresh(a) == {[id |-> a.next + i, pair |-> mint + i + 1, by |-> a.id] : i \in 0 .. Batch - 1}
Extended(a) ==
  [a EXCEPT !.next = @ + Batch, !.priv = @ \cup {mint + i + 1 : i \in 0 .. Batch - 1}]

\* The rows of an insert that conflicts on (user, device, key id) are
\* skipped; the oldest unclaimed rows beyond MaxStored go.
Entry(k) == [key |-> k, used |-> FALSE]
Open(rows) == {r \in rows : ~r.used}
Stocked(rows, keys) ==
  LET all == rows \cup {Entry(k) : k \in {k \in keys : \A r \in rows : r.key.id # k.id}}
      over == {r \in Open(all) :
                 Cardinality({s \in Open(all) : s.key.pair > r.key.pair}) >= MaxStored}
  IN  all \ over

\* loadAccount answers with the account: under another wrap key it throws.
Readable(t) == acct.id # 0 /\ seal = held[t]

\* saveAccount: the last save wins.  The keys in done are dropped on purpose.
\* id is the account that was there when the tab looked.
Save(t, a, done, id) ==
  /\ acct' = a
  /\ seal' = held[t]
  /\ lost' = lost \cup (IF acct.id = a.id THEN (acct.priv \ a.priv) \ done ELSE {})
  /\ clash' = IF acct.id # id \/ tab[t].dev # dev
              THEN clash \cup {tab[t].dev, dev} ELSE clash

Done(t) == tab' = [tab EXCEPT ![t] = Idle] /\ held' = [held EXCEPT ![t] = 0]

-----------------------------------------------------------------------------
(* The browser.                                                            *)

\* The operations on the account: ensureOlmIdentityInner, topUpOneTimeKeys
\* once the count is low, decryptFrom.
Jobs == {"ensure", "refill", "open"}

\* getOrCreateWrapKey looks, for a tab that may have read its device id before
\* (decryptFrom needs none).
GetKey(t, job, d) ==
  /\ tab[t] = Idle
  /\ d <= dev /\ (job = "open" => d = dev)
  /\ job = "refill" => Cardinality(Open(stock[d])) < Watermark
  /\ tab' = [tab EXCEPT ![t] = [Idle EXCEPT !.pc = job, !.dev = d]]
  /\ held' = [held EXCEPT ![t] = wrap]
  /\ UNCHANGED <<acct, dev, served, stock, wire, mint, idents, handed, clash, lost,
                 wrap, wraps, seal>>

\* It has found none, and stores one of its own.
PutKey(t) ==
  /\ tab[t].pc \in Jobs /\ held[t] = 0
  /\ wraps < MaxWraps
  /\ wraps' = wraps + 1
  /\ wrap' = wraps'
  /\ held' = [held EXCEPT ![t] = wraps']
  /\ clash' = IF wrap # 0 THEN clash \cup {tab[t].dev, dev} ELSE clash
  /\ UNCHANGED <<acct, dev, tab, served, stock, wire, mint, idents, handed, lost, seal>>

\* Nothing (more) to do, or something of it failed: a read, a write, an
\* account that cannot be opened, a request.  Nothing is tried again.
Stop(t) ==
  /\ tab[t].pc # "idle"
  /\ Done(t)
  /\ UNCHANGED <<acct, dev, served, stock, wire, mint, idents, handed, clash, lost,
                 wrap, wraps, seal>>

\* ensureOlmIdentityInner has found no account, and creates one.
Create(t) ==
  /\ tab[t].pc = "ensure" /\ held[t] # 0
  /\ acct.id = 0
  /\ idents < MaxIdents /\ mint + Batch <= MaxKeys
  /\ LET a == [NoAcct EXCEPT !.id = idents + 1]
     IN  tab' = [tab EXCEPT ![t] =
           [pc |-> "created", got |-> Extended(a), dev |-> tab[t].dev, keys |-> Fresh(a)]]
  /\ idents' = idents + 1
  /\ mint' = mint + Batch
  /\ UNCHANGED <<acct, dev, served, stock, wire, handed, clash, lost, wrapVars>>

SaveCreated(t) ==
  /\ tab[t].pc = "created"
  /\ Save(t, tab[t].got, {}, 0)
  /\ tab' = [tab EXCEPT ![t].pc = "register"]
  /\ UNCHANGED <<dev, served, stock, wire, mint, idents, handed, wrap, wraps, held>>

\* POST device with the bundle, once: refused for a device that has another
\* identity.  The next ensureOlmIdentity finds an account and publishes
\* nothing.
Register(t) ==
  LET d == tab[t].dev
  IN  /\ tab[t].pc = "register"
      /\ served[d] \in {0, tab[t].got.id}
      /\ served' = [served EXCEPT ![d] = tab[t].got.id]
      /\ stock' = [stock EXCEPT ![d] = Stocked(@, tab[t].keys)]
      /\ Done(t)
      /\ UNCHANGED <<acct, dev, wire, mint, idents, handed, clash, lost, wrap, wraps,
                     seal>>

\* topUpOneTimeKeys: the account is loaded ...
TopUp(t) ==
  /\ tab[t].pc = "refill" /\ held[t] # 0
  /\ Readable(t)
  /\ mint + Batch <= MaxKeys
  /\ tab' = [tab EXCEPT ![t] = [pc |-> "topping", got |-> Extended(acct),
                                dev |-> tab[t].dev, keys |-> Fresh(acct)]]
  /\ mint' = mint + Batch
  /\ UNCHANGED <<acct, dev, served, stock, wire, idents, handed, clash, lost, wrapVars>>

\* ... and saved with the new keys ...
SaveTopUp(t) ==
  /\ tab[t].pc = "topping"
  /\ Save(t, tab[t].got, {}, tab[t].got.id)
  /\ tab' = [tab EXCEPT ![t].pc = "upload"]
  /\ UNCHANGED <<dev, served, stock, wire, mint, idents, handed, wrap, wraps, held>>

\* ... and these uploaded: refused for a device that is not registered, or
\* with another identity than the one that signed them.
Upload(t) ==
  LET d == tab[t].dev
  IN  /\ tab[t].pc = "upload"
      /\ served[d] # 0 /\ served[d] = tab[t].got.id
      /\ stock' = [stock EXCEPT ![d] = Stocked(@, tab[t].keys)]
      /\ Done(t)
      /\ UNCHANGED <<acct, dev, served, wire, mint, idents, handed, clash, lost, wrap,
                     wraps, seal>>

Answers(a, k) == a.id = k.by /\ k.pair \in a.priv

\* decryptFrom: the account is loaded.  A message that starts a session is
\* opened with its key if the account has it; no message of a session that is
\* there needs one ...
Inbound(t, ks) ==
  /\ tab[t].pc = "open" /\ held[t] # 0
  /\ Readable(t)
  /\ \A k \in ks : Answers(acct, k)
  /\ tab' = [tab EXCEPT ![t] =
       [pc |-> "inbound", got |-> acct, dev |-> tab[t].dev, keys |-> ks]]
  /\ UNCHANGED <<acct, dev, served, stock, wire, mint, idents, handed, clash, lost,
                 wrapVars>>

\* ... and the account is saved in any case, without the key that was used
\* (remove_one_time_keys).
SaveInbound(t) ==
  LET used == {k.pair : k \in tab[t].keys}
  IN  /\ tab[t].pc = "inbound"
      /\ Save(t, [tab[t].got EXCEPT !.priv = @ \ used], used, tab[t].got.id)
      /\ Done(t)
      /\ UNCHANGED <<dev, served, stock, wire, mint, idents, handed, wrap, wraps>>

\* resetOlmIdentity: somebody else signs in at this browser.  The wrap key goes
\* with the rest of the stores.
Reset ==
  /\ acct.id # 0
  /\ dev < MaxIdents
  /\ dev' = dev + 1
  /\ acct' = NoAcct
  /\ wrap' = 0 /\ seal' = 0
  /\ UNCHANGED <<tab, served, stock, wire, mint, idents, handed, clash, lost, wraps,
                 held>>

-----------------------------------------------------------------------------
(* The peer.                                                               *)

\* Faulty variant of Claim: the row is deleted, not marked consumed.
ClaimDeleting(d, used) ==
  LET open == Open(stock[d])
      r == CHOOSE r \in open : \A s \in open : r.key.pair <= s.key.pair
  IN  /\ served[d] # 0
      /\ open # {}
      /\ stock' = [stock EXCEPT ![d] = @ \ {r}]
      /\ handed' = handed \cup {<<r.key, Cardinality({h \in handed : h[1] = r.key})>>}
      /\ wire' = IF used THEN wire \cup {r.key} ELSE wire
      /\ UNCHANGED <<acct, dev, tab, served, mint, idents, clash, lost, wrapVars>>

\* POST claim: the oldest unclaimed key is marked and returned.  The peer may
\* make nothing of it (the answer is lost, the identity is not the pinned one).
\* Without a key it returns the fallback key, which changes no state here.
Claim(d, used) ==
  LET open == Open(stock[d])
      r == CHOOSE r \in open : \A s \in open : r.key.pair <= s.key.pair
  IN  /\ served[d] # 0
      /\ open # {}
      /\ stock' = [stock EXCEPT ![d] = (@ \ {r}) \cup {[r EXCEPT !.used = TRUE]}]
      /\ handed' = handed \cup {<<r.key, Cardinality({h \in handed : h[1] = r.key})>>}
      /\ wire' = IF used THEN wire \cup {r.key} ELSE wire
      /\ UNCHANGED <<acct, dev, tab, served, mint, idents, clash, lost, wrapVars>>

\* A publish request is sent again, by a retry or by somebody who kept it.
Replay(d, pairs) ==
  /\ served[d] # 0
  /\ stock' = [stock EXCEPT ![d] =
       Stocked(@, {h[1] : h \in {h \in handed : h[1].pair \in pairs /\ h[1].by = served[d]}})]
  /\ UNCHANGED <<acct, dev, tab, served, wire, mint, idents, handed, clash, lost,
                 wrapVars>>

Next ==
  \/ \E t \in Tabs :
       \/ \E job \in Jobs, d \in Devices : GetKey(t, job, d)
       \/ PutKey(t) \/ Stop(t)
       \/ Create(t) \/ SaveCreated(t) \/ Register(t)
       \/ TopUp(t) \/ SaveTopUp(t) \/ Upload(t)
       \/ \E ks \in {{}} \cup {{k} : k \in wire} : Inbound(t, ks)
       \/ SaveInbound(t)
  \/ Reset
  \/ \E d \in Devices, used \in BOOLEAN : Claim(d, used)
  \/ \E d \in Devices, p \in 1 .. MaxKeys : Replay(d, {p})

Spec == Init /\ [][Next]_keyVars
-----------------------------------------------------------------------------
\* No one-time key is ever given out twice, whatever is pruned, topped up or
\* sent again: a second session on it would share its secret.
HandedOutOnce == \A h \in handed : h[2] = 0

\* A key the server still offers can be answered by the browser: the account has
\* its private half and can be opened.  Unless a save from another tab dropped
\* it, or two tabs had set the device up at once, with an account or a wrap key
\* each.
OffersAnswerable ==
  \A r \in Open(stock[dev]) :
    \/ served[dev] # acct.id
    \/ Answers(acct, r.key) /\ seal = wrap
    \/ r.key.pair \in lost \/ dev \in clash

\* The identity the server has for this browser is the browser's own, unless
\* two tabs had set the device up at once.
IdentityAgrees ==
  acct.id # 0 /\ served[dev] # 0 => served[dev] = acct.id \/ dev \in clash

\* The three together: what the server gives out and offers against what the
\* browser can answer.
KeysAccounted == HandedOutOnce /\ OffersAnswerable /\ IdentityAgrees
=============================================================================
