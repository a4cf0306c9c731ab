--------------------------- MODULE AccountsProofs ---------------------------
(***************************************************************************)
(* What an account is admitted, signed in, changed and connected by, what  *)
(* limits that, where its pushes go, and what its pages keep and show: the *)
(* safety properties of the parts of MCAccounts for any number of people,  *)
(* browsers, tabs, codes, requests, pages, writes and endpoints.           *)
(*                                                                         *)
(* The parts share no state: they are parts of MCAccounts.  Each has a     *)
(* section of its own, where the slots of MCAccounts have the names of its *)
(* variables, and the theorems, about all of MCAccounts, come at the end.  *)
(***************************************************************************)
EXTENDS MCAccounts, Sequences, FiniteSets, FiniteSetTheorems, TLAPS

\* The variables of the parts, which are slots of MCAccounts.
who == x1
cookie == x2
proof == x3
button == x4
ref == x5
bought == x6
shared == x7
raced == x8

user == x1
state == x2
flow == x3
row == x4
linked == x5
moved == x6

verified == x1
second == x2
failed == x3
stale == x4
base == x5
sessions == x6
attempt == x7
tries == x8
refused == x9
reset == x10

account == x1
invite == x2
signup == x3
burnt == x4
founding == x5

mode == x1
window == x3
now == x4
check == x6
kept == x7
expiry == x8
told == x9
granted == x10
forgot == x11
merged == x12
unsaid == x13

files == x1
url == x2
known == x3
picked == x4
pc == x5
sends == x6
saves == x7
why == x8

pins == x1
made == x2
list == x3
load == x4
read == x5
add == x6
got == x7
del == x8
overlap == x9
apart == x10

live == x1
writes == x2
dump == x3
secrets == x4
file == x5
uploads == x6
script == x7
started == x8
snapAt == x9
done == x10
left == x11
again == x12

ios == x2
end == x3
ends == x4
subs == x5
run == x6
worker == x7
undo == x8
said == x9
seen == x10
mounted == x11
unsaved == x12

topic == x1
enabled == x2
used == x3
view == x4
call == x5
sending == x6
behind == x7

clock == x1
members == x2
quiet == x3
mentions == x4
send == x5
changes == x6
pushed == x7
ever == x8
always == x9
lost == x10

stored == x1
opened == x2
shown == x3
saving == x4
putting == x5
touched == x6
wanted == x7
clicked == x8
lacks == x9
lastPut == x10

column == x1
local == x2
synced == x3
page == x4
given == x5
timer == x6
busy == x7
patch == x8
liked == x9
outdated == x10
carriers == x11
dropped == x12
lastPatch == x13

browser == x1
net == x2
active == x3
shell == x5
api == x6
fetch == x7
clears == x8
badge == x9
count == x10
post == x11
via == x12
late == x13
odd == x14

up == x1
mood == x2
status == x3
auto == x4
others == x5
aggregate == x6
queue == x7
blind == x8

onLine == x1
socket == x2
internal == x3
visible == x4
grace == x5
retry == x6
bannered == x7
everMet == x8
missed == x9
blip == x10

standing == x1
beat == x2
store == x3
form == x4
reqs == x5
sweep == x6
choices == x7
lastChoice == x8
clean == x9

provider == x1
loaded == x2
popped == x3
tab == x4
query == x5
flight == x7
loading == x8
results == x9
cache == x10
handing == x11

USE DEF who, cookie, proof, button, ref, bought, shared, raced,
    user, state, flow, row, linked, moved,
    verified, second, failed, stale, base, sessions, attempt, tries, refused, reset,
    account, invite, signup, burnt, founding,
    mode, window, now, check, kept, expiry, told, granted, forgot, merged, unsaid,
    files, url, known, picked, pc, sends, saves, why,
    pins, made, list, load, read, add, got, del, overlap, apart,
    live, writes, dump, secrets, file, uploads, script, started, snapAt, done, left, again,
    ios, end, ends, subs, run, worker, undo, said, seen, mounted, unsaved,
    topic, enabled, used, view, call, sending, behind,
    clock, members, quiet, mentions, send, changes, pushed, ever, always, lost,
    stored, opened, shown, saving, putting, touched, wanted, clicked, lacks, lastPut,
    column, local, synced, page, given, timer, busy, patch, liked, outdated,
    carriers, dropped, lastPatch,
    browser, net, active, shell, api, fetch, clears, badge, count, post, via, late,
    odd,
    up, mood, status, auto, others, aggregate, queue, blind,
    onLine, socket, internal, visible, grace, retry, bannered, everMet, missed, blip,
    standing, beat, store, form, reqs, sweep, choices, lastChoice, clean,
    provider, loaded, popped, tab, query, flight, loading, results, cache, handing

-----------------------------------------------------------------------------
(* Step-up authentication.                                                 *)

Proof == [user : People, fresh : BOOLEAN]
Clicked == [pc : {"idle", "asking", "waiting", "go", "through"},
            user : People \cup {U!NoBody}, proof : Nat]

StepUpTypes ==
  /\ who \in People \cup {U!NoBody}
  /\ proof \in Seq(Proof)
  /\ cookie \in Nat /\ cookie <= Len(proof)
  /\ button \in [Buttons -> Clicked]
  /\ ref \in Buttons \cup {"none"}

\* What carries a proof carries one of its own user's.
Owned ==
  /\ \A b \in Buttons : button[b].pc = "through" =>
       /\ button[b].proof \in DOMAIN proof
       /\ proof[button[b].proof].user = button[b].user
  /\ \A x \in bought : x[2] \in DOMAIN proof /\ proof[x[2]].user = x[1]

\* A proof that is not shared is carried by one request, and once it has
\* bought a change it is in no cookie and carried by none.
Spent ==
  /\ \A a, b \in Buttons :
       /\ button[a].pc = "through" /\ button[b].pc = "through"
       /\ button[a].proof = button[b].proof
       => a = b \/ button[a].proof \in shared
  /\ \A x \in bought : x[2] \notin shared =>
       /\ x[2] # cookie
       /\ \A b \in Buttons : button[b].pc = "through" => button[b].proof # x[2]
  /\ U!OneChangePerProof

\* The prompt belongs to the click it was opened for, and clicks that were
\* asking together are all on record.
Answered ==
  /\ ref # "none" => button[ref].pc = "waiting"
  /\ U!NobodyOrphaned
  /\ \A a, b \in Buttons :
       button[a].pc = "asking" /\ button[b].pc = "asking" => a = b \/ a \in raced
  /\ \A a \in Buttons :
       button[a].pc = "asking" /\ ref # "none" => a \in raced /\ ref \in raced

StepUpInv == StepUpTypes /\ Owned /\ Spent /\ Answered

LEMMA StepUpInit ==
  ASSUME U!Init
  PROVE  StepUpInv
<1>1. U!Rest \in Clicked /\ U!Rest.pc = "idle"
  BY DEF U!Rest, Clicked
<1> QED
  BY <1>1 DEF U!Init, StepUpInv, StepUpTypes, Owned, Spent, Answered,
              U!OneChangePerProof, U!NobodyOrphaned, U!At

\* Every click of a button but b stays as it is.
Others(b) == \A a \in Buttons : a # b => button'[a] = button[a]

LEMMA StepUpStep ==
  ASSUME "none" \notin Buttons, StepUpInv, [U!Next]_(U!stepVars)
  PROVE  StepUpInv'
<1> DEFINE n == Len(proof)
<1>0. /\ n \in Nat /\ DOMAIN proof = 1 .. n
      /\ \A i \in 1 .. n : proof[i] \in Proof
      /\ U!Rest \in Clicked /\ U!Rest.pc = "idle"
      /\ who # U!NoBody => who \in People
  <2>1. proof \in Seq(Proof)
    BY DEF StepUpInv, StepUpTypes
  <2> QED
    BY <2>1 DEF U!Rest, Clicked, StepUpInv, StepUpTypes
<1>1. ASSUME NEW b \in Buttons, U!Click(b) PROVE StepUpInv'
  <2>1. button[b] \in Clicked /\ button[b].pc = "idle" /\ ref = "none"
    BY <1>0, <1>1 DEF U!Click, StepUpInv, StepUpTypes
  <2>2. /\ button'[b] = [button[b] EXCEPT !.pc = "asking"] /\ Others(b)
        /\ button' \in [Buttons -> Clicked]
        /\ button'[b].pc = "asking"
    BY <1>1, <2>1 DEF U!Click, StepUpInv, StepUpTypes, Clicked, Others
  <2>3. UNCHANGED <<who, cookie, proof, ref, bought, shared>>
    BY <1>1 DEF U!Click
  <2>4. /\ raced \subseteq raced'
        /\ \A a \in Buttons : button[a].pc = "asking" => a \in raced' /\ b \in raced'
    BY <1>1 DEF U!Click, U!At
  <2>5. StepUpTypes'
    BY <2>2, <2>3 DEF StepUpInv, StepUpTypes
  <2>6. Owned'
    BY <2>1, <2>2, <2>3 DEF StepUpInv, Owned, Others
  <2>7. Spent'
    <3>1. \A a \in Buttons : button'[a].pc = "through" => button'[a] = button[a]
      BY <2>2 DEF Others
    <3> QED
      BY <2>3, <3>1 DEF StepUpInv, Spent, U!OneChangePerProof
  <2>8. Answered'
    <3>1. /\ ref' = "none"
          /\ \A a \in Buttons :
               button'[a].pc = "waiting" <=> button[a].pc = "waiting"
          /\ \A a \in Buttons : a # b =>
               (button'[a].pc = "asking" <=> button[a].pc = "asking")
      BY <2>1, <2>2, <2>3 DEF Others
    <3>2. U!NobodyOrphaned'
      BY <2>1, <2>4, <3>1 DEF StepUpInv, Answered, U!NobodyOrphaned, U!At
    <3>3. \A c, d \in Buttons :
            button'[c].pc = "asking" /\ button'[d].pc = "asking"
              => c = d \/ c \in raced'
      BY <2>4, <3>1
    <3> QED
      BY <3>1, <3>2, <3>3 DEF Answered
  <2> QED
    BY <2>5, <2>6, <2>7, <2>8 DEF StepUpInv
<1>2. ASSUME NEW b \in Buttons, U!Status(b) PROVE StepUpInv'
  <2>1. button[b] \in Clicked /\ button[b].pc = "asking"
    BY <1>2 DEF U!Status, StepUpInv, StepUpTypes
  <2>2. /\ button' \in [Buttons -> Clicked] /\ Others(b)
        /\ \/ button'[b].pc = "go" /\ ref' = ref
           \/ button'[b].pc = "waiting" /\ ref' = b
    <3>1. PICK next \in {"go", "waiting"} :
            /\ button' = [button EXCEPT ![b].pc = next]
            /\ ref' = IF next = "go" THEN ref ELSE b
      BY <1>2 DEF U!Status
    <3>2. [button[b] EXCEPT !.pc = next] \in Clicked
      BY <2>1 DEF Clicked
    <3>3. button \in [Buttons -> Clicked]
      BY DEF StepUpInv, StepUpTypes
    <3>4. /\ button' \in [Buttons -> Clicked] /\ Others(b)
          /\ button'[b].pc = next
      BY <2>1, <3>1, <3>2, <3>3 DEF Others, Clicked
    <3> QED
      BY <3>1, <3>4
  <2>3. UNCHANGED <<who, cookie, proof, bought, shared, raced>>
    BY <1>2 DEF U!Status
  <2>4. StepUpTypes' /\ Owned' /\ Spent'
    BY <2>1, <2>2, <2>3
    DEF StepUpInv, StepUpTypes, Owned, Spent, Others, U!OneChangePerProof
  <2>5. Answered'
    BY <2>1, <2>2, <2>3
    DEF StepUpInv, StepUpTypes, Answered, Others, U!NobodyOrphaned, U!At
  <2> QED
    BY <2>4, <2>5 DEF StepUpInv
<1>3. ASSUME U!Cancel PROVE StepUpInv'
  <2>1. /\ ref \in Buttons /\ ref' = "none" /\ button[ref].pc = "waiting"
        /\ button' \in [Buttons -> Clicked] /\ Others(ref)
        /\ button'[ref].pc = "idle"
    BY <1>0, <1>3 DEF U!Cancel, StepUpInv, StepUpTypes, Answered, Others
  <2>2. UNCHANGED <<who, cookie, proof, bought, shared, raced>>
    BY <1>3 DEF U!Cancel
  <2>3. StepUpTypes' /\ Owned' /\ Spent'
    BY <2>1, <2>2
    DEF StepUpInv, StepUpTypes, Owned, Spent, Others, U!OneChangePerProof
  <2>4. Answered'
    BY <2>1, <2>2 DEF StepUpInv, Answered, Others, U!NobodyOrphaned, U!At
  <2> QED
    BY <2>3, <2>4 DEF StepUpInv
<1>4. ASSUME U!Prove PROVE StepUpInv'
  <2>1. /\ ref \in Buttons /\ ref' = "none" /\ button[ref].pc = "waiting"
        /\ button[ref] \in Clicked
    BY <1>4 DEF U!Prove, StepUpInv, StepUpTypes, Answered
  <2>2. /\ button' \in [Buttons -> Clicked] /\ Others(ref)
        /\ button'[ref].pc = "go"
    BY <1>4, <2>1 DEF U!Prove, StepUpInv, StepUpTypes, Clicked, Others
  <2>3. /\ proof' \in Seq(Proof) /\ Len(proof') = n + 1 /\ cookie' = n + 1
        /\ DOMAIN proof' = 1 .. n + 1 /\ \A i \in 1 .. n : proof'[i] = proof[i]
    <3>1. proof \in Seq(Proof)
      BY DEF StepUpInv, StepUpTypes
    <3>2. [user |-> who, fresh |-> TRUE] \in Proof
      BY <1>0, <1>4 DEF U!Prove, Proof
    <3>3. /\ proof' = Append(proof, [user |-> who, fresh |-> TRUE])
          /\ cookie' = Len(proof')
      BY <1>4 DEF U!Prove
    <3> QED
      BY <3>1, <3>2, <3>3
  <2>4. UNCHANGED <<who, bought, shared, raced>>
    BY <1>4 DEF U!Prove
  <2>5. StepUpTypes'
    BY <1>0, <2>1, <2>2, <2>3, <2>4 DEF StepUpInv, StepUpTypes
  <2>6. Owned' /\ Spent'
    BY <1>0, <2>1, <2>2, <2>3, <2>4
    DEF StepUpInv, Owned, Spent, Others, U!OneChangePerProof
  <2>7. Answered'
    BY <2>1, <2>2, <2>4 DEF StepUpInv, Answered, Others, U!NobodyOrphaned, U!At
  <2> QED
    BY <2>5, <2>6, <2>7 DEF StepUpInv
<1>5. ASSUME NEW b \in Buttons, U!Gate(b) PROVE StepUpInv'
  <2>1. /\ button[b].pc = "go" /\ who \in People
        /\ UNCHANGED <<who, cookie, proof, ref, bought, raced>>
    BY <1>0, <1>5 DEF U!Gate
  <2>2. CASE U!Valid(who)
    <3> DEFINE r == [pc |-> "through", user |-> who, proof |-> cookie]
    <3>1. r \in Clicked /\ r.pc = "through" /\ r.user = who /\ r.proof = cookie
      BY <2>1 DEF Clicked, StepUpInv, StepUpTypes
    <3>2. /\ button' = [button EXCEPT ![b] = r]
          /\ shared' = IF \E a \in U!At("through") : button[a].proof = cookie
                       THEN shared \cup {cookie} ELSE shared
      BY <1>5, <2>2 DEF U!Gate
    <3> HIDE DEF r
    <3>3. button' \in [Buttons -> Clicked] /\ button'[b] = r /\ Others(b)
      BY <3>1, <3>2 DEF StepUpInv, StepUpTypes, Others
    <3>4. cookie \in 1 .. n /\ proof[cookie].user = who
      BY <1>0, <2>2 DEF U!Valid, StepUpInv, StepUpTypes
    <3>5. /\ shared \subseteq shared'
          /\ \A a \in Buttons : button[a].pc = "through" /\ button[a].proof = cookie
               => cookie \in shared'
      BY <3>2 DEF U!At
    <3>6. StepUpTypes' /\ Owned'
      BY <1>0, <2>1, <3>1, <3>3, <3>4
      DEF StepUpInv, StepUpTypes, Owned, Others
    <3>7. Spent'
      BY <2>1, <3>1, <3>3, <3>5
      DEF StepUpInv, Spent, Others, U!OneChangePerProof
    <3>8. Answered'
      BY <2>1, <3>1, <3>3
      DEF StepUpInv, StepUpTypes, Answered, Others, U!NobodyOrphaned, U!At
    <3> QED
      BY <3>6, <3>7, <3>8 DEF StepUpInv
  <2>3. CASE ~U!Valid(who)
    <3>1. button' = [button EXCEPT ![b] = U!Rest] /\ shared' = shared
      BY <1>5, <2>3 DEF U!Gate
    <3>2. /\ button' \in [Buttons -> Clicked] /\ Others(b)
          /\ button'[b].pc = "idle"
      BY <1>0, <3>1 DEF StepUpInv, StepUpTypes, Others
    <3>3. StepUpTypes' /\ Owned' /\ Spent'
      BY <2>1, <3>1, <3>2
      DEF StepUpInv, StepUpTypes, Owned, Spent, Others, U!OneChangePerProof
    <3>4. Answered'
      BY <2>1, <3>2
      DEF StepUpInv, StepUpTypes, Answered, Others, U!NobodyOrphaned, U!At
    <3> QED
      BY <3>3, <3>4 DEF StepUpInv
  <2> QED
    BY <2>2, <2>3
<1>6. ASSUME NEW b \in Buttons, NEW ok \in BOOLEAN, NEW cleared \in BOOLEAN,
             U!Finish(b, ok, cleared)
      PROVE  StepUpInv'
  <2> DEFINE p == button[b].proof
             x == <<button[b].user, p, b>>
  <2>1. /\ button[b].pc = "through" /\ p \in 1 .. n
        /\ proof[p].user = button[b].user
        /\ button' \in [Buttons -> Clicked] /\ Others(b)
        /\ button'[b].pc = "idle"
        /\ UNCHANGED <<who, proof, ref, raced>>
    BY <1>0, <1>6 DEF U!Finish, StepUpInv, StepUpTypes, Owned, Others
  <2>2. Answered'
    BY <2>1
    DEF StepUpInv, StepUpTypes, Answered, Others, U!NobodyOrphaned, U!At
  <2>3. CASE ~ok
    <3>1. UNCHANGED <<bought, cookie, shared>>
      BY <1>6, <2>3 DEF U!Finish
    <3>2. StepUpTypes' /\ Owned' /\ Spent'
      BY <2>1, <3>1
      DEF StepUpInv, StepUpTypes, Owned, Spent, Others, U!OneChangePerProof
    <3> QED
      BY <2>2, <3>2 DEF StepUpInv
  <2>4. CASE ok
    <3>1. /\ bought' = bought \cup {x}
          /\ IF cleared THEN cookie' = 0 /\ shared' = shared
             ELSE cookie' = cookie /\ shared' = shared \cup {p}
      BY <1>6, <2>4 DEF U!Finish
    <3>2. x[1] = button[b].user /\ x[2] = p
      OBVIOUS
    <3> HIDE DEF x
    <3>3. StepUpTypes' /\ Owned'
      BY <1>0, <2>1, <3>1, <3>2 DEF StepUpInv, StepUpTypes, Owned, Others
    <3>4. /\ \A a, c \in Buttons :
               /\ button'[a].pc = "through" /\ button'[c].pc = "through"
               /\ button'[a].proof = button'[c].proof
               => a = c \/ button'[a].proof \in shared'
      BY <2>1, <3>1 DEF StepUpInv, Spent, Others
    <3>5. ASSUME NEW y \in bought', y[2] \notin shared'
          PROVE  /\ y[2] # cookie'
                 /\ \A a \in Buttons : button'[a].pc = "through" =>
                      button'[a].proof # y[2]
      <4>1. y[2] \in 1 .. n
        BY <1>0, <2>1, <3>1, <3>2 DEF StepUpInv, Owned
      <4>2. CASE y = x
        <5>1. p \notin shared /\ cookie' = 0
          BY <3>1, <3>2, <3>5, <4>2
        <5>2. \A a \in Buttons : button'[a].pc = "through" => button'[a].proof # p
          BY <2>1, <5>1 DEF StepUpInv, Spent, Others
        <5> QED
          BY <2>1, <3>2, <4>1, <4>2, <5>1, <5>2
      <4>3. CASE y \in bought
        BY <1>0, <2>1, <3>1, <3>5, <4>1, <4>3 DEF StepUpInv, Spent, Others
      <4> QED
        BY <3>1, <4>2, <4>3
    <3>6. U!OneChangePerProof'
      <4>1. \A y \in bought : y[2] = p => p \in shared
        BY <2>1 DEF StepUpInv, Spent
      <4>2. shared \subseteq shared'
        BY <3>1
      <4> HIDE DEF p
      <4> QED
        BY <3>1, <3>2, <4>1, <4>2 DEF StepUpInv, Spent, U!OneChangePerProof
    <3>7. Spent'
      BY <3>4, <3>5, <3>6 DEF Spent
    <3> QED
      BY <2>2, <3>3, <3>7 DEF StepUpInv
  <2> QED
    BY <2>3, <2>4
<1>7. ASSUME NEW i \in DOMAIN proof, U!Lapse(i) PROVE StepUpInv'
  <2>1. /\ proof' = [proof EXCEPT ![i] = [proof[i] EXCEPT !.fresh = FALSE]]
        /\ UNCHANGED <<who, cookie, button, ref, bought, shared, raced>>
    BY <1>7 DEF U!Lapse
  <2>2. /\ [proof[i] EXCEPT !.fresh = FALSE] \in Proof
        /\ [proof[i] EXCEPT !.fresh = FALSE].user = proof[i].user
    BY <1>0 DEF Proof
  <2>3. /\ proof' \in Seq(Proof) /\ Len(proof') = n /\ DOMAIN proof' = DOMAIN proof
        /\ \A j \in DOMAIN proof : proof'[j].user = proof[j].user
    <3>1. proof \in Seq(Proof)
      BY DEF StepUpInv, StepUpTypes
    <3> QED
      BY <2>1, <2>2, <3>1
  <2>4. StepUpTypes' /\ Owned' /\ Spent'
    BY <2>1, <2>3 DEF StepUpInv, StepUpTypes, Owned, Spent, U!OneChangePerProof
  <2>5. Answered'
    BY <2>1 DEF StepUpInv, Answered, U!NobodyOrphaned, U!At
  <2> QED
    BY <2>4, <2>5 DEF StepUpInv
<1>8. ASSUME NEW u \in People \cup {U!NoBody}, U!ChangeHands(u) PROVE StepUpInv'
  <2>1. /\ who' = u /\ ref' = "none"
        /\ UNCHANGED <<cookie, proof, bought, shared, raced>>
        /\ button' \in [Buttons -> Clicked]
        /\ \A b \in Buttons : IF button[b].pc = "through"
                              THEN button'[b] = button[b]
                              ELSE button'[b].pc = "idle"
    BY <1>0, <1>8 DEF U!ChangeHands, U!At, StepUpInv, StepUpTypes
  <2>2. StepUpTypes' /\ Owned' /\ Spent'
    BY <2>1 DEF StepUpInv, StepUpTypes, Owned, Spent, U!OneChangePerProof
  <2>3. Answered'
    BY <2>1 DEF StepUpInv, Answered, U!NobodyOrphaned, U!At
  <2> QED
    BY <2>2, <2>3 DEF StepUpInv
<1>9. CASE UNCHANGED U!stepVars
  BY <1>9
  DEF U!stepVars, StepUpInv, StepUpTypes, Owned, Spent, Answered,
      U!OneChangePerProof, U!NobodyOrphaned, U!At
<1> QED
  BY <1>1, <1>2, <1>3, <1>4, <1>5, <1>6, <1>7, <1>8, <1>9 DEF U!Next

-----------------------------------------------------------------------------
(* Connections.                                                            *)

Flow == [by : People, at : Browsers, pc : {"away", "proving", "done"},
         acct : Accts \cup {"none"}, to : People \cup {"nobody"}]
Connection == [acct : Accts \cup {"none"},
               how : {"none", "proved", "linked", "typed"}, flow : Nat]

\* The flow of a state that a cookie holds is at that browser; a flow under
\* way belongs to whoever is signed in there, and proves for the user who set
\* out, unless the browser changed hands.
ConnectionInv ==
  /\ user \in [Browsers -> People]
  /\ state \in [Browsers -> Nat]
  /\ flow \in Seq(Flow)
  /\ row \in [People -> Connection]
  /\ \A b \in Browsers : state[b] # 0 =>
       state[b] \in DOMAIN flow /\ flow[state[b]].at = b
  /\ \A n \in DOMAIN flow : flow[n].pc # "done" =>
       flow[n].by = user[flow[n].at] \/ n \in moved
  /\ \A n \in DOMAIN flow : flow[n].pc = "proving" =>
       flow[n].to \in People /\ (flow[n].to = flow[n].by \/ n \in moved)
  /\ \A u \in People : row[u].how = "proved" =>
       /\ row[u].flow \in DOMAIN flow
       /\ flow[row[u].flow].by = u \/ row[u].flow \in moved

\* A row that is not proved says nothing of a flow.
LEMMA ConnectionRow ==
  ASSUME ConnectionInv, NEW u \in People, NEW r \in Connection, r.how # "proved",
         row' = [row EXCEPT ![u] = r], UNCHANGED <<user, state, flow, moved>>
  PROVE  ConnectionInv'
  BY DEF ConnectionInv

\* A flow of a sequence of flows is replaced.
LEMMA PutFlow ==
  ASSUME flow \in Seq(Flow), NEW n \in DOMAIN flow, NEW f \in Flow,
         flow' = [flow EXCEPT ![n] = f]
  PROVE  /\ flow' \in Seq(Flow) /\ DOMAIN flow' = DOMAIN flow /\ flow'[n] = f
         /\ \A m \in DOMAIN flow : m # n => flow'[m] = flow[m]
  OBVIOUS

LEMMA ConnectionStep ==
  ASSUME ConnectionInv, [C!Next]_(C!linkVars)
  PROVE  ConnectionInv'
<1>1. flow \in Seq(Flow) /\ \A n \in DOMAIN flow : n \in Nat \ {0} /\ flow[n] \in Flow
  <2>1. flow \in Seq(Flow)
    BY DEF ConnectionInv
  <2> QED
    BY <2>1
<1>2. ASSUME NEW b \in Browsers, C!Start(b) PROVE ConnectionInv'
  <2> DEFINE f == C!Away(user[b], b)
             n == Len(flow)
  <2>1. f \in Flow /\ f.at = b /\ f.by = user[b] /\ f.pc = "away"
    BY DEF C!Away, ConnectionInv, Flow
  <2>2. /\ flow' = Append(flow, f) /\ state' = [state EXCEPT ![b] = Len(flow')]
        /\ UNCHANGED <<user, row, moved>>
    BY <1>2 DEF C!Start
  <2> HIDE DEF f
  <2>3. /\ n \in Nat /\ DOMAIN flow = 1 .. n /\ Len(flow') = n + 1
        /\ flow' \in Seq(Flow) /\ DOMAIN flow' = 1 .. n + 1 /\ flow'[n + 1] = f
        /\ \A m \in 1 .. n : flow'[m] = flow[m]
    BY <1>1, <2>1, <2>2
  <2> HIDE DEF n
  <2>4. /\ state' \in [Browsers -> Nat] /\ state'[b] = n + 1
        /\ \A c \in Browsers : c # b => state'[c] = state[c]
    BY <2>2, <2>3 DEF ConnectionInv
  <2> QED
    BY <2>1, <2>2, <2>3, <2>4 DEF ConnectionInv
<1>3. ASSUME NEW n \in DOMAIN flow, NEW b \in Browsers, NEW a \in Accts,
             C!Callback(n, b, a)
      PROVE  ConnectionInv'
  <2> DEFINE f == [by |-> flow[n].by, at |-> b, pc |-> "proving", acct |-> a,
                   to |-> user[b]]
  <2>1. /\ f \in Flow /\ f.by = flow[n].by /\ f.at = b /\ f.pc = "proving"
        /\ f.to = user[b] /\ user[b] \in People
    BY <1>1 DEF ConnectionInv, Flow
  <2>2. /\ flow[n].pc = "away" /\ state[b] = n
        /\ flow' = [flow EXCEPT ![n] = f] /\ UNCHANGED <<user, state, row, moved>>
    BY <1>3 DEF C!Callback
  <2> HIDE DEF f
  <2>3. /\ flow' \in Seq(Flow) /\ DOMAIN flow' = DOMAIN flow /\ flow'[n] = f
        /\ \A m \in DOMAIN flow : m # n => flow'[m] = flow[m]
    BY <1>1, <2>1, <2>2, PutFlow
  <2>4. flow[n].at = b /\ (flow[n].by = user[b] \/ n \in moved)
    BY <1>1, <2>2 DEF ConnectionInv
  <2> QED
    BY <2>1, <2>2, <2>3, <2>4 DEF ConnectionInv
<1>4. ASSUME NEW n \in DOMAIN flow, NEW ok \in BOOLEAN, C!Prove(n, ok)
      PROVE  ConnectionInv'
  <2> DEFINE f == [flow[n] EXCEPT !.pc = IF ok THEN "done" ELSE "away"]
             r == [acct |-> flow[n].acct, how |-> "proved", flow |-> n]
             u == flow[n].to
             b == flow[n].at
  <2>1. /\ flow[n].pc = "proving" /\ flow' = [flow EXCEPT ![n] = f]
        /\ UNCHANGED <<user, moved>>
        /\ IF ok THEN /\ row' = [row EXCEPT ![u] = r]
                      /\ state' = [state EXCEPT ![b] = 0]
           ELSE UNCHANGED <<row, state>>
    BY <1>4 DEF C!Prove
  <2>2. /\ f \in Flow /\ f.by = flow[n].by /\ f.at = flow[n].at
        /\ f.pc = IF ok THEN "done" ELSE "away"
    BY <1>1 DEF Flow
  <2>3. /\ r \in Connection /\ r.how = "proved" /\ r.flow = n
        /\ u \in People /\ b \in Browsers
        /\ flow[n].by = u \/ n \in moved
    BY <1>1, <2>1 DEF Flow, Connection, ConnectionInv
  <2> HIDE DEF f, r
  <2>4. /\ flow' \in Seq(Flow) /\ DOMAIN flow' = DOMAIN flow /\ flow'[n] = f
        /\ \A m \in DOMAIN flow : m # n => flow'[m] = flow[m]
    BY <1>1, <2>1, <2>2, PutFlow
  <2>5. \A m \in DOMAIN flow : flow'[m].by = flow[m].by /\ flow'[m].at = flow[m].at
    BY <2>2, <2>4
  <2>6. /\ user' \in [Browsers -> People] /\ state' \in [Browsers -> Nat]
        /\ row' \in [People -> Connection]
    <3>1. /\ user \in [Browsers -> People] /\ state \in [Browsers -> Nat]
          /\ row \in [People -> Connection]
      BY DEF ConnectionInv
    <3> HIDE DEF u, b
    <3> QED
      BY <2>1, <2>3, <3>1
  <2>7. \A c \in Browsers : state'[c] # 0 =>
          state'[c] \in DOMAIN flow' /\ flow'[state'[c]].at = c
    BY <2>1, <2>3, <2>4, <2>5 DEF ConnectionInv
  <2>8. \A m \in DOMAIN flow' : flow'[m].pc # "done" =>
          flow'[m].by = user'[flow'[m].at] \/ m \in moved'
    BY <2>1, <2>2, <2>4, <2>5 DEF ConnectionInv
  <2>9. \A m \in DOMAIN flow' : flow'[m].pc = "proving" =>
          flow'[m].to \in People /\ (flow'[m].to = flow'[m].by \/ m \in moved')
    BY <2>1, <2>2, <2>4 DEF ConnectionInv
  <2>10. \A v \in People : row'[v].how = "proved" =>
           /\ row'[v].flow \in DOMAIN flow'
           /\ flow'[row'[v].flow].by = v \/ row'[v].flow \in moved'
    BY <2>1, <2>3, <2>4, <2>5 DEF ConnectionInv
  <2> QED
    BY <2>4, <2>6, <2>7, <2>8, <2>9, <2>10 DEF ConnectionInv
<1>5. ASSUME NEW u \in People, NEW a \in Accts, NEW ok \in BOOLEAN,
             C!LinkSocial(u, a, ok) \/ C!Typed(u, a)
      PROVE  ConnectionInv'
  <2>1. /\ [acct |-> a, how |-> "linked", flow |-> 0] \in Connection
        /\ [acct |-> a, how |-> "typed", flow |-> 0] \in Connection
    BY DEF Connection
  <2>2. /\ UNCHANGED <<user, state, flow, moved>>
        /\ \/ row' = row
           \/ row' = [row EXCEPT ![u] = [acct |-> a, how |-> "linked", flow |-> 0]]
           \/ row' = [row EXCEPT ![u] = [acct |-> a, how |-> "typed", flow |-> 0]]
    BY <1>5 DEF C!LinkSocial, C!Typed
  <2>3. CASE row' = row
    BY <2>2, <2>3 DEF ConnectionInv
  <2> QED
    BY <2>1, <2>2, <2>3, ConnectionRow
<1>6. ASSUME NEW u \in People, C!Remove(u) PROVE ConnectionInv'
  <2>1. C!NoRow \in Connection /\ C!NoRow.how = "none"
    BY DEF C!NoRow, Connection
  <2> QED
    BY <1>6, <2>1, ConnectionRow DEF C!Remove
<1>7. ASSUME NEW b \in Browsers, NEW u \in People, C!ChangeHands(b, u)
      PROVE  ConnectionInv'
  <2>1. /\ user' = [user EXCEPT ![b] = u] /\ UNCHANGED <<state, flow, row>>
        /\ moved \subseteq moved'
        /\ \A n \in DOMAIN flow : flow[n].at = b /\ flow[n].pc # "done" => n \in moved'
    BY <1>7 DEF C!ChangeHands
  <2>2. /\ user' \in [Browsers -> People]
        /\ \A c \in Browsers : c # b => user'[c] = user[c]
    BY <2>1 DEF ConnectionInv
  <2>3. \A n \in DOMAIN flow : flow[n].at \in Browsers
    BY <1>1 DEF Flow
  <2> QED
    BY <2>1, <2>2, <2>3 DEF ConnectionInv
<1>8. CASE UNCHANGED C!linkVars
  BY <1>8 DEF C!linkVars, ConnectionInv
<1> QED
  BY <1>2, <1>3, <1>4, <1>5, <1>6, <1>7, <1>8 DEF C!Next

LEMMA ConnectionInit ==
  ASSUME C!Init
  PROVE  ConnectionInv
<1>1. C!NoRow \in Connection /\ C!NoRow.how = "none"
  BY DEF C!NoRow, Connection
<1>2. << >> \in Seq(Flow) /\ DOMAIN << >> = {}
  OBVIOUS
<1> QED
  BY <1>1, <1>2 DEF C!Init, ConnectionInv

-----------------------------------------------------------------------------
(* Signing in.                                                             *)

Places == S!Places \cup {S!NoPlace}
Attempt == [pc : {"idle", "comparing", "challenge"}, at : Places,
            right : BOOLEAN,
            out : {"none", "ok", "wrong", "unverified", "locked_out",
                   "risk_blocked"}]

\* A place that was refused would be refused again with what the account had
\* then: it is scored against the same baseline.
Standing == \A r \in refused : \E p \in Places, f \in BOOLEAN :
              r = <<p, f>> /\ S!Blocked(p, f)

SignInInv ==
  /\ attempt \in [Clients -> Attempt] /\ failed \in Nat /\ second \in BOOLEAN
  /\ S!GuessesBounded
  /\ Standing

LEMMA SameCardinality == \A X : S!Cardinality(X) = Cardinality(X)
  BY DEF S!Cardinality, Cardinality

\* The outcomes that the handlers store.
LEMMA Attempts ==
  /\ \A out \in {"none", "ok", "wrong", "unverified", "locked_out", "risk_blocked"} :
       S!Idle(out) \in Attempt /\ S!Idle(out).pc = "idle"
  /\ \A p \in Places, right \in BOOLEAN :
       S!Try(p, right) \in Attempt /\ S!Try(p, right).pc = "comparing"
<1>1. ASSUME NEW out \in {"none", "ok", "wrong", "unverified", "locked_out",
                          "risk_blocked"}
      PROVE  S!Idle(out) \in Attempt /\ S!Idle(out).pc = "idle"
  BY DEF S!Idle, Attempt, Places
<1>2. ASSUME NEW r \in Attempt, NEW p \in Places, NEW right \in BOOLEAN
      PROVE  LET t == [r EXCEPT !.pc = "comparing", !.at = p, !.right = right]
             IN  t \in Attempt /\ t.pc = "comparing"
  BY DEF Attempt
<1>3. \A p \in Places, right \in BOOLEAN :
        S!Try(p, right) \in Attempt /\ S!Try(p, right).pc = "comparing"
  BY <1>1, <1>2 DEF S!Try
<1> QED
  BY <1>1, <1>3

\* How many clients are comparing a password, before and after a step of c.
LEMMA ComparingCounted ==
  ASSUME IsFiniteSet(Clients), SignInInv, NEW c \in Clients, NEW a \in Attempt,
         attempt' = [attempt EXCEPT ![c] = a]
  PROVE  LET k == Cardinality(S!Comparing)
             l == Cardinality(S!Comparing')
             m == Cardinality(Clients)
         IN  /\ attempt' \in [Clients -> Attempt]
             /\ k \in Nat /\ l \in Nat /\ m \in Nat /\ l <= m
             /\ a.pc # "comparing" => l < m /\ l <= k
             /\ a.pc # "comparing" /\ attempt[c].pc = "comparing" => l = k - 1
<1> DEFINE Before == S!Comparing
           After == S!Comparing'
<1>1. /\ attempt' \in [Clients -> Attempt] /\ attempt'[c] = a
      /\ \A d \in Clients : d # c => attempt'[d] = attempt[d]
  BY DEF SignInInv
<1>2. Before \in SUBSET Clients /\ After \in SUBSET Clients
  BY DEF S!Comparing
<1>3. c \in Before <=> attempt[c].pc = "comparing"
  BY DEF S!Comparing
<1>4. a.pc # "comparing" => After = Before \ {c}
  BY <1>1 DEF S!Comparing
<1> HIDE DEF Before, After
<1>5. /\ IsFiniteSet(Before) /\ IsFiniteSet(After)
      /\ Cardinality(After) <= Cardinality(Clients)
      /\ Cardinality(After) = Cardinality(Clients) => After = Clients
  BY <1>2, FS_Subset
<1>6. /\ Cardinality(Before) \in Nat /\ Cardinality(After) \in Nat
      /\ Cardinality(Clients) \in Nat
  BY <1>5, FS_CardinalityType
<1>7. Cardinality(Before \ {c}) =
        IF c \in Before THEN Cardinality(Before) - 1 ELSE Cardinality(Before)
  BY <1>5, FS_RemoveElement
<1>8. ASSUME a.pc # "comparing"
      PROVE  /\ Cardinality(After) < Cardinality(Clients)
             /\ Cardinality(After) <= Cardinality(Before)
             /\ attempt[c].pc = "comparing" => Cardinality(After) = Cardinality(Before) - 1
  <2>1. After # Clients
    BY <1>4, <1>8
  <2>2. Cardinality(After) < Cardinality(Clients)
    BY <1>5, <1>6, <2>1
  <2>3. Cardinality(Before \ {c}) <= Cardinality(Before)
    BY <1>6, <1>7
  <2> QED
    BY <1>3, <1>4, <1>8, <1>7, <1>6, <2>2, <2>3
<1> QED
  BY <1>1, <1>5, <1>6, <1>8 DEF Before, After

\* More factors block less.
LEMMA FactorHelps ==
  ASSUME NEW p, S!Blocked(p, TRUE)
  PROVE  S!Blocked(p, FALSE)
  BY DEF S!Blocked

\* Whatever is judged leaves what was refused refused, and nobody who was is
\* let in.
LEMMA Judged ==
  ASSUME SignInInv, NEW c \in Clients, NEW p \in Places, NEW factor \in BOOLEAN,
         NEW admitted \in Attempt, admitted.pc # "comparing",
         S!Judge(c, p, factor, admitted)
  PROVE  /\ Standing'
         /\ \E a \in Attempt : a.pc # "comparing" /\ attempt' = [attempt EXCEPT ![c] = a]
         /\ S!Blocked(p, factor) => base' = base
         /\ base' # base => base' = p
         /\ ~S!Blocked(p, factor) => <<p, TRUE>> \notin refused
         /\ ~S!Blocked(p, factor) /\ ~factor => <<p, FALSE>> \notin refused
<1>1. ASSUME NEW q, NEW f, <<q, f>> \in refused
      PROVE  S!Blocked(q, f)
  BY <1>1 DEF SignInInv, Standing
<1>2. ~S!Blocked(p, factor) => <<p, TRUE>> \notin refused
  BY <1>1, FactorHelps
<1>3. ~S!Blocked(p, factor) /\ ~factor => <<p, FALSE>> \notin refused
  BY <1>1
<1>4. CASE S!Blocked(p, factor)
  <2>1. /\ refused' = refused \cup {<<p, factor>>} /\ UNCHANGED base
        /\ attempt' = [attempt EXCEPT ![c] = S!Idle("risk_blocked")]
    BY <1>4 DEF S!Judge
  <2>2. \A q, f : S!Blocked(q, f)' <=> S!Blocked(q, f)
    BY <2>1 DEF S!Blocked
  <2>3. Standing'
    BY <1>4, <2>1, <2>2 DEF Standing, SignInInv
  <2> QED
    BY <1>4, <2>1, <2>3, Attempts
<1>5. CASE ~S!Blocked(p, factor)
  <2>1. /\ base' \in {base, p} /\ refused' = IF base' = base THEN refused ELSE {}
        /\ attempt' = [attempt EXCEPT ![c] = admitted]
    BY <1>5 DEF S!Judge
  <2>2. CASE base' = base
    <3>1. \A q, f : S!Blocked(q, f)' <=> S!Blocked(q, f)
      BY <2>2 DEF S!Blocked
    <3> QED
      BY <1>2, <1>3, <1>5, <2>1, <2>2, <3>1 DEF Standing, SignInInv
  <2>3. CASE base' # base
    BY <1>2, <1>3, <1>5, <2>1, <2>3 DEF Standing
  <2> QED
    BY <2>2, <2>3
<1> QED
  BY <1>4, <1>5

\* A session goes only where the judgement is not against it.
LEMMA SessionCreated ==
  ASSUME SignInInv, NEW c \in Clients, NEW p \in Places, NEW factor \in BOOLEAN,
         S!CreateSession(c, p, factor), second' = factor
  PROVE  /\ Standing' /\ S!NoRefusedSession
         /\ \E a \in Attempt : a.pc # "comparing" /\ attempt' = [attempt EXCEPT ![c] = a]
<1>1. /\ S!Judge(c, p, factor, S!Idle("ok"))
      /\ sessions' = IF S!Blocked(p, factor) THEN sessions ELSE sessions \cup {p}
  BY DEF S!CreateSession
<1>2. S!Idle("ok") \in Attempt /\ S!Idle("ok").pc # "comparing"
  BY Attempts
<1>3. /\ Standing'
      /\ \E a \in Attempt : a.pc # "comparing" /\ attempt' = [attempt EXCEPT ![c] = a]
      /\ S!Blocked(p, factor) => base' = base
      /\ base' # base => base' = p
      /\ ~S!Blocked(p, factor) => <<p, TRUE>> \notin refused
      /\ ~S!Blocked(p, factor) /\ ~factor => <<p, FALSE>> \notin refused
  BY <1>1, <1>2, Judged
<1>4. S!NoRefusedSession
  BY <1>1, <1>3 DEF S!NoRefusedSession
<1> QED
  BY <1>3, <1>4

LEMMA FewerGuesses ==
  ASSUME NEW f \in Nat, NEW k \in Nat, NEW g \in Nat, NEW l \in Nat,
         NEW n \in Nat, NEW m \in Nat,
         g <= f, l <= k, f + k <= n + m - 1
  PROVE  g + l <= n + m - 1
  OBVIOUS

\* The bound, from the number of clients that compare and the failures.
LEMMA SignInCounted ==
  ASSUME IsFiniteSet(Clients), MaxAttempts \in Nat,
         SignInInv, NEW c \in Clients, NEW a \in Attempt,
         attempt' = [attempt EXCEPT ![c] = a], failed' \in Nat,
         \/ failed' = failed /\ failed < MaxAttempts
         \/ a.pc # "comparing" /\ (failed' <= failed \/ failed' = 0)
         \/ a.pc # "comparing" /\ attempt[c].pc = "comparing" /\ failed' = failed + 1
  PROVE  attempt' \in [Clients -> Attempt] /\ S!GuessesBounded'
<1> DEFINE k == Cardinality(S!Comparing)
           l == Cardinality(S!Comparing')
           m == Cardinality(Clients)
<1>1. /\ attempt' \in [Clients -> Attempt]
      /\ k \in Nat /\ l \in Nat /\ m \in Nat /\ l <= m
      /\ a.pc # "comparing" => l < m /\ l <= k
      /\ a.pc # "comparing" /\ attempt[c].pc = "comparing" => l = k - 1
  BY ComparingCounted
<1>2. failed \in Nat /\ failed + k <= MaxAttempts + m - 1
  BY SameCardinality DEF SignInInv, S!GuessesBounded
<1>3. S!GuessesBounded' <=> failed' + l <= MaxAttempts + m - 1
  BY SameCardinality DEF S!GuessesBounded
<1> HIDE DEF k, l, m
<1>4. CASE failed' = failed /\ failed < MaxAttempts
  BY <1>1, <1>2, <1>3, <1>4
<1>5. CASE a.pc # "comparing" /\ failed' <= failed
  <2>1. l <= k
    BY <1>1, <1>5
  <2>2. failed' + l <= MaxAttempts + m - 1
    BY <1>1, <1>2, <1>5, <2>1, FewerGuesses
  <2> QED
    BY <1>1, <1>3, <2>2
<1>6. CASE a.pc # "comparing" /\ failed' = 0
  <2>1. l <= m - 1
    BY <1>1, <1>6
  <2>2. 0 + l <= MaxAttempts + m - 1
    BY <1>1, <2>1
  <2> QED
    BY <1>1, <1>3, <1>6, <2>2
<1>7. CASE a.pc # "comparing" /\ attempt[c].pc = "comparing" /\ failed' = failed + 1
  BY <1>1, <1>2, <1>3, <1>7
<1> QED
  BY <1>4, <1>5, <1>6, <1>7

LEMMA SignInStep ==
  ASSUME IsFiniteSet(Clients), MaxAttempts \in Nat,
         SignInInv, [S!Next]_(S!signVars)
  PROVE  SignInInv' /\ [S!NoRefusedSession]_(S!signVars)
<1>1. failed \in Nat /\ second \in BOOLEAN
  BY DEF SignInInv
<1>2. ASSUME UNCHANGED <<refused, base>>, sessions' \subseteq sessions
      PROVE  Standing' /\ S!NoRefusedSession
  <2>1. \A q, f : S!Blocked(q, f)' <=> S!Blocked(q, f)
    BY <1>2 DEF S!Blocked
  <2> QED
    BY <1>2, <2>1 DEF Standing, SignInInv, S!NoRefusedSession
<1>3. ASSUME UNCHANGED attempt, failed' \in Nat, failed' <= failed
      PROVE  S!GuessesBounded' /\ attempt' \in [Clients -> Attempt]
  <2>1. S!Comparing' = S!Comparing
    BY <1>3 DEF S!Comparing
  <2>2. Cardinality(S!Comparing) \in Nat /\ Cardinality(Clients) \in Nat
    <3>1. IsFiniteSet(S!Comparing)
      BY FS_Subset DEF S!Comparing
    <3> QED
      BY <3>1, FS_CardinalityType
  <2> QED
    BY <1>1, <1>3, <2>1, <2>2, SameCardinality DEF SignInInv, S!GuessesBounded
<1>4. \A p \in S!Places : p \in Places
  BY DEF Places
<1>5. ASSUME NEW c \in Clients, NEW p \in S!Places, NEW right \in BOOLEAN,
             S!StartSignIn(c, p, right)
      PROVE  SignInInv' /\ S!NoRefusedSession
  <2>1. /\ UNCHANGED <<second, failed, base, sessions, refused>>
        /\ attempt' = [attempt EXCEPT ![c] =
             IF failed >= MaxAttempts THEN S!Idle("locked_out") ELSE S!Try(p, right)]
    BY <1>5 DEF S!StartSignIn
  <2>2. Standing' /\ S!NoRefusedSession
    BY <1>2, <2>1
  <2>3. CASE failed >= MaxAttempts
    <3>1. attempt' = [attempt EXCEPT ![c] = S!Idle("locked_out")]
      BY <2>1, <2>3
    <3>2. attempt' \in [Clients -> Attempt] /\ S!GuessesBounded'
      <4>1. S!Idle("locked_out") \in Attempt /\ S!Idle("locked_out").pc # "comparing"
        BY Attempts
      <4>2. failed' \in Nat /\ failed' <= failed
        BY <1>1, <2>1
      <4> QED
        BY <3>1, <4>1, <4>2, SignInCounted
    <3> QED
      BY <1>1, <2>1, <2>2, <3>2 DEF SignInInv
  <2>4. CASE ~(failed >= MaxAttempts)
    <3>1. attempt' = [attempt EXCEPT ![c] = S!Try(p, right)]
      BY <2>1, <2>4
    <3>2. failed < MaxAttempts
      BY <1>1, <2>4
    <3>3. attempt' \in [Clients -> Attempt] /\ S!GuessesBounded'
      BY <1>1, <1>4, <2>1, <3>1, <3>2, Attempts, SignInCounted
    <3> QED
      BY <1>1, <2>1, <2>2, <3>3 DEF SignInInv
  <2> QED
    BY <2>3, <2>4
<1>6. ASSUME NEW c \in Clients, S!Compared(c)
      PROVE  SignInInv' /\ S!NoRefusedSession
  <2> DEFINE a == attempt[c]
  <2>1. a \in Attempt /\ a.pc = "comparing" /\ second' = second /\ a.at \in Places
    BY <1>6 DEF S!Compared, SignInInv, Attempt
  <2>2. ASSUME NEW b \in Attempt, b.pc # "comparing",
               attempt' = [attempt EXCEPT ![c] = b],
               failed' \in {failed, failed + 1, 0}
        PROVE  attempt' \in [Clients -> Attempt] /\ S!GuessesBounded' /\ failed' \in Nat
    <3>1. failed' \in Nat
      BY <1>1, <2>2
    <3>2. \/ failed' <= failed \/ failed' = 0 \/ failed' = failed + 1
      BY <1>1, <2>2
    <3> HIDE DEF a
    <3>3. attempt[c].pc = "comparing"
      BY <2>1 DEF a
    <3> QED
      BY <2>2, <3>1, <3>2, <3>3, SignInCounted
  <2>3. CASE ~a.right \/ ~verified
    <3>1. /\ failed' \in {failed, failed + 1} /\ UNCHANGED <<base, sessions, refused>>
          /\ attempt' = [attempt EXCEPT ![c] =
               S!Idle(IF a.right THEN "unverified" ELSE "wrong")]
      BY <1>6, <2>3 DEF S!Compared, S!Fail
    <3>2. PICK out \in {"wrong", "unverified"} :
            attempt' = [attempt EXCEPT ![c] = S!Idle(out)]
      BY <3>1
    <3> QED
      BY <1>2, <2>1, <2>2, <3>1, <3>2, Attempts DEF SignInInv
  <2>4. CASE a.right /\ verified
    <3>1. failed' \in {failed, failed + 1, 0}
      BY <1>6, <2>4 DEF S!Compared, S!Fail
    <3>2. CASE second
      <4> DEFINE b == [a EXCEPT !.pc = "challenge"]
      <4>1. S!Judge(c, a.at, TRUE, b) /\ UNCHANGED sessions
        BY <1>6, <2>4, <3>2 DEF S!Compared
      <4>2. b \in Attempt /\ b.pc # "comparing"
        BY <2>1 DEF Attempt
      <4> HIDE DEF a, b
      <4>3. /\ Standing'
            /\ \E d \in Attempt : d.pc # "comparing" /\ attempt' = [attempt EXCEPT ![c] = d]
            /\ S!Blocked(a.at, TRUE) => base' = base
            /\ base' # base => base' = a.at
            /\ ~S!Blocked(a.at, TRUE) => <<a.at, TRUE>> \notin refused
        BY <2>1, <4>1, <4>2, Judged
      <4>4. S!NoRefusedSession
        BY <2>1, <3>2, <4>1, <4>3 DEF S!NoRefusedSession
      <4> QED
        BY <1>1, <2>1, <2>2, <3>1, <4>3, <4>4 DEF SignInInv
    <3>3. CASE ~second
      <4>1. S!CreateSession(c, a.at, FALSE) /\ second' = FALSE
        BY <1>1, <1>6, <2>4, <3>3 DEF S!Compared
      <4> HIDE DEF a
      <4>2. /\ Standing' /\ S!NoRefusedSession
            /\ \E b \in Attempt : b.pc # "comparing" /\ attempt' = [attempt EXCEPT ![c] = b]
        BY <2>1, <4>1, SessionCreated
      <4> QED
        BY <1>1, <2>1, <2>2, <3>1, <4>2 DEF SignInInv
    <3> QED
      BY <3>2, <3>3
  <2> QED
    BY <2>1, <2>3, <2>4, <1>6 DEF S!Compared
<1>7. ASSUME NEW c \in Clients, NEW p \in Places, NEW factor \in BOOLEAN,
             S!CreateSession(c, p, factor), second' = factor, failed' = failed
      PROVE  SignInInv' /\ S!NoRefusedSession
  <2>1. /\ Standing' /\ S!NoRefusedSession
        /\ \E a \in Attempt : a.pc # "comparing" /\ attempt' = [attempt EXCEPT ![c] = a]
    BY <1>7, SessionCreated
  <2>2. attempt' \in [Clients -> Attempt] /\ S!GuessesBounded'
    <3>1. PICK b \in Attempt : b.pc # "comparing" /\ attempt' = [attempt EXCEPT ![c] = b]
      BY <2>1
    <3>2. failed' \in Nat /\ failed' <= failed
      BY <1>1, <1>7
    <3> QED
      BY <3>1, <3>2, SignInCounted
  <2> QED
    BY <1>1, <1>7, <2>1, <2>2 DEF SignInInv
<1>8. ASSUME NEW c \in Clients, NEW ok \in BOOLEAN, S!SecondFactor(c, ok)
      PROVE  SignInInv' /\ S!NoRefusedSession
  <2>1. attempt[c].at \in Places /\ UNCHANGED <<second, failed>>
    BY <1>8 DEF S!SecondFactor, SignInInv, Attempt
  <2>2. CASE ok
    BY <1>1, <1>7, <1>8, <2>1, <2>2 DEF S!SecondFactor
  <2>3. CASE ~ok
    <3>1. /\ attempt' = [attempt EXCEPT ![c] = S!Idle("wrong")]
          /\ UNCHANGED <<base, sessions, refused>>
      BY <1>8, <2>3 DEF S!SecondFactor
    <3>2. attempt' \in [Clients -> Attempt] /\ S!GuessesBounded'
      <4>1. S!Idle("wrong") \in Attempt /\ S!Idle("wrong").pc # "comparing"
        BY Attempts
      <4>2. failed' \in Nat /\ failed' <= failed
        BY <1>1, <2>1
      <4> QED
        BY <3>1, <4>1, <4>2, SignInCounted
    <3> QED
      BY <1>1, <1>2, <2>1, <3>1, <3>2 DEF SignInInv
  <2> QED
    BY <2>2, <2>3
<1>9. ASSUME NEW c \in Clients, NEW p \in S!Places,
             S!OtherSignIn(c, p) \/ S!VerifyEmail(c, p) \/ S!SetSecond(c, p)
      PROVE  SignInInv' /\ S!NoRefusedSession
  <2>1. CASE S!OtherSignIn(c, p)
    BY <1>1, <1>4, <1>7, <2>1 DEF S!OtherSignIn
  <2>2. CASE S!VerifyEmail(c, p)
    BY <1>1, <1>4, <1>7, <2>2 DEF S!VerifyEmail
  <2>3. CASE S!SetSecond(c, p)
    <3>1. S!CreateSession(c, p, ~second) /\ second' = ~second /\ failed' = failed
      BY <2>3 DEF S!SetSecond
    <3> QED
      BY <1>1, <1>4, <1>7, <3>1
  <2> QED
    BY <1>9, <2>1, <2>2, <2>3
<1>10. ASSUME S!ResetPassword \/ S!AttemptAges \/ S!PruneAttempts
       PROVE  SignInInv' /\ S!NoRefusedSession
  <2>1. /\ UNCHANGED <<refused, base, attempt, second>>
        /\ sessions' \subseteq sessions /\ failed' \in Nat /\ failed' <= failed
    BY <1>1, <1>10 DEF S!ResetPassword, S!AttemptAges, S!PruneAttempts
  <2> QED
    BY <1>1, <1>2, <1>3, <2>1 DEF SignInInv
<1>11. CASE UNCHANGED S!signVars
  <2>1. UNCHANGED <<refused, base, attempt, second, sessions, failed>>
    BY <1>11 DEF S!signVars
  <2> QED
    BY <1>1, <1>2, <1>3, <1>11, <2>1 DEF SignInInv
<1> QED
  BY <1>5, <1>6, <1>8, <1>9, <1>10, <1>11 DEF S!Next

LEMMA SignInInit ==
  ASSUME IsFiniteSet(Clients), Clients # {}, MaxAttempts \in Nat, S!Init
  PROVE  SignInInv
<1>1. S!Comparing = {} /\ attempt \in [Clients -> Attempt]
  BY Attempts DEF S!Init, S!Comparing
<1>2. Cardinality(Clients) \in Nat \ {0} /\ Cardinality(S!Comparing) = 0
  BY <1>1, FS_CardinalityType, FS_EmptySet
<1> QED
  BY <1>1, <1>2, SameCardinality DEF S!Init, SignInInv, S!GuessesBounded, Standing

-----------------------------------------------------------------------------
(* Registration.                                                           *)

Invite == [max : Nat, uses : Nat, live : BOOLEAN]
Request == [pc : {"idle", "posted", "reserved"}, name : Names \cup {"none"},
            code : Codes \cup {"none"}]

RegistrationTypes ==
  /\ account \in [Names -> Codes \cup {"none", "founder"}]
  /\ invite \in [Codes -> Invite]
  /\ signup \in [Signups -> Request]
  /\ \A s \in Signups : signup[s].pc # "idle" => signup[s].name \in Names
  /\ IsFiniteSet(R!Accounts) /\ IsFiniteSet(R!Reserved) /\ IsFiniteSet(founding)

\* A use that may be lost is on record: its identity is taken, or another
\* sign-up is past the hook for it.
Racing ==
  \A s \in R!Reserved : signup[s].code \in Codes =>
    /\ signup[s].name \in R!Accounts => signup[s].code \in burnt
    /\ \A r \in R!Reserved : r # s /\ signup[r].name = signup[s].name =>
         signup[s].code \in burnt

\* The sign-ups that will have an account without an invite.
Founders == {s \in R!Reserved : /\ signup[s].code = "none"
                                /\ signup[s].name \notin R!Accounts}

\* They were past the hook before the first account; those with a code after.
Founded ==
  /\ Founders \subseteq founding
  /\ R!Accounts = {} => \A s \in R!Reserved : signup[s].code = "none"
  /\ Cardinality(R!Via("founder")) + Cardinality(Founders) <= Cardinality(founding)

RegistrationInv == RegistrationTypes /\ R!InvitesAccounted /\ Racing /\ Founded

LEMMA SameCount == \A X : R!Cardinality(X) = Cardinality(X)
  BY DEF R!Cardinality, Cardinality

LEMMA Counted ==
  ASSUME RegistrationTypes, "none" \notin Codes
  PROVE  /\ \A c \in Codes \cup {"founder"} :
              IsFiniteSet(R!Via(c)) /\ Cardinality(R!Via(c)) \in Nat
         /\ \A c \in Codes : IsFiniteSet(R!Holding(c)) /\ Cardinality(R!Holding(c)) \in Nat
         /\ IsFiniteSet(Founders) /\ Cardinality(Founders) \in Nat
         /\ Cardinality(founding) \in Nat
<1>1. \A c \in Codes \cup {"founder"} : R!Via(c) \in SUBSET R!Accounts
  BY DEF R!Via, R!Accounts
<1>2. \A c \in Codes : R!Holding(c) \in SUBSET R!Reserved
  BY DEF R!Holding
<1>3. Founders \in SUBSET R!Reserved
  BY DEF Founders
<1> QED
  BY <1>1, <1>2, <1>3, FS_Subset, FS_CardinalityType DEF RegistrationTypes

\* What the invites have admitted, one by one.
Accounted(c) ==
  /\ invite[c].uses <= invite[c].max
  /\ Cardinality(R!Via(c)) + Cardinality(R!Holding(c)) <= invite[c].uses
  /\ \/ Cardinality(R!Via(c)) + Cardinality(R!Holding(c)) = invite[c].uses
     \/ c \in burnt

LEMMA EachAccounted ==
  /\ R!InvitesAccounted <=> \A c \in Codes : Accounted(c)
  /\ R!InvitesAccounted' <=> \A c \in Codes : Accounted(c)'
<1>1. R!InvitesAccounted <=> \A c \in Codes : Accounted(c)
  BY SameCount DEF R!InvitesAccounted, Accounted
<1>2. R!InvitesAccounted' <=> (\A c \in Codes : Accounted(c))'
  BY SameCount DEF R!InvitesAccounted, Accounted
<1> QED
  BY <1>1, <1>2

\* Steps that neither admit anybody nor get anybody past the hook.
LEMMA NobodyAdmitted ==
  ASSUME RegistrationInv, UNCHANGED <<account, founding, burnt>>,
         signup' \in [Signups -> Request],
         \A s \in Signups : IF signup[s].pc = "reserved" THEN signup'[s] = signup[s]
                            ELSE signup'[s].pc # "reserved",
         \A s \in Signups : signup'[s].pc # "idle" => signup'[s].name \in Names,
         invite' \in [Codes -> Invite]
  PROVE  /\ RegistrationTypes' /\ Racing' /\ Founded'
         /\ \A c \in Codes : /\ R!Via(c)' = R!Via(c)
                             /\ R!Holding(c)' = R!Holding(c)
<1>1. R!Accounts' = R!Accounts /\ R!Reserved' = R!Reserved
  BY DEF R!Accounts, R!Reserved
<1>2. \A s \in R!Reserved : signup'[s] = signup[s]
  BY DEF R!Reserved
<1>3. RegistrationTypes'
  BY <1>1 DEF RegistrationInv, RegistrationTypes
<1>4. Racing'
  BY <1>1, <1>2 DEF RegistrationInv, Racing
<1>5. Founders' = Founders /\ R!Via("founder")' = R!Via("founder")
  BY <1>1, <1>2 DEF Founders, R!Via
<1>6. Founded'
  BY <1>1, <1>2, <1>5 DEF RegistrationInv, Founded
<1>7. ASSUME NEW c \in Codes
      PROVE  R!Via(c)' = R!Via(c) /\ R!Holding(c)' = R!Holding(c)
  BY <1>1, <1>2 DEF R!Via, R!Holding
<1> QED
  BY <1>3, <1>4, <1>6, <1>7

\* A sign-up gets past the hook with a code, or with none.
LEMMA PastHook ==
  ASSUME RegistrationInv, NEW s \in Signups, NEW code \in Codes \cup {"none"},
         signup[s].pc = "posted", UNCHANGED account,
         signup' = [signup EXCEPT ![s].pc = "reserved", ![s].code = code]
  PROVE  /\ signup' \in [Signups -> Request]
         /\ signup'[s].name = signup[s].name /\ signup'[s].code = code
         /\ signup[s].name \in Names
         /\ \A r \in Signups : r # s => signup'[r] = signup[r]
         /\ s \notin R!Reserved /\ R!Reserved' = R!Reserved \cup {s}
         /\ R!Accounts' = R!Accounts
         /\ \A r \in Signups : signup'[r].pc # "idle" => signup'[r].name \in Names
         /\ \A c \in Codes \cup {"founder"} : R!Via(c)' = R!Via(c)
         /\ \A c \in Codes :
              R!Holding(c)' = IF c = code THEN R!Holding(c) \cup {s} ELSE R!Holding(c)
<1> DEFINE x == [signup[s] EXCEPT !.pc = "reserved", !.code = code]
<1>1. /\ signup[s] \in Request /\ signup \in [Signups -> Request]
      /\ signup[s].name \in Names
      /\ \A r \in Signups : signup[r].pc # "idle" => signup[r].name \in Names
  BY DEF RegistrationInv, RegistrationTypes
<1>2. /\ x \in Request /\ x.pc = "reserved" /\ x.code = code
      /\ x.name = signup[s].name
  BY <1>1 DEF Request
<1>3. signup' = [signup EXCEPT ![s] = x]
  BY <1>1 DEF Request
<1> HIDE DEF x
<1>4. /\ signup' \in [Signups -> Request] /\ signup'[s] = x
      /\ \A r \in Signups : r # s => signup'[r] = signup[r]
  BY <1>1, <1>2, <1>3
<1>5. s \notin R!Reserved /\ R!Reserved' = R!Reserved \cup {s}
  BY <1>2, <1>4 DEF R!Reserved
<1>6. R!Accounts' = R!Accounts /\ \A c \in Codes \cup {"founder"} : R!Via(c)' = R!Via(c)
  BY DEF R!Accounts, R!Via
<1>7. ASSUME NEW c \in Codes
      PROVE  R!Holding(c)' =
               IF c = code THEN R!Holding(c) \cup {s} ELSE R!Holding(c)
  <2>1. R!Reserved \subseteq Signups
    BY DEF R!Reserved
  <2> QED
    BY <1>2, <1>4, <1>5, <2>1 DEF R!Holding
<1>8. \A r \in Signups : signup'[r].pc # "idle" => signup'[r].name \in Names
  BY <1>1, <1>2, <1>4
<1> QED
  BY <1>1, <1>2, <1>4, <1>5, <1>6, <1>7, <1>8

\* The hook lets a sign-up pass without a code: no account exists, or the
\* identity is taken.
LEMMA PassWithout ==
  ASSUME RegistrationInv, "none" \notin Codes, NEW s \in Signups, R!Hook(s),
         signup' = [signup EXCEPT ![s].pc = "reserved", ![s].code = "none"],
         UNCHANGED <<invite, burnt>>,
         \/ R!Accounts = {} /\ founding' = founding \cup {s}
         \/ R!Accounts # {} /\ signup[s].name \in R!Accounts /\ founding' = founding
  PROVE  RegistrationInv'
<1>1. signup[s].pc = "posted" /\ UNCHANGED account
  BY DEF R!Hook
<1>2. /\ signup' \in [Signups -> Request]
      /\ signup'[s].name = signup[s].name /\ signup'[s].code = "none"
      /\ signup[s].name \in Names
      /\ \A r \in Signups : r # s => signup'[r] = signup[r]
      /\ s \notin R!Reserved /\ R!Reserved' = R!Reserved \cup {s}
      /\ R!Accounts' = R!Accounts
      /\ \A r \in Signups : signup'[r].pc # "idle" => signup'[r].name \in Names
      /\ \A c \in Codes \cup {"founder"} : R!Via(c)' = R!Via(c)
      /\ \A c \in Codes : R!Holding(c)' =
           IF c = "none" THEN R!Holding(c) \cup {s} ELSE R!Holding(c)
  BY <1>1, PastHook
<1>3. \A r \in R!Reserved : r \in Signups /\ r # s /\ signup'[r] = signup[r]
  BY <1>2 DEF R!Reserved
<1>4. RegistrationTypes'
  <2>1. /\ IsFiniteSet(R!Reserved \cup {s})
        /\ IsFiniteSet(founding) /\ IsFiniteSet(founding \cup {s})
    BY FS_AddElement DEF RegistrationInv, RegistrationTypes
  <2> QED
    BY <1>1, <1>2, <2>1 DEF RegistrationInv, RegistrationTypes
<1>5. R!InvitesAccounted'
  <2>1. ASSUME NEW c \in Codes
        PROVE  R!Via(c)' = R!Via(c) /\ R!Holding(c)' = R!Holding(c)
    BY <1>2
  <2> QED
    BY <2>1, EachAccounted DEF RegistrationInv, Accounted
<1>6. Racing'
  <2> SUFFICES ASSUME NEW q \in R!Reserved', signup'[q].code \in Codes
               PROVE  /\ signup'[q].name \in R!Accounts' => signup'[q].code \in burnt'
                      /\ \A r \in R!Reserved' :
                           r # q /\ signup'[r].name = signup'[q].name =>
                             signup'[q].code \in burnt'
    BY DEF Racing
  <2>1. q \in R!Reserved /\ signup'[q] = signup[q]
    BY <1>2, <1>3
  <2>2. R!Accounts # {} /\ signup[s].name \in R!Accounts
    BY <2>1 DEF RegistrationInv, Founded
  <2> QED
    BY <1>2, <1>3, <2>1, <2>2 DEF RegistrationInv, Racing
<1>7. CASE R!Accounts = {} /\ founding' = founding \cup {s}
  <2>1. Founders' = Founders \cup {s}
    BY <1>2, <1>3, <1>7 DEF Founders
  <2>2. R!Via("founder") = {}
    BY <1>7 DEF R!Via, R!Accounts
  <2>3. Founders' \subseteq founding'
    BY <1>7, <2>1 DEF RegistrationInv, Founded
  <2>4. Cardinality(Founders') <= Cardinality(founding')
    BY <1>4, <2>3, FS_Subset DEF RegistrationTypes
  <2>5. Cardinality(Founders') \in Nat /\ Cardinality(R!Via("founder")') = 0
    BY <1>2, <1>4, <2>2, <2>3, FS_Subset, FS_CardinalityType, FS_EmptySet
    DEF RegistrationTypes
  <2>6. Cardinality(R!Via("founder")') + Cardinality(Founders') <= Cardinality(founding')
    BY <2>4, <2>5
  <2>7. R!Accounts = {} => \A r \in R!Reserved' : signup'[r].code = "none"
    BY <1>2, <1>3 DEF RegistrationInv, Founded
  <2> QED
    BY <1>2, <1>4, <1>5, <1>6, <2>3, <2>6, <2>7 DEF RegistrationInv, Founded
<1>8. CASE R!Accounts # {} /\ signup[s].name \in R!Accounts /\ founding' = founding
  <2>1. Founders' = Founders
    BY <1>2, <1>3, <1>8 DEF Founders
  <2> QED
    BY <1>2, <1>4, <1>5, <1>6, <1>8, <2>1 DEF RegistrationInv, Founded
<1> QED
  BY <1>7, <1>8

\* The hook takes a use of a code.
LEMMA PassWithCode ==
  ASSUME RegistrationInv, "none" \notin Codes, NEW s \in Signups, R!Hook(s),
         NEW k \in Codes, R!Accounts # {}, signup[s].name \notin R!Accounts,
         R!Consumable(k),
         signup' = [signup EXCEPT ![s].pc = "reserved", ![s].code = k],
         invite' = [invite EXCEPT ![k].uses = @ + 1],
         burnt' = IF \E r \in R!Reserved : signup[r].name = signup[s].name
                  THEN burnt \cup {k} \cup {signup[r].code : r \in R!Reserved}
                  ELSE burnt,
         founding' = founding
  PROVE  RegistrationInv'
<1>1. signup[s].pc = "posted" /\ UNCHANGED account
  BY DEF R!Hook
<1>2. /\ signup' \in [Signups -> Request]
      /\ signup'[s].name = signup[s].name /\ signup'[s].code = k
      /\ signup[s].name \in Names
      /\ \A r \in Signups : r # s => signup'[r] = signup[r]
      /\ s \notin R!Reserved /\ R!Reserved' = R!Reserved \cup {s}
      /\ R!Accounts' = R!Accounts
      /\ \A r \in Signups : signup'[r].pc # "idle" => signup'[r].name \in Names
      /\ \A c \in Codes \cup {"founder"} : R!Via(c)' = R!Via(c)
      /\ \A c \in Codes : R!Holding(c)' =
           IF c = k THEN R!Holding(c) \cup {s} ELSE R!Holding(c)
  BY <1>1, PastHook
<1>3. \A r \in R!Reserved : r \in Signups /\ r # s /\ signup'[r] = signup[r]
  BY <1>2 DEF R!Reserved
<1>4. /\ invite[k] \in Invite /\ invite[k].uses < invite[k].max
      /\ invite' \in [Codes -> Invite]
      /\ invite'[k].max = invite[k].max /\ invite'[k].uses = invite[k].uses + 1
      /\ \A c \in Codes : c # k => invite'[c] = invite[c]
  BY DEF RegistrationInv, RegistrationTypes, Invite, R!Consumable
<1>5. burnt \subseteq burnt'
  OBVIOUS
<1>6. RegistrationTypes'
  <2>1. IsFiniteSet(R!Reserved')
    BY <1>2, FS_AddElement DEF RegistrationInv, RegistrationTypes
  <2> QED
    BY <1>1, <1>2, <1>4, <2>1 DEF RegistrationInv, RegistrationTypes
<1>7. R!InvitesAccounted'
  <2>1. ASSUME NEW c \in Codes PROVE Accounted(c)'
    <3>1. Accounted(c)
      BY EachAccounted DEF RegistrationInv
    <3>2. CASE c # k
      BY <1>2, <1>4, <1>5, <3>1, <3>2 DEF Accounted
    <3>3. CASE c = k
      <4>1. R!Holding(k)' = R!Holding(k) \cup {s} /\ s \notin R!Holding(k)
        BY <1>2 DEF R!Holding
      <4>2. IsFiniteSet(R!Holding(k)) /\ Cardinality(R!Holding(k)) \in Nat
            /\ Cardinality(R!Via(k)) \in Nat
        BY Counted DEF RegistrationInv
      <4>3. Cardinality(R!Holding(k)') = Cardinality(R!Holding(k)) + 1
        BY <4>1, <4>2, FS_AddElement
      <4>4. Cardinality(R!Via(k)') = Cardinality(R!Via(k))
        BY <1>2
      <4>5. invite[k].uses \in Nat /\ invite[k].max \in Nat
        BY <1>4 DEF Invite
      <4> QED
        BY <1>4, <1>5, <3>1, <3>3, <4>2, <4>3, <4>4, <4>5 DEF Accounted
    <3> QED
      BY <3>2, <3>3
  <2> QED
    BY <2>1, EachAccounted
<1>8. Racing'
  <2> SUFFICES ASSUME NEW q \in R!Reserved', signup'[q].code \in Codes
               PROVE  /\ signup'[q].name \in R!Accounts' => signup'[q].code \in burnt'
                      /\ \A r \in R!Reserved' :
                           r # q /\ signup'[r].name = signup'[q].name =>
                             signup'[q].code \in burnt'
    BY DEF Racing
  <2>1. CASE q = s
    BY <1>2, <1>3, <2>1
  <2>2. CASE q # s
    <3>1. q \in R!Reserved /\ signup'[q] = signup[q]
      BY <1>2, <1>3, <2>2
    <3>2. ASSUME signup[s].name = signup[q].name
          PROVE  signup[q].code \in burnt'
      BY <3>1, <3>2
    <3> QED
      BY <1>2, <1>3, <1>5, <3>1, <3>2 DEF RegistrationInv, Racing
  <2> QED
    BY <2>1, <2>2
<1>9. Founders' = Founders
  BY <1>2, <1>3 DEF Founders
<1> QED
  BY <1>2, <1>6, <1>7, <1>8, <1>9 DEF RegistrationInv, Founded

\* The INSERT admits a sign-up, or fails because its identity is taken.
LEMMA Inserted ==
  ASSUME RegistrationInv, "none" \notin Codes, "founder" \notin Codes,
         NEW s \in Signups, R!Insert(s)
  PROVE  RegistrationInv'
<1> DEFINE n == signup[s].name
           k == signup[s].code
<1>1. /\ signup[s].pc = "reserved" /\ UNCHANGED <<invite, burnt, founding>>
      /\ signup' = [signup EXCEPT ![s] = R!Idle]
      /\ account' = IF n \in R!Accounts THEN account
                    ELSE [account EXCEPT ![n] = IF k = "none" THEN "founder" ELSE k]
  BY DEF R!Insert
<1>2. /\ n \in Names /\ k \in Codes \cup {"none"} /\ s \in R!Reserved
      /\ R!Idle \in Request /\ R!Idle.pc = "idle"
  BY <1>1 DEF RegistrationInv, RegistrationTypes, Request, R!Reserved, R!Idle
<1> HIDE DEF n, k
<1>3. /\ R!Reserved' = R!Reserved \ {s} /\ R!Reserved \subseteq Signups
      /\ \A r \in R!Reserved' : signup'[r] = signup[r]
  BY <1>1, <1>2 DEF RegistrationInv, RegistrationTypes, R!Reserved
<1>4. /\ account' \in [Names -> Codes \cup {"none", "founder"}]
      /\ R!Accounts' = R!Accounts \cup {n}
  <2>1. CASE n \in R!Accounts
    BY <1>1, <2>1 DEF R!Accounts, RegistrationInv, RegistrationTypes
  <2>2. CASE n \notin R!Accounts
    <3> DEFINE how == IF k = "none" THEN "founder" ELSE k
    <3>1. how \in Codes \cup {"founder"} /\ how # "none"
      BY <1>2
    <3>2. account' = [account EXCEPT ![n] = how]
      BY <1>1, <2>2
    <3> HIDE DEF how
    <3> QED
      BY <1>2, <3>1, <3>2 DEF R!Accounts, RegistrationInv, RegistrationTypes
  <2> QED
    BY <2>1, <2>2
<1>5. RegistrationTypes'
  <2>1. IsFiniteSet(R!Accounts \cup {n}) /\ IsFiniteSet(R!Reserved \ {s})
    BY FS_AddElement, FS_RemoveElement DEF RegistrationInv, RegistrationTypes
  <2>2. /\ signup' \in [Signups -> Request]
        /\ \A r \in Signups : signup'[r].pc # "idle" => signup'[r].name \in Names
    BY <1>1, <1>2 DEF RegistrationInv, RegistrationTypes
  <2> QED
    BY <1>1, <1>3, <1>4, <2>1, <2>2 DEF RegistrationInv, RegistrationTypes
<1>6. \A c \in Codes \cup {"founder"} :
        R!Via(c)' = IF n \notin R!Accounts /\ c = IF k = "none" THEN "founder" ELSE k
                    THEN R!Via(c) \cup {n} ELSE R!Via(c)
  <2>1. CASE n \in R!Accounts
    BY <1>1, <2>1 DEF R!Via
  <2>2. CASE n \notin R!Accounts
    <3> DEFINE how == IF k = "none" THEN "founder" ELSE k
    <3>1. account[n] = "none" /\ account \in [Names -> Codes \cup {"none", "founder"}]
      BY <1>2, <2>2 DEF R!Accounts, RegistrationInv, RegistrationTypes
    <3>2. account' = [account EXCEPT ![n] = how]
      BY <1>1, <2>2
    <3> HIDE DEF how
    <3>3. \A c \in Codes \cup {"founder"} :
            R!Via(c)' = IF c = how THEN R!Via(c) \cup {n} ELSE R!Via(c)
      BY <1>2, <3>1, <3>2 DEF R!Via
    <3> QED
      BY <2>2, <3>3 DEF how
  <2> QED
    BY <2>1, <2>2
<1>7. \A c \in Codes : R!Holding(c)' =
        IF c = k THEN R!Holding(c) \ {s} ELSE R!Holding(c)
  BY <1>3 DEF R!Holding, k
<1>8. R!InvitesAccounted'
  <2>1. ASSUME NEW c \in Codes PROVE Accounted(c)'
    <3>1. Accounted(c)
      BY EachAccounted DEF RegistrationInv
    <3>2. CASE c # k
      <4>1. R!Via(c)' = R!Via(c) /\ R!Holding(c)' = R!Holding(c)
        BY <1>6, <1>7, <3>2
      <4> QED
        BY <1>1, <3>1, <4>1 DEF Accounted
    <3>3. CASE c = k
      <4>1. R!Holding(c)' = R!Holding(c) \ {s} /\ s \in R!Holding(c)
        BY <1>2, <1>7, <3>3 DEF R!Holding, k
      <4>2. /\ IsFiniteSet(R!Holding(c)) /\ Cardinality(R!Holding(c)) \in Nat
            /\ IsFiniteSet(R!Via(c)) /\ Cardinality(R!Via(c)) \in Nat
        BY <3>3, Counted DEF RegistrationInv
      <4>3. Cardinality(R!Holding(c)') = Cardinality(R!Holding(c)) - 1
        BY <4>1, <4>2, FS_RemoveElement
      <4>4. invite[c] \in Invite /\ invite' = invite /\ burnt' = burnt
        BY <1>1, <3>3 DEF RegistrationInv, RegistrationTypes
      <4>5. CASE n \in R!Accounts
        <5>1. R!Via(c)' = R!Via(c)
          BY <1>6, <3>3, <4>5
        <5>2. c \in burnt
          BY <1>2, <3>3, <4>5 DEF RegistrationInv, Racing, n, k
        <5>3. /\ invite[c].uses \in Nat /\ invite[c].uses <= invite[c].max
              /\ Cardinality(R!Via(c)) + Cardinality(R!Holding(c)) <= invite[c].uses
          BY <3>1, <3>3, <4>4 DEF Accounted, Invite
        <5>4. Cardinality(R!Via(c)) + (Cardinality(R!Holding(c)) - 1) <= invite[c].uses
          BY <4>2, <5>3
        <5> QED
          BY <3>3, <4>3, <4>4, <5>1, <5>2, <5>3, <5>4 DEF Accounted
      <4>6. CASE n \notin R!Accounts
        <5>1. R!Via(c)' = R!Via(c) \cup {n}
          BY <1>2, <1>6, <3>3, <4>6
        <5>2. n \notin R!Via(c)
          BY <3>3, <4>6 DEF R!Via, R!Accounts
        <5>3. Cardinality(R!Via(c)') = Cardinality(R!Via(c)) + 1
          BY <4>2, <5>1, <5>2, FS_AddElement
        <5>4. Cardinality(R!Via(c)') + Cardinality(R!Holding(c)') =
                Cardinality(R!Via(c)) + Cardinality(R!Holding(c))
          BY <4>2, <4>3, <5>3
        <5> QED
          BY <3>1, <3>3, <4>4, <5>4 DEF Accounted
      <4> QED
        BY <4>5, <4>6
    <3> QED
      BY <3>2, <3>3
  <2> QED
    BY <2>1, EachAccounted
<1>9. Racing'
  <2> SUFFICES ASSUME NEW q \in R!Reserved', signup'[q].code \in Codes
               PROVE  /\ signup'[q].name \in R!Accounts' => signup'[q].code \in burnt'
                      /\ \A r \in R!Reserved' :
                           r # q /\ signup'[r].name = signup'[q].name =>
                             signup'[q].code \in burnt'
    BY DEF Racing
  <2>1. q \in R!Reserved /\ q # s /\ signup'[q] = signup[q] /\ burnt' = burnt
    BY <1>1, <1>3
  <2>2. signup[q].name = n => signup[q].code \in burnt
    BY <1>2, <2>1 DEF RegistrationInv, Racing, n
  <2> QED
    BY <1>3, <1>4, <2>1, <2>2 DEF RegistrationInv, Racing
<1>10. Founded'
  <2>1. Founders' \subseteq Founders
    BY <1>3, <1>4 DEF Founders
  <2>2. /\ IsFiniteSet(Founders) /\ Cardinality(Founders) \in Nat
        /\ IsFiniteSet(R!Via("founder")) /\ Cardinality(R!Via("founder")) \in Nat
        /\ Cardinality(founding) \in Nat
        /\ Cardinality(R!Via("founder")) + Cardinality(Founders) <= Cardinality(founding)
        /\ Founders \subseteq founding
    BY Counted DEF RegistrationInv, Founded
  <2>3. Cardinality(Founders') \in Nat
    BY <2>1, <2>2, FS_Subset, FS_CardinalityType
  <2>4. Cardinality(R!Via("founder")') + Cardinality(Founders') <= Cardinality(founding)
    <3>1. CASE n \notin R!Accounts /\ k = "none"
      <4>1. s \in Founders /\ s \notin Founders'
        BY <1>2, <1>3, <3>1 DEF Founders, n, k
      <4>2. Cardinality(Founders \ {s}) = Cardinality(Founders) - 1
            /\ IsFiniteSet(Founders \ {s})
        BY <2>2, <4>1, FS_RemoveElement
      <4>3. Cardinality(Founders') <= Cardinality(Founders) - 1
        BY <2>1, <4>1, <4>2, FS_Subset
      <4>4. R!Via("founder")' = R!Via("founder") \cup {n} /\ n \notin R!Via("founder")
        BY <1>6, <3>1 DEF R!Via, R!Accounts
      <4>5. Cardinality(R!Via("founder")') = Cardinality(R!Via("founder")) + 1
        BY <2>2, <4>4, FS_AddElement
      <4> QED
        BY <2>2, <2>3, <4>3, <4>5
    <3>2. CASE ~(n \notin R!Accounts /\ k = "none")
      <4>1. R!Via("founder")' = R!Via("founder")
        BY <1>2, <1>6, <3>2
      <4>2. Cardinality(Founders') <= Cardinality(Founders)
        BY <2>1, <2>2, FS_Subset
      <4> QED
        BY <2>2, <2>3, <4>1, <4>2
    <3> QED
      BY <3>1, <3>2
  <2> QED
    BY <1>1, <1>4, <2>1, <2>2, <2>4 DEF Founded
<1> QED
  BY <1>5, <1>8, <1>9, <1>10 DEF RegistrationInv

\* The process stops: whoever was past the hook holds no use any more.
LEMMA Stopped ==
  ASSUME RegistrationInv, "none" \notin Codes, R!Stop
  PROVE  RegistrationInv'
<1>1. /\ signup' = [s \in Signups |-> R!Idle]
      /\ burnt' = burnt \cup {signup[s].code : s \in R!Reserved}
      /\ UNCHANGED <<account, invite, founding>>
      /\ R!Idle \in Request /\ R!Idle.pc = "idle"
  BY DEF R!Stop, R!Idle, Request
<1>2. R!Reserved' = {} /\ R!Accounts' = R!Accounts /\ Founders' = {}
  BY <1>1 DEF R!Reserved, R!Accounts, Founders
<1>3. \A c \in Codes \cup {"founder"} : R!Via(c)' = R!Via(c)
  BY <1>1 DEF R!Via
<1>4. RegistrationTypes'
  BY <1>1, <1>2, FS_EmptySet DEF RegistrationInv, RegistrationTypes
<1>5. R!InvitesAccounted'
  <2>1. ASSUME NEW c \in Codes PROVE Accounted(c)'
    <3>1. Accounted(c)
      BY EachAccounted DEF RegistrationInv
    <3>2. /\ Cardinality(R!Holding(c)) \in Nat /\ Cardinality(R!Via(c)) \in Nat
          /\ IsFiniteSet(R!Holding(c)) /\ invite[c].uses \in Nat
      BY Counted DEF RegistrationInv, RegistrationTypes, Invite
    <3>3. R!Holding(c)' = {}
      BY <1>2 DEF R!Holding
    <3>4. Cardinality(R!Holding(c)') = 0
      BY <3>3, FS_EmptySet
    <3>5. R!Via(c)' = R!Via(c) /\ invite' = invite
      BY <1>1, <1>3
    <3>6. Cardinality(R!Via(c)') + Cardinality(R!Holding(c)') <= invite'[c].uses
      BY <3>1, <3>2, <3>4, <3>5 DEF Accounted
    <3>7. CASE R!Holding(c) = {}
      BY <1>1, <3>1, <3>3, <3>5, <3>7 DEF Accounted
    <3>8. CASE R!Holding(c) # {}
      <4>1. c \in burnt'
        BY <1>1, <3>8 DEF R!Holding
      <4> QED
        BY <3>1, <3>5, <3>6, <4>1 DEF Accounted
    <3> QED
      BY <3>7, <3>8
  <2> QED
    BY <2>1, EachAccounted
<1>6. Racing'
  BY <1>2 DEF Racing
<1>7. Founded'
  <2>1. /\ Cardinality(R!Via("founder")) \in Nat /\ Cardinality(Founders) \in Nat
        /\ Cardinality(founding) \in Nat
    BY Counted DEF RegistrationInv
  <2>2. Cardinality(R!Via("founder")) <= Cardinality(founding)
    BY <2>1 DEF RegistrationInv, Founded
  <2>3. Cardinality(R!Via("founder")') + Cardinality(Founders') <= Cardinality(founding')
    BY <1>1, <1>2, <1>3, <2>1, <2>2, FS_EmptySet
  <2> QED
    BY <1>2, <2>3 DEF Founded
<1> QED
  BY <1>4, <1>5, <1>6, <1>7 DEF RegistrationInv

\* The remaining steps: an invite is made or retired, a form is posted, a
\* sign-up is refused.
LEMMA Elsewhere ==
  ASSUME RegistrationInv, MaxUses \in Nat,
         \/ \E c \in Codes, n \in 1 .. MaxUses : R!Mint(c, n)
         \/ \E c \in Codes : R!Retire(c)
         \/ \E s \in Signups, n \in Names, c \in Codes \cup {"none"} : R!SignUp(s, n, c)
         \/ UNCHANGED R!regVars
         \/ \E s \in Signups : /\ signup[s].pc = "posted"
                               /\ signup' = [signup EXCEPT ![s] = R!Idle]
                               /\ UNCHANGED <<account, invite, burnt, founding>>
  PROVE  RegistrationInv'
<1>1. /\ signup \in [Signups -> Request] /\ invite \in [Codes -> Invite]
      /\ \A s \in Signups : signup[s].pc # "idle" => signup[s].name \in Names
      /\ R!Idle \in Request /\ R!Idle.pc = "idle"
  BY DEF RegistrationInv, RegistrationTypes, R!Idle, Request
<1>2. ASSUME UNCHANGED <<account, founding, burnt>>,
             signup' \in [Signups -> Request],
             \A s \in Signups : IF signup[s].pc = "reserved" THEN signup'[s] = signup[s]
                                ELSE signup'[s].pc # "reserved",
             \A s \in Signups : signup'[s].pc # "idle" => signup'[s].name \in Names,
             invite' \in [Codes -> Invite],
             \A c \in Codes : \/ /\ invite'[c].max = invite[c].max
                                 /\ invite'[c].uses = invite[c].uses
                              \/ invite[c] = R!NoInvite /\ invite'[c].uses = 0
      PROVE  RegistrationInv'
  <2>1. /\ RegistrationTypes' /\ Racing' /\ Founded'
        /\ \A c \in Codes : R!Via(c)' = R!Via(c) /\ R!Holding(c)' = R!Holding(c)
    BY <1>2, NobodyAdmitted
  <2>2. ASSUME NEW c \in Codes PROVE Accounted(c)'
    <3>1. Accounted(c) /\ R!Via(c)' = R!Via(c) /\ R!Holding(c)' = R!Holding(c)
      BY <2>1, EachAccounted DEF RegistrationInv
    <3>2. CASE /\ invite'[c].max = invite[c].max
               /\ invite'[c].uses = invite[c].uses
      BY <1>2, <3>1, <3>2 DEF Accounted
    <3>3. CASE invite[c] = R!NoInvite /\ invite'[c].uses = 0
      BY <1>2, <3>1, <3>3 DEF Accounted, R!NoInvite, Invite
    <3> QED
      BY <1>2, <3>2, <3>3
  <2> QED
    BY <2>1, <2>2, EachAccounted DEF RegistrationInv
<1>3. ASSUME UNCHANGED <<account, founding, burnt, signup>>,
             invite' \in [Codes -> Invite],
             \A c \in Codes : \/ /\ invite'[c].max = invite[c].max
                                 /\ invite'[c].uses = invite[c].uses
                              \/ invite[c] = R!NoInvite /\ invite'[c].uses = 0
      PROVE  RegistrationInv'
  BY <1>1, <1>2, <1>3
<1>4. ASSUME NEW c \in Codes, NEW n \in 1 .. MaxUses, R!Mint(c, n)
      PROVE  RegistrationInv'
  <2> DEFINE new == [max |-> n, uses |-> 0, live |-> TRUE]
  <2>1. new \in Invite /\ new.uses = 0
    BY DEF Invite
  <2>2. invite' = [invite EXCEPT ![c] = new] /\ invite[c] = R!NoInvite
        /\ UNCHANGED <<account, founding, burnt, signup>>
    BY <1>4 DEF R!Mint
  <2> HIDE DEF new
  <2> QED
    BY <1>1, <1>3, <2>1, <2>2
<1>5. ASSUME NEW c \in Codes, R!Retire(c)
      PROVE  RegistrationInv'
  <2> DEFINE new == [invite[c] EXCEPT !.live = FALSE]
  <2>1. new \in Invite /\ new.max = invite[c].max /\ new.uses = invite[c].uses
    BY <1>1 DEF Invite
  <2>2. invite' = [invite EXCEPT ![c] = new]
        /\ UNCHANGED <<account, founding, burnt, signup>>
    BY <1>5 DEF R!Retire
  <2> HIDE DEF new
  <2> QED
    BY <1>1, <1>3, <2>1, <2>2
<1>6. ASSUME NEW s \in Signups, NEW x \in Request,
             signup[s].pc # "reserved", x.pc # "reserved",
             x.pc # "idle" => x.name \in Names,
             signup' = [signup EXCEPT ![s] = x],
             UNCHANGED <<account, invite, founding, burnt>>
      PROVE  RegistrationInv'
  <2>1. /\ signup' \in [Signups -> Request] /\ signup'[s] = x
        /\ \A r \in Signups : r # s => signup'[r] = signup[r]
    BY <1>1, <1>6
  <2>2. \A r \in Signups : IF signup[r].pc = "reserved" THEN signup'[r] = signup[r]
                           ELSE signup'[r].pc # "reserved"
    BY <1>6, <2>1
  <2>3. \A r \in Signups : signup'[r].pc # "idle" => signup'[r].name \in Names
    BY <1>1, <1>6, <2>1
  <2> QED
    BY <1>1, <1>2, <1>6, <2>1, <2>2, <2>3
<1>7. ASSUME NEW s \in Signups, NEW n \in Names, NEW c \in Codes \cup {"none"},
             R!SignUp(s, n, c)
      PROVE  RegistrationInv'
  <2> DEFINE x == [pc |-> "posted", name |-> n, code |-> c]
  <2>1. x \in Request /\ x.pc = "posted" /\ x.name \in Names
    BY DEF Request
  <2>2. /\ signup' = [signup EXCEPT ![s] = x] /\ signup[s].pc = "idle"
        /\ UNCHANGED <<account, invite, founding, burnt>>
    BY <1>1, <1>7 DEF R!SignUp
  <2> HIDE DEF x
  <2> QED
    BY <1>6, <2>1, <2>2
<1>8. ASSUME UNCHANGED R!regVars
      PROVE  RegistrationInv'
  <2>1. UNCHANGED <<account, invite, signup, burnt, founding>>
    BY <1>8 DEF R!regVars
  <2> QED
    BY <1>1, <1>3, <2>1
<1>9. ASSUME NEW s \in Signups, signup[s].pc = "posted",
             signup' = [signup EXCEPT ![s] = R!Idle],
             UNCHANGED <<account, invite, burnt, founding>>
      PROVE  RegistrationInv'
  BY <1>1, <1>6, <1>9
<1> QED
  BY <1>4, <1>5, <1>7, <1>8, <1>9

LEMMA RegistrationStep ==
  ASSUME RegistrationInv, "none" \notin Codes, "founder" \notin Codes,
         MaxUses \in Nat, [R!Next]_(R!regVars)
  PROVE  RegistrationInv'
<1>1. ASSUME NEW s \in Signups, R!Hook(s)
      PROVE  RegistrationInv'
  <2>1. CASE /\ signup' = [signup EXCEPT ![s].pc = "reserved", ![s].code = "none"]
             /\ UNCHANGED <<invite, burnt>>
             /\ \/ R!Accounts = {} /\ founding' = founding \cup {s}
                \/ /\ R!Accounts # {} /\ signup[s].name \in R!Accounts
                   /\ founding' = founding
    BY <1>1, <2>1, PassWithout
  <2>2. CASE /\ R!Accounts # {} /\ signup[s].name \notin R!Accounts
             /\ R!Consumable(signup[s].code)
             /\ signup' = [signup EXCEPT ![s].pc = "reserved", ![s].code = signup[s].code]
             /\ invite' = [invite EXCEPT ![signup[s].code].uses = @ + 1]
             /\ burnt' = IF \E r \in R!Reserved : signup[r].name = signup[s].name
                         THEN burnt \cup {signup[s].code}
                                    \cup {signup[r].code : r \in R!Reserved}
                         ELSE burnt
             /\ founding' = founding
    <3>1. PICK k \in Codes : k = signup[s].code
      BY <2>2 DEF R!Consumable
    <3> QED
      BY <1>1, <2>2, <3>1, PassWithCode
  <2>3. CASE /\ signup[s].pc = "posted" /\ signup' = [signup EXCEPT ![s] = R!Idle]
             /\ UNCHANGED <<account, invite, burnt, founding>>
    BY <2>3, Elsewhere
  <2> QED
    BY <1>1, <2>1, <2>2, <2>3 DEF R!Hook
<1> QED
  BY <1>1, Inserted, Stopped, Elsewhere DEF R!Next

LEMMA RegistrationInit ==
  ASSUME "none" \notin Codes, "founder" \notin Codes, MaxUses \in Nat, R!Init
  PROVE  RegistrationInv
<1>1. R!Idle \in Request /\ R!Idle.pc = "idle" /\ R!NoInvite \in Invite
  BY DEF R!Idle, R!NoInvite, Request, Invite
<1>2. /\ R!Accounts = {} /\ R!Reserved = {} /\ Founders = {} /\ founding = {}
      /\ \A c \in Codes \cup {"founder"} : R!Via(c) = {}
      /\ \A c \in Codes : R!Holding(c) = {}
  BY <1>1 DEF R!Init, R!Accounts, R!Reserved, Founders, R!Via, R!Holding
<1>3. IsFiniteSet({}) /\ Cardinality({}) = 0
  BY FS_EmptySet
<1>4. RegistrationTypes
  BY <1>1, <1>2, <1>3 DEF R!Init, RegistrationTypes
<1>5. \A c \in Codes : Accounted(c)
  BY <1>2, <1>3 DEF R!Init, Accounted, R!NoInvite
<1>6. Founded /\ Racing
  BY <1>2, <1>3 DEF Founded, Racing
<1> QED
  BY <1>4, <1>5, <1>6, EachAccounted DEF RegistrationInv

LEMMA AdmissionsCounted ==
  ASSUME "none" \notin Codes, RegistrationInv
  PROVE  R!AdmissionsAccounted
<1>1. /\ Cardinality(R!Via("founder")) \in Nat /\ Cardinality(Founders) \in Nat
      /\ Cardinality(founding) \in Nat
      /\ Cardinality(R!Via("founder")) + Cardinality(Founders) <= Cardinality(founding)
  BY Counted DEF RegistrationInv, Founded
<1>2. Cardinality(R!Via("founder")) <= Cardinality(founding)
  BY <1>1
<1>3. founding = {} => Cardinality(founding) = 0
  BY FS_EmptySet
<1>4. R!OneFounder
  BY <1>2, <1>3, SameCount DEF R!OneFounder
<1> QED
  BY <1>4 DEF R!AdmissionsAccounted, RegistrationInv

-----------------------------------------------------------------------------
(* Limits.                                                                 *)

\* The values that the callers of the limiter give.
LimitNumbers ==
  /\ Limit \in Nat \ {0} /\ MaxAge \in Nat /\ MaxDelay \in Nat /\ MaxTime \in Nat
  /\ Widths \subseteq Nat

Since(x, d) == {t \in L!Times : t + d >= x}
Stamped == [L!Times -> 0 .. Limit + 1]
Caller == [st : {"idle", "waiting", "asked"}, at : Nat]

LimitTypes ==
  /\ mode \in {"memory", "redis", "socket"} /\ window \in Nat
  /\ now \in L!Times /\ expiry \in Nat
  /\ check \in [Checks -> Caller]
  /\ kept \in Stamped /\ granted \in Stamped

\* A script runs within MaxDelay of the time its caller has read, and the key
\* in Redis outlives the window of whoever was let in.
Timely ==
  /\ \A k \in Checks :
       /\ check[k].st # "idle" => mode = "redis"
       /\ check[k].st = "asked" => check[k].at <= now /\ now <= check[k].at + MaxDelay
  /\ expiry <= now + window
  /\ \A t \in L!Times : granted[t] > 0 =>
       t <= now /\ (mode = "redis" => t + window <= expiry)
  /\ L!Count(kept, L!Times) <= Limit

\* Whoever was let in is still counted, ...
GrantsKept ==
  forgot = {} /\ ~merged =>
    \A x \in Nat : x + window > now + L!Delay =>
      L!Count(granted, Since(x, 0)) <= L!Count(kept, Since(x, L!Delay))

\* ... and whatever counts was let in, no earlier than its stamp says.
KeptGranted ==
  ~unsaid =>
    \A x \in Nat : x + window + L!Delay > now =>
      L!Count(kept, Since(x, 0)) <= L!Count(granted, Since(x, 0))

CleansOld == window <= MaxAge => "cleanup" \notin forgot

LimitInv == LimitTypes /\ Timely /\ GrantsKept /\ KeptGranted /\ CleansOld

LEMMA SizeIsCardinality == \A Z : L!Cardinality(Z) = Cardinality(Z)
  BY DEF Cardinality, L!Cardinality

LEMMA StampsFinite ==
  ASSUME LimitNumbers, NEW f, NEW X \in SUBSET L!Times
  PROVE  IsFiniteSet(L!Stamps(f, X)) /\ L!Count(f, X) \in Nat
<1>1. IsFiniteSet(L!Times) /\ IsFiniteSet(1 .. Limit + 1)
  BY FS_Interval DEF LimitNumbers, L!Times
<1>2. IsFiniteSet(X \X (1 .. Limit + 1))
  BY <1>1, FS_Subset, FS_Product
<1>3. IsFiniteSet(L!Stamps(f, X))
  BY <1>2, FS_Subset DEF L!Stamps
<1> QED
  BY <1>3, FS_CardinalityType, SizeIsCardinality DEF L!Count

\* More stamps count for more.
LEMMA CountMore ==
  ASSUME LimitNumbers, NEW f, NEW g, NEW X \in SUBSET L!Times, NEW Y \in SUBSET L!Times,
         L!Stamps(f, X) \subseteq L!Stamps(g, Y)
  PROVE  /\ L!Count(f, X) \in Nat /\ L!Count(g, Y) \in Nat
         /\ L!Count(f, X) <= L!Count(g, Y)
         /\ L!Stamps(f, X) # L!Stamps(g, Y) => L!Count(f, X) < L!Count(g, Y)
<1>1. IsFiniteSet(L!Stamps(f, X)) /\ IsFiniteSet(L!Stamps(g, Y))
  BY StampsFinite
<1>2. /\ Cardinality(L!Stamps(f, X)) \in Nat /\ Cardinality(L!Stamps(g, Y)) \in Nat
      /\ Cardinality(L!Stamps(f, X)) <= Cardinality(L!Stamps(g, Y))
      /\ Cardinality(L!Stamps(f, X)) = Cardinality(L!Stamps(g, Y)) =>
           L!Stamps(f, X) = L!Stamps(g, Y)
  BY <1>1, FS_CardinalityType, FS_Subset
<1> QED
  BY <1>2, SizeIsCardinality DEF L!Count

\* One stamp more.
LEMMA CountOne ==
  ASSUME LimitNumbers, NEW f \in Stamped, NEW t \in L!Times, f[t] <= Limit,
         NEW X \in SUBSET L!Times
  PROVE  LET g == [f EXCEPT ![t] = @ + 1]
         IN  /\ g \in Stamped
             /\ L!Count(f, X) \in Nat
             /\ L!Count(g, X) = L!Count(f, X) + (IF t \in X THEN 1 ELSE 0)
<1> DEFINE g == [f EXCEPT ![t] = @ + 1]
           e == <<t, f[t] + 1>>
<1>1. f[t] \in Nat /\ g \in Stamped /\ g[t] = f[t] + 1
      /\ \A s \in L!Times : s # t => g[s] = f[s]
  BY DEF Stamped, LimitNumbers
<1>2. L!Count(f, X) \in Nat /\ IsFiniteSet(L!Stamps(f, X))
  BY StampsFinite
<1>3. e \notin L!Stamps(f, X)
  BY <1>1 DEF L!Stamps
<1>4. CASE t \in X
  <2>1. L!Stamps(g, X) = L!Stamps(f, X) \cup {e}
    <3>1. f[t] + 1 \in 1 .. Limit + 1
      BY <1>1 DEF LimitNumbers
    <3>2. ASSUME NEW s \in X, NEW i \in 1 .. Limit + 1
          PROVE  i <= g[s] <=> i <= f[s] \/ (s = t /\ i = f[t] + 1)
      <4>1. CASE s = t
        BY <1>1, <4>1
      <4>2. CASE s # t
        BY <1>1, <4>2
      <4> QED
        BY <4>1, <4>2
    <3> QED
      BY <1>4, <3>1, <3>2 DEF L!Stamps
  <2>2. Cardinality(L!Stamps(g, X)) = Cardinality(L!Stamps(f, X)) + 1
    <3> HIDE DEF e, g
    <3> QED
      BY <1>2, <1>3, <2>1, FS_AddElement
  <2>3. L!Count(g, X) = L!Count(f, X) + 1
    BY <2>2, SizeIsCardinality DEF L!Count
  <2> QED
    BY <1>1, <1>2, <1>4, <2>3
<1>5. CASE t \notin X
  <2>1. L!Stamps(g, X) = L!Stamps(f, X)
    BY <1>1, <1>5 DEF L!Stamps
  <2> QED
    BY <1>1, <1>2, <1>5, <2>1 DEF L!Count
<1> QED
  BY <1>4, <1>5

\* The stamps g are f with n more, none or one, at t.
Adds(f, t, n, g) ==
  /\ f \in Stamped /\ t \in L!Times
  /\ n \in {0, 1} /\ (n = 1 => f[t] <= Limit)
  /\ g = IF n = 1 THEN [f EXCEPT ![t] = @ + 1] ELSE f

LEMMA CountOneOrNone ==
  ASSUME LimitNumbers, NEW f, NEW t, NEW n, NEW g, Adds(f, t, n, g),
         NEW X \in SUBSET L!Times
  PROVE  /\ g \in Stamped /\ L!Count(f, X) \in Nat
         /\ t \in X => L!Count(g, X) = L!Count(f, X) + n
         /\ t \notin X => L!Count(g, X) = L!Count(f, X)
<1>1. CASE n = 1
  <2> DEFINE h == [f EXCEPT ![t] = @ + 1]
  <2>1. /\ h \in Stamped /\ L!Count(f, X) \in Nat
        /\ L!Count(h, X) = L!Count(f, X) + (IF t \in X THEN 1 ELSE 0)
    BY <1>1, CountOne DEF Adds
  <2> HIDE DEF h
  <2>2. g = h
    BY <1>1 DEF h, Adds
  <2> QED
    BY <1>1, <2>1, <2>2
<1>2. CASE n = 0
  <2>1. g = f /\ f \in Stamped
    BY <1>2 DEF Adds
  <2>2. L!Count(f, X) \in Nat
    BY StampsFinite
  <2> QED
    BY <1>2, <2>1, <2>2
<1> QED
  BY <1>1, <1>2 DEF Adds

\* The stamps of one time count.
LEMMA CountColumn ==
  ASSUME LimitNumbers, NEW f \in Stamped, NEW X \in SUBSET L!Times, NEW t \in X
  PROVE  f[t] <= L!Count(f, X)
<1> DEFINE n == f[t]
           h == [i \in 1 .. n |-> <<t, i>>]
<1>1. n \in Nat /\ n <= Limit + 1
  BY DEF Stamped, LimitNumbers
<1>2. h \in Injection(1 .. n, L!Stamps(f, X))
  <2>1. \A i \in 1 .. n : <<t, i>> \in L!Stamps(f, X)
    BY <1>1 DEF L!Stamps, LimitNumbers
  <2> QED
    BY <2>1 DEF Injection, IsInjective
<1>3. IsFiniteSet(L!Stamps(f, X))
  BY StampsFinite
<1>4. Cardinality(1 .. n) <= Cardinality(L!Stamps(f, X))
  BY <1>2, <1>3, FS_Injection
<1>5. Cardinality(1 .. n) = n
  BY <1>1, FS_Interval
<1> QED
  BY <1>4, <1>5, SizeIsCardinality DEF L!Count

\* The stamps f that a check looks at tell as much as those that are kept.
Carries(f) ==
  /\ f \in Stamped /\ \A t \in L!Times : f[t] <= kept[t]
  /\ forgot = {} /\ ~merged =>
       \A x \in Nat : x + window > now + L!Delay =>
         L!Count(granted, Since(x, 0)) <= L!Count(f, Since(x, L!Delay))

\* A clock that a check goes by.
Clock(at) == at \in L!Times /\ at <= now /\ now <= at + L!Delay

LEMMA DelayType == LimitNumbers => L!Delay \in Nat
  BY DEF LimitNumbers, L!Delay

LEMMA RecentCarries ==
  ASSUME LimitNumbers, LimitInv, NEW at, Clock(at), NEW f,
         \/ f = kept
         \/ mode = "redis" /\ f = L!There
  PROVE  Carries(L!Recent(f, at))
<1> DEFINE g == L!Recent(f, at)
           d == L!Delay
<1>1. /\ f \in Stamped /\ \A t \in L!Times : f[t] <= kept[t]
      /\ f = kept \/ (mode = "redis" /\ now >= expiry)
  <2>1. CASE f = kept
    BY <2>1 DEF LimitInv, LimitTypes, Stamped, LimitNumbers
  <2>2. CASE mode = "redis" /\ f = L!There
    BY <2>2 DEF LimitInv, LimitTypes, Stamped, LimitNumbers, L!There, L!Empty, L!Times
  <2> QED
    BY <2>1, <2>2
<1>2. /\ window \in Nat /\ now \in Nat /\ at \in Nat /\ d \in Nat /\ expiry \in Nat
      /\ at <= now /\ now <= at + d
      /\ \A t \in L!Times : t \in Nat
  BY DelayType DEF LimitInv, LimitTypes, LimitNumbers, Clock, L!Times
<1>3. g \in Stamped /\ \A t \in L!Times : g[t] = IF t + window > at THEN f[t] ELSE 0
  BY <1>1 DEF L!Recent, Stamped, LimitNumbers
<1>4. \A t \in L!Times : g[t] <= kept[t]
  BY <1>1, <1>3 DEF LimitInv, LimitTypes, Stamped, LimitNumbers
<1>5. ASSUME forgot = {}, ~merged, NEW x \in Nat, x + window > now + d
      PROVE  L!Count(granted, Since(x, 0)) <= L!Count(g, Since(x, d))
  <2>0. Since(x, 0) \in SUBSET L!Times /\ Since(x, d) \in SUBSET L!Times
    BY DEF Since
  <2>1. CASE f = kept
    <3>1. L!Count(granted, Since(x, 0)) <= L!Count(kept, Since(x, d))
      BY <1>5 DEF LimitInv, GrantsKept
    <3>2. \A t \in Since(x, d) : g[t] = kept[t]
      BY <1>2, <1>3, <1>5, <2>1 DEF Since
    <3>3. L!Stamps(kept, Since(x, d)) \subseteq L!Stamps(g, Since(x, d))
      BY <3>2 DEF L!Stamps
    <3>4. /\ L!Count(kept, Since(x, d)) <= L!Count(g, Since(x, d))
          /\ L!Count(kept, Since(x, d)) \in Nat /\ L!Count(g, Since(x, d)) \in Nat
      BY <2>0, <3>3, CountMore
    <3>5. L!Count(granted, Since(x, 0)) \in Nat
      BY <2>0, StampsFinite
    <3> QED
      BY <3>1, <3>4, <3>5
  <2>2. CASE mode = "redis" /\ now >= expiry
    <3>1. \A t \in Since(x, 0) : granted[t] = 0
      BY <1>2, <1>5, <2>2 DEF Since, LimitInv, Timely, LimitTypes, Stamped, LimitNumbers
    <3>2. L!Stamps(granted, Since(x, 0)) = {}
      BY <3>1 DEF L!Stamps, LimitNumbers
    <3> QED
      BY <2>0, <3>2, CountMore
  <2> QED
    BY <1>1, <2>1, <2>2
<1> QED
  BY <1>3, <1>4, <1>5 DEF Carries

\* What a check leaves behind, but for its caller.
Settled ==
  /\ kept' \in Stamped /\ granted' \in Stamped /\ expiry' \in Nat
  /\ expiry' <= now + window
  /\ \A t \in L!Times : granted'[t] > 0 =>
       t <= now /\ (mode = "redis" => t + window <= expiry')
  /\ L!Count(kept', L!Times) <= Limit
  /\ GrantsKept' /\ KeptGranted'

\* Less is kept, of what counts, and as many are granted.
LEMMA RefusedSettles ==
  ASSUME LimitNumbers, LimitInv, NEW f, Carries(f),
         kept' = f, UNCHANGED <<mode, window, now, granted, forgot, merged, expiry, unsaid>>
  PROVE  Settled
<1>1. L!Delay' = L!Delay
  BY DEF L!Delay
<1>2. \A X \in SUBSET L!Times :
        /\ L!Count(f, X) <= L!Count(kept, X)
        /\ L!Count(f, X) \in Nat /\ L!Count(kept, X) \in Nat /\ L!Count(granted, X) \in Nat
  <2> SUFFICES ASSUME NEW X \in SUBSET L!Times
               PROVE  /\ L!Count(f, X) <= L!Count(kept, X)
                      /\ L!Count(f, X) \in Nat /\ L!Count(kept, X) \in Nat
                      /\ L!Count(granted, X) \in Nat
    OBVIOUS
  <2>1. \A t \in L!Times : f[t] \in Nat /\ kept[t] \in Nat /\ f[t] <= kept[t]
    BY DEF Carries, LimitInv, LimitTypes, Stamped, LimitNumbers
  <2>2. L!Stamps(f, X) \subseteq L!Stamps(kept, X)
    BY <2>1 DEF L!Stamps
  <2> QED
    BY <2>2, CountMore, StampsFinite
<1>3. L!Count(kept', L!Times) <= Limit
  BY <1>2 DEF LimitInv, Timely, LimitNumbers
<1>4. GrantsKept'
  BY <1>1 DEF Carries, GrantsKept
<1>5. KeptGranted'
  <2> SUFFICES ASSUME ~unsaid, NEW x \in Nat, x + window + L!Delay > now
               PROVE  L!Count(f, Since(x, 0)) <= L!Count(granted, Since(x, 0))
    BY <1>1 DEF KeptGranted
  <2>1. L!Count(kept, Since(x, 0)) <= L!Count(granted, Since(x, 0))
    BY DEF LimitInv, KeptGranted
  <2>2. Since(x, 0) \in SUBSET L!Times
    BY DEF Since
  <2> QED
    BY <1>2, <2>1, <2>2
<1> QED
  BY <1>3, <1>4, <1>5 DEF Settled, LimitInv, LimitTypes, Timely, Carries

\* One stamp more: it is counted, or has fallen on another one.
LEMMA LetInSettles ==
  ASSUME LimitNumbers, LimitInv, NEW f, Carries(f), NEW at, Clock(at),
         L!Count(f, L!Times) < Limit,
         NEW same \in BOOLEAN, merged' = (merged \/ same),
         kept' = [f EXCEPT ![at] = IF same THEN @ ELSE @ + 1],
         granted' = [granted EXCEPT ![now] = L!Min({@ + 1, Limit + 1})],
         expiry' = IF mode = "redis" THEN now + window ELSE expiry,
         UNCHANGED <<mode, window, now, forgot, unsaid>>
  PROVE  Settled
<1> DEFINE d == L!Delay
<1>1. /\ window \in Nat /\ now \in Nat /\ at \in Nat /\ d \in Nat /\ expiry \in Nat
      /\ now \in L!Times /\ at \in L!Times /\ at <= now /\ now <= at + d
      /\ Limit \in Nat /\ f \in Stamped /\ granted \in Stamped
      /\ \A t \in L!Times : t \in Nat
  BY DelayType DEF LimitInv, LimitTypes, LimitNumbers, Clock, L!Times, Carries
<1>2. L!Delay' = L!Delay
  BY DEF L!Delay
<1>3. /\ f[at] <= Limit /\ f[at] \in Nat /\ granted[now] \in Nat /\ granted[now] <= Limit + 1
      /\ f \in [L!Times -> Nat] /\ granted \in [L!Times -> Nat]
  <2>1. f[at] <= L!Count(f, L!Times) /\ L!Count(f, L!Times) \in Nat
    BY <1>1, CountColumn, StampsFinite
  <2> QED
    BY <1>1, <2>1 DEF Stamped
<1>4. L!Min({granted[now] + 1, Limit + 1}) =
        IF granted[now] <= Limit THEN granted[now] + 1 ELSE granted[now]
  <2> DEFINE m == IF granted[now] <= Limit THEN granted[now] + 1 ELSE granted[now]
             Least(x) == x \in {granted[now] + 1, Limit + 1}
                       /\ \A y \in {granted[now] + 1, Limit + 1} : x <= y
  <2>1. Least(m) /\ \A x : Least(x) => x = m
    BY <1>1, <1>3
  <2>2. L!Min({granted[now] + 1, Limit + 1}) = CHOOSE x : Least(x)
    BY DEF L!Min
  <2> HIDE DEF Least
  <2> QED
    BY <2>1, <2>2
<1> DEFINE new == IF same THEN 0 ELSE 1
           one == IF granted[now] <= Limit THEN 1 ELSE 0
           h == kept'
           w == granted'
<1>5. /\ new \in {0, 1} /\ (~same => new = 1)
      /\ one \in {0, 1} /\ (one = 1 <=> granted[now] <= Limit)
  OBVIOUS
<1>6. Adds(f, at, new, h)
  <2>1. h = IF new = 1 THEN [f EXCEPT ![at] = @ + 1] ELSE f
    <3>1. CASE same
      BY <1>1, <3>1 DEF Stamped
    <3>2. CASE ~same
      BY <1>1, <3>2 DEF Stamped
    <3> QED
      BY <3>1, <3>2
  <2> QED
    BY <1>1, <1>3, <2>1 DEF Adds
<1>7. Adds(granted, now, one, w)
  <2>1. w = IF one = 1 THEN [granted EXCEPT ![now] = @ + 1] ELSE granted
    <3>1. CASE granted[now] <= Limit
      BY <1>1, <1>3, <1>4, <3>1 DEF Stamped
    <3>2. CASE ~(granted[now] <= Limit)
      <4>1. w = [granted EXCEPT ![now] = granted[now]]
        BY <1>4, <3>2
      <4> QED
        BY <1>1, <3>2, <4>1 DEF Stamped
    <3> QED
      BY <3>1, <3>2
  <2> QED
    BY <1>1, <1>5, <2>1 DEF Adds
<1> HIDE DEF new, one, h, w
<1>8. \A t \in L!Times : w[t] > 0 => t = now \/ granted[t] > 0
  BY <1>3, <1>7 DEF Adds, Stamped
<1>9. ASSUME NEW X \in SUBSET L!Times
      PROVE  /\ h \in Stamped /\ L!Count(f, X) \in Nat
             /\ at \in X => L!Count(h, X) = L!Count(f, X) + new
             /\ at \notin X => L!Count(h, X) = L!Count(f, X)
             /\ w \in Stamped /\ L!Count(granted, X) \in Nat
             /\ now \in X => L!Count(w, X) = L!Count(granted, X) + one
             /\ now \notin X => L!Count(w, X) = L!Count(granted, X)
  BY <1>6, <1>7, CountOneOrNone
<1>10. L!Count(kept', L!Times) <= Limit
  <2>1. L!Times \in SUBSET L!Times
    OBVIOUS
  <2>2. L!Count(h, L!Times) <= Limit
    BY <1>1, <1>5, <1>9, <2>1
  <2> QED
    BY <2>2 DEF h
<1>11. GrantsKept'
  <2> SUFFICES ASSUME forgot = {}, ~merged, ~same, NEW x \in Nat, x + window > now + d
               PROVE  L!Count(w, Since(x, 0)) <= L!Count(h, Since(x, d))
    BY <1>2 DEF GrantsKept, h, w
  <2>1. Since(x, 0) \in SUBSET L!Times /\ Since(x, d) \in SUBSET L!Times
    BY DEF Since
  <2>2. L!Count(granted, Since(x, 0)) <= L!Count(f, Since(x, d))
    BY DEF Carries
  <2>3. now \in Since(x, 0) => at \in Since(x, d)
    BY <1>1 DEF Since
  <2> QED
    BY <1>5, <1>9, <2>1, <2>2, <2>3
<1>12. KeptGranted'
  <2> SUFFICES ASSUME ~unsaid, NEW x \in Nat, x + window + d > now
               PROVE  L!Count(h, Since(x, 0)) <= L!Count(w, Since(x, 0))
    BY <1>2 DEF KeptGranted, h, w
  <2> DEFINE X == Since(x, 0)
  <2>1. X \in SUBSET L!Times
    BY DEF Since
  <2>2. L!Count(f, X) <= L!Count(granted, X)
    <3>1. L!Count(kept, X) <= L!Count(granted, X)
      BY DEF LimitInv, KeptGranted
    <3>2. \A t \in L!Times : f[t] \in Nat /\ kept[t] \in Nat /\ f[t] <= kept[t]
      BY DEF Carries, LimitInv, LimitTypes, Stamped, LimitNumbers
    <3>3. L!Stamps(f, X) \subseteq L!Stamps(kept, X)
      BY <2>1, <3>2 DEF L!Stamps
    <3>4. /\ L!Count(f, X) <= L!Count(kept, X)
          /\ L!Count(f, X) \in Nat /\ L!Count(kept, X) \in Nat
      BY <2>1, <3>3, CountMore
    <3> QED
      BY <1>9, <2>1, <3>1, <3>4
  <2>3. at \in X => now \in X
    BY <1>1 DEF Since
  <2>4. CASE now \notin X \/ granted[now] <= Limit
    BY <1>5, <1>9, <2>1, <2>2, <2>3, <2>4
  <2>5. CASE now \in X /\ ~(granted[now] <= Limit)
    <3>1. granted[now] <= L!Count(granted, X)
      BY <1>1, <2>1, <2>5, CountColumn
    <3>2. L!Count(f, X) <= L!Count(f, L!Times) /\ L!Count(f, L!Times) \in Nat
      <4>1. L!Stamps(f, X) \subseteq L!Stamps(f, L!Times)
        BY <2>1 DEF L!Stamps
      <4> QED
        BY <2>1, <4>1, CountMore
    <3> QED
      BY <1>1, <1>3, <1>5, <1>9, <2>1, <2>5, <3>1, <3>2
  <2> QED
    BY <2>4, <2>5
<1>13. /\ expiry' \in Nat /\ expiry' <= now + window
       /\ \A t \in L!Times : granted'[t] > 0 =>
            t <= now /\ (mode = "redis" => t + window <= expiry')
  <2>1. /\ expiry <= now + window
        /\ \A t \in L!Times : granted[t] > 0 =>
             t <= now /\ (mode = "redis" => t + window <= expiry)
    BY DEF LimitInv, Timely
  <2> QED
    BY <1>1, <1>8, <2>1 DEF w
<1> QED
  BY <1>9, <1>10, <1>11, <1>12, <1>13 DEF Settled, h, w

\* A refusal has its reason, and room at the time that it names.
LEMMA RefusalReasoned ==
  ASSUME LimitNumbers, LimitInv, NEW f, NEW at, Clock(at), Carries(L!Recent(f, at)),
         L!Count(L!Recent(f, at), L!Times) >= Limit,
         kept' = L!Recent(f, at), told'.until = L!Oldest(L!Recent(f, at)) + window
  PROVE  /\ L!LetIn(now - L!Min({now, L!Delay}), now) >= Limit \/ unsaid
         /\ L!Count(kept', {t \in L!Times : t + window > told'.until}) < Limit
<1> DEFINE g == L!Recent(f, at)
           d == L!Delay
<1>1. /\ window \in Nat /\ now \in Nat /\ at \in Nat /\ d \in Nat
      /\ at <= now /\ now <= at + d /\ Limit \in Nat /\ Limit > 0
      /\ g \in Stamped /\ granted \in Stamped
      /\ \A t \in L!Times : t \in Nat
  BY DelayType DEF LimitInv, LimitTypes, LimitNumbers, Clock, L!Times, Carries
<1>2. \A t \in L!Times : g[t] > 0 => t + window > at
  BY <1>1 DEF L!Recent
<1>3. \A t \in L!Times : g[t] \in Nat /\ kept[t] \in Nat /\ g[t] <= kept[t]
  BY DEF Carries, LimitInv, LimitTypes, Stamped, LimitNumbers
<1> HIDE DEF g, d
<1>4. ASSUME ~unsaid
      PROVE  L!LetIn(now - L!Min({now, L!Delay}), now) >= Limit
  <2>1. PICK x \in Nat : x + window > at /\ \A y \in Nat : y + window > at => y >= x
    <3>1. CASE at >= window
      <4> DEFINE z == at - window + 1
      <4>1. /\ z \in Nat /\ z + window > at
            /\ \A y \in Nat : y + window > at => y >= z
        BY <1>1, <3>1
      <4> HIDE DEF z
      <4> QED
        BY <4>1
    <3>2. CASE at < window
      BY <1>1, <3>2
    <3> QED
      BY <1>1, <3>1, <3>2
  <2> DEFINE X == Since(x, 0)
             w == {t \in L!Times : now - L!Min({now, d}) < t + window /\ t <= now}
  <2>2. X \in SUBSET L!Times /\ w \in SUBSET L!Times
    BY DEF Since
  <2>3. L!Count(kept, X) <= L!Count(granted, X)
    <3>1. x + window + L!Delay > now
      BY <1>1, <2>1 DEF d
    <3> QED
      BY <1>4, <3>1 DEF LimitInv, KeptGranted
  <2>4. L!Count(g, L!Times) <= L!Count(kept, X) /\ L!Count(g, L!Times) \in Nat
        /\ L!Count(kept, X) \in Nat
    <3>1. \A t \in L!Times : g[t] > 0 => t \in X
      BY <1>1, <1>2, <2>1 DEF Since
    <3>2. L!Stamps(g, L!Times) \subseteq L!Stamps(kept, X)
      <4>1. ASSUME NEW t \in L!Times, NEW i \in 1 .. Limit + 1, i <= g[t]
            PROVE  t \in X /\ i <= kept[t]
        BY <1>1, <1>3, <3>1, <4>1
      <4> QED
        BY <4>1 DEF L!Stamps
    <3> QED
      BY <2>2, <3>2, CountMore
  <2>5. L!Min({now, d}) = IF now <= d THEN now ELSE d
    <3> DEFINE m == IF now <= d THEN now ELSE d
               Least(z) == z \in {now, d} /\ \A y \in {now, d} : z <= y
    <3>1. Least(m) /\ \A z : Least(z) => z = m
      BY <1>1
    <3>2. L!Min({now, d}) = CHOOSE z : Least(z)
      BY DEF L!Min
    <3> HIDE DEF Least
    <3> QED
      BY <3>1, <3>2
  <2>6. L!Count(granted, X) <= L!Count(granted, w)
        /\ L!Count(granted, X) \in Nat /\ L!Count(granted, w) \in Nat
    <3>1. ASSUME NEW t \in X, granted[t] > 0 PROVE t \in w
      <4>1. t \in L!Times /\ t \in Nat /\ t + window > at /\ t <= now
        BY <1>1, <2>1, <3>1 DEF Since, LimitInv, Timely
      <4> QED
        BY <1>1, <2>5, <4>1
    <3> HIDE DEF w
    <3>2. ASSUME NEW t \in X, NEW i \in 1 .. Limit + 1, i <= granted[t]
          PROVE  t \in w
      <4>1. granted[t] \in Nat
        BY <1>1, <2>2 DEF Stamped
      <4> QED
        BY <1>1, <3>1, <3>2, <4>1
    <3>3. L!Stamps(granted, X) \subseteq L!Stamps(granted, w)
      BY <3>2 DEF L!Stamps
    <3> QED
      BY <2>2, <3>3, CountMore
  <2>7. L!Count(g, L!Times) >= Limit
    BY DEF g
  <2>8. L!LetIn(now - L!Min({now, d}), now) = L!Count(granted, w)
    BY DEF L!LetIn
  <2> HIDE DEF X, w
  <2>9. L!Count(granted, w) >= Limit
    BY <1>1, <2>3, <2>4, <2>6, <2>7
  <2> QED
    BY <2>8, <2>9 DEF d
<1>5. L!Count(kept', {t \in L!Times : t + window > told'.until}) < Limit
  <2> DEFINE W == {t \in L!Times : g[t] > 0}
             o == L!Oldest(g)
             X == {t \in L!Times : t + window > o + window}
  <2>1. W # {}
    <3> SUFFICES ASSUME W = {} PROVE FALSE
      OBVIOUS
    <3>1. \A t \in L!Times : g[t] = 0
      BY <1>3
    <3>2. L!Stamps(g, L!Times) = {}
      BY <3>1 DEF L!Stamps, LimitNumbers
    <3>3. L!Count(g, L!Times) = 0
      BY <3>2, FS_EmptySet, SizeIsCardinality DEF L!Count
    <3> QED
      BY <1>1, <3>3 DEF g
  <2>2. o \in W /\ \A y \in W : o <= y
    <3>1. W \subseteq Nat
      BY <1>1
    <3> DEFINE lower == OpToRel(<, Nat)
    <3>2. \E t \in W : \A y \in W : <<y, t>> \notin lower
      BY <2>1, <3>1, WFMin, NatLessThanWellFounded, Zenon
    <3>3. \A t, y \in Nat : y < t => <<y, t>> \in lower
      BY Zenon DEF OpToRel
    <3> HIDE DEF lower, W
    <3>4. \E t \in W : \A y \in W : t <= y
      <4>1. PICK t \in W : \A y \in W : <<y, t>> \notin lower
        BY <3>2
      <4>2. \A y \in W : ~(y < t)
        BY <3>1, <3>3, <4>1
      <4>3. \A y \in W : t <= y
        BY <3>1, <4>2
      <4> QED
        BY <4>3
    <3>5. o = CHOOSE t \in W : \A y \in W : t <= y
      BY DEF L!Oldest, L!Min, W
    <3> HIDE DEF o
    <3> QED
      BY <3>4, <3>5
  <2>3. /\ X \in SUBSET L!Times /\ o \notin X /\ L!Times \in SUBSET L!Times
        /\ o \in L!Times /\ g[o] > 0
    BY <1>1, <2>2
  <2>4. <<o, 1>> \in L!Stamps(g, L!Times) /\ <<o, 1>> \notin L!Stamps(g, X)
    BY <1>1, <1>3, <2>3 DEF L!Stamps
  <2>5. L!Stamps(g, X) \subseteq L!Stamps(g, L!Times)
    BY DEF L!Stamps
  <2>6. L!Count(g, X) < L!Count(g, L!Times)
        /\ L!Count(g, X) \in Nat /\ L!Count(g, L!Times) \in Nat
    BY <2>3, <2>4, <2>5, CountMore
  <2>7. L!Count(g, L!Times) <= L!Count(kept, L!Times) /\ L!Count(kept, L!Times) \in Nat
    <3>1. L!Stamps(g, L!Times) \subseteq L!Stamps(kept, L!Times)
      BY <1>3 DEF L!Stamps
    <3> QED
      BY <2>3, <3>1, CountMore
  <2>8. L!Count(kept, L!Times) <= Limit
    BY DEF LimitInv, Timely
  <2>9. kept' = g /\ told'.until = o + window
    BY DEF g
  <2> HIDE DEF o, W
  <2>10. L!Count(g, X) < Limit
    BY <1>1, <2>6, <2>7, <2>8
  <2> QED
    BY <2>9, <2>10
<1> QED
  BY <1>4, <1>5

LEMMA Decided ==
  ASSUME LimitNumbers, LimitInv, NEW f, f = kept \/ (mode = "redis" /\ f = L!There),
         NEW at, Clock(at), L!Decide(L!Recent(f, at), at),
         UNCHANGED <<mode, window, now, forgot, unsaid>>
  PROVE  Settled /\ L!RefusalsJust
<1>1. Carries(L!Recent(f, at))
  BY RecentCarries
<1>2. CASE L!Count(L!Recent(f, at), L!Times) >= Limit
  <2>1. /\ kept' = L!Recent(f, at)
        /\ told' = [a |-> "no", until |-> L!Oldest(L!Recent(f, at)) + window]
        /\ UNCHANGED <<granted, merged, expiry>>
    BY <1>2 DEF L!Decide, L!Tell
  <2>2. Settled
    BY <1>1, <2>1, RefusedSettles
  <2>3. told'.until = L!Oldest(L!Recent(f, at)) + window
    BY <2>1
  <2>4. /\ L!LetIn(now - L!Min({now, L!Delay}), now) >= Limit \/ unsaid
        /\ L!Count(kept', {t \in L!Times : t + window > told'.until}) < Limit
    BY <1>1, <1>2, <2>1, <2>3, RefusalReasoned
  <2> QED
    BY <2>2, <2>4 DEF L!RefusalsJust
<1>3. CASE ~(L!Count(L!Recent(f, at), L!Times) >= Limit)
  <2> DEFINE g == L!Recent(f, at)
  <2>1. PICK same \in BOOLEAN :
          /\ kept' = [g EXCEPT ![at] = IF same THEN @ ELSE @ + 1]
          /\ merged' = (merged \/ same)
    BY <1>3 DEF L!Decide
  <2>2. /\ granted' = [granted EXCEPT ![now] = L!Min({@ + 1, Limit + 1})]
        /\ expiry' = IF mode = "redis" THEN now + window ELSE expiry
        /\ told' = [a |-> "yes", until |-> 0]
    BY <1>3 DEF L!Decide, L!Tell
  <2>3. L!Count(g, L!Times) < Limit
    <3>1. L!Count(g, L!Times) \in Nat /\ Limit \in Nat
      BY StampsFinite DEF LimitNumbers
    <3> QED
      BY <1>3, <3>1
  <2>4. Settled
    BY <1>1, <2>1, <2>2, <2>3, LetInSettles
  <2>5. ~(told'.until > 0)
    BY <2>2
  <2> QED
    BY <2>4, <2>5 DEF L!RefusalsJust
<1> QED
  BY <1>2, <1>3

\* The callers, and what else is kept of them.
LEMMA SettledKeeps ==
  ASSUME LimitNumbers, LimitInv, Settled, UNCHANGED <<mode, window, now, forgot>>,
         check' \in [Checks -> Caller],
         \A k \in Checks :
           /\ check'[k].st # "idle" => mode = "redis"
           /\ check'[k].st = "asked" =>
                check'[k].at <= now /\ now <= check'[k].at + MaxDelay
  PROVE  LimitInv'
<1>1. LimitTypes' /\ Timely'
  BY DEF LimitInv, LimitTypes, Timely, Settled
<1>2. CleansOld'
  BY DEF LimitInv, CleansOld
<1> QED
  BY <1>1, <1>2 DEF LimitInv, Settled

\* Nothing but the callers, and the answer, changes.
LEMMA CallersChange ==
  ASSUME LimitNumbers, LimitInv,
         UNCHANGED <<mode, window, now, kept, expiry, granted, forgot, merged, unsaid>>,
         check' \in [Checks -> Caller],
         \A k \in Checks :
           /\ check'[k].st # "idle" => mode = "redis"
           /\ check'[k].st = "asked" =>
                check'[k].at <= now /\ now <= check'[k].at + MaxDelay
  PROVE  LimitInv'
<1>1. LimitTypes' /\ Timely' /\ CleansOld'
  BY DEF LimitInv, LimitTypes, Timely, CleansOld
<1>2. GrantsKept' /\ KeptGranted'
  BY DEF LimitInv, GrantsKept, KeptGranted, L!Delay
<1> QED
  BY <1>1, <1>2 DEF LimitInv

\* Stamps f of which g has no more.
LEMMA Fewer ==
  ASSUME LimitNumbers, NEW f \in Stamped, NEW g \in Stamped,
         \A t \in L!Times : g[t] <= f[t], NEW X \in SUBSET L!Times
  PROVE  /\ L!Count(g, X) <= L!Count(f, X)
         /\ L!Count(g, X) \in Nat /\ L!Count(f, X) \in Nat
<1>1. \A t \in L!Times : f[t] \in Nat /\ g[t] \in Nat
  BY DEF Stamped, LimitNumbers
<1>2. L!Stamps(g, X) \subseteq L!Stamps(f, X)
  BY <1>1 DEF L!Stamps
<1> QED
  BY <1>2, CountMore

\* The script counts, but its caller gets no answer.
LEMMA UnsaidSettles ==
  ASSUME LimitNumbers, LimitInv, NEW f, Carries(f), NEW at, Clock(at),
         L!Count(f, L!Times) < Limit, kept' = [f EXCEPT ![at] = @ + 1],
         expiry' = now + window, unsaid' = TRUE,
         UNCHANGED <<mode, window, now, granted, forgot, merged>>
  PROVE  Settled
<1>1. /\ window \in Nat /\ now \in Nat /\ expiry \in Nat /\ Limit \in Nat
      /\ f \in Stamped /\ at \in L!Times /\ L!Times \in SUBSET L!Times
      /\ \A t \in L!Times : t \in Nat
  BY DEF LimitInv, LimitTypes, LimitNumbers, Clock, L!Times, Carries
<1>2. f[at] <= L!Count(f, L!Times) /\ L!Count(f, L!Times) \in Nat /\ f[at] \in Nat
  BY <1>1, CountColumn, StampsFinite DEF Stamped
<1> DEFINE h == kept'
<1>3. Adds(f, at, 1, h)
  BY <1>1, <1>2 DEF Adds
<1> HIDE DEF h
<1>4. ASSUME NEW X \in SUBSET L!Times
      PROVE  /\ h \in Stamped /\ L!Count(f, X) \in Nat
             /\ at \in X => L!Count(h, X) = L!Count(f, X) + 1
             /\ at \notin X => L!Count(h, X) = L!Count(f, X)
             /\ L!Count(granted, X) \in Nat
  BY <1>3, CountOneOrNone, StampsFinite
<1>5. L!Count(h, L!Times) <= Limit
  BY <1>1, <1>4
<1>6. GrantsKept'
  <2> SUFFICES ASSUME forgot = {}, ~merged, NEW x \in Nat, x + window > now + L!Delay
               PROVE  L!Count(granted, Since(x, 0)) <= L!Count(h, Since(x, L!Delay))
    BY DEF GrantsKept, L!Delay, h
  <2>1. Since(x, 0) \in SUBSET L!Times /\ Since(x, L!Delay) \in SUBSET L!Times
    BY DEF Since
  <2>2. L!Count(granted, Since(x, 0)) <= L!Count(f, Since(x, L!Delay))
    BY DEF Carries
  <2> QED
    BY <1>4, <2>1, <2>2
<1>7. KeptGranted'
  BY DEF KeptGranted
<1>8. /\ expiry' \in Nat /\ expiry' <= now + window
      /\ \A t \in L!Times : granted[t] > 0 =>
           t <= now /\ (mode = "redis" => t + window <= expiry')
  <2>1. \A t \in L!Times : granted[t] > 0 => t <= now
    BY DEF LimitInv, Timely
  <2> QED
    BY <1>1, <2>1
<1>9. h \in Stamped /\ granted \in Stamped
  BY <1>1, <1>4 DEF LimitInv, LimitTypes
<1> QED
  BY <1>5, <1>6, <1>7, <1>8, <1>9 DEF Settled, h

\* Cleanup takes what is old, and no one who is let in is forgotten by it.
LEMMA CleanupKeeps ==
  ASSUME LimitNumbers, LimitInv, L!Cleanup
  PROVE  LimitInv'
<1>1. /\ kept' = L!Cleaned /\ mode # "redis"
      /\ UNCHANGED <<mode, window, now, check, expiry, granted, merged, unsaid>>
      /\ forgot' = IF \E t \in L!Times : L!InWindow(t) /\ L!Cleaned[t] # kept[t]
                   THEN forgot \cup {"cleanup"} ELSE forgot
  BY DEF L!Cleanup
<1>2. /\ window \in Nat /\ now \in Nat /\ MaxAge \in Nat /\ Limit \in Nat
      /\ kept \in Stamped /\ granted \in Stamped
      /\ \A t \in L!Times : t \in Nat /\ kept[t] \in Nat
      /\ L!Times \in SUBSET L!Times
  BY DEF LimitInv, LimitTypes, LimitNumbers, L!Times, Stamped
<1>3. L!Delay = 0 /\ L!Delay' = 0
  BY <1>1 DEF L!Delay
<1>4. /\ kept' \in Stamped
      /\ \A t \in L!Times : /\ kept'[t] <= kept[t]
                            /\ kept'[t] # kept[t] => L!Old(t)
  BY <1>1, <1>2 DEF L!Cleaned, Stamped
<1>5. CleansOld'
  <2> SUFFICES ASSUME window <= MaxAge PROVE forgot' = forgot
    BY <1>1 DEF LimitInv, CleansOld
  <2>1. \A t \in L!Times : L!Old(t) => ~L!InWindow(t)
    BY <1>2 DEF L!Old, L!InWindow
  <2> QED
    BY <1>1, <1>4, <2>1
<1>6. GrantsKept'
  <2> SUFFICES ASSUME forgot' = {}, ~merged, NEW x \in Nat, x + window > now
               PROVE  L!Count(granted, Since(x, 0)) <= L!Count(kept', Since(x, 0))
    BY <1>1, <1>2, <1>3 DEF GrantsKept
  <2>1. forgot = {} /\ \A t \in L!Times : L!InWindow(t) => kept'[t] = kept[t]
    BY <1>1
  <2>2. Since(x, 0) \in SUBSET L!Times /\ \A t \in Since(x, 0) : L!InWindow(t)
    BY <1>2 DEF Since, L!InWindow
  <2>3. L!Count(granted, Since(x, 0)) <= L!Count(kept, Since(x, 0))
    BY <1>2, <1>3, <2>1 DEF LimitInv, GrantsKept
  <2>4. L!Stamps(kept, Since(x, 0)) \subseteq L!Stamps(kept', Since(x, 0))
    BY <2>1, <2>2 DEF L!Stamps
  <2>5. /\ L!Count(kept, Since(x, 0)) <= L!Count(kept', Since(x, 0))
        /\ L!Count(kept, Since(x, 0)) \in Nat /\ L!Count(kept', Since(x, 0)) \in Nat
        /\ L!Count(granted, Since(x, 0)) \in Nat
    BY <2>2, <2>4, CountMore, StampsFinite
  <2> QED
    BY <2>3, <2>5
<1>7. \A X \in SUBSET L!Times :
        /\ L!Count(kept', X) <= L!Count(kept, X)
        /\ L!Count(kept', X) \in Nat /\ L!Count(kept, X) \in Nat
        /\ L!Count(granted, X) \in Nat
  BY <1>2, <1>4, Fewer, StampsFinite
<1>8. KeptGranted'
  <2> SUFFICES ASSUME ~unsaid, NEW x \in Nat, x + window + L!Delay > now
               PROVE  L!Count(kept', Since(x, 0)) <= L!Count(granted, Since(x, 0))
    BY <1>1, <1>3 DEF KeptGranted
  <2>1. Since(x, 0) \in SUBSET L!Times
    BY DEF Since
  <2>2. L!Count(kept, Since(x, 0)) <= L!Count(granted, Since(x, 0))
    BY DEF LimitInv, KeptGranted
  <2> QED
    BY <1>7, <2>1, <2>2
<1>9. LimitTypes'
  BY <1>1, <1>4 DEF LimitInv, LimitTypes
<1>10. Timely'
  <2>1. L!Count(kept', L!Times) <= Limit
    BY <1>2, <1>7 DEF LimitInv, Timely
  <2> QED
    BY <1>1, <2>1 DEF LimitInv, Timely
<1> QED
  BY <1>5, <1>6, <1>8, <1>9, <1>10 DEF LimitInv

\* A process that starts again has lost what was in its memory.
LEMMA RestartKeeps ==
  ASSUME LimitNumbers, LimitInv, L!Restart
  PROVE  LimitInv'
<1>1. /\ check' = [k \in Checks |-> L!Idle]
      /\ UNCHANGED <<mode, window, now, expiry, granted, merged, unsaid>>
      /\ check' \in [Checks -> Caller] /\ \A k \in Checks : check'[k].st = "idle"
  BY DEF L!Restart, L!Idle, Caller
<1>2. CASE mode = "redis"
  <2>1. UNCHANGED <<kept, forgot>>
    BY <1>2 DEF L!Restart
  <2> QED
    BY <1>1, <2>1, CallersChange
<1>3. CASE mode # "redis"
  <2>1. kept' = L!Empty /\ forgot' = forgot \cup {"restart"}
    BY <1>3 DEF L!Restart
  <2>2. /\ kept' \in Stamped /\ kept \in Stamped /\ granted \in Stamped
        /\ \A t \in L!Times : kept'[t] <= kept[t]
        /\ L!Times \in SUBSET L!Times
    BY <2>1 DEF LimitInv, LimitTypes, LimitNumbers, Stamped, L!Empty
  <2>3. \A X \in SUBSET L!Times :
          /\ L!Count(kept', X) <= L!Count(kept, X)
          /\ L!Count(kept', X) \in Nat /\ L!Count(kept, X) \in Nat
          /\ L!Count(granted, X) \in Nat
    BY <2>2, Fewer, StampsFinite
  <2>4. KeptGranted'
    <3> SUFFICES ASSUME ~unsaid, NEW x \in Nat, x + window + L!Delay > now
                 PROVE  L!Count(kept', Since(x, 0)) <= L!Count(granted, Since(x, 0))
      BY <1>1 DEF KeptGranted, L!Delay
    <3>1. Since(x, 0) \in SUBSET L!Times
      BY DEF Since
    <3>2. L!Count(kept, Since(x, 0)) <= L!Count(granted, Since(x, 0))
      BY DEF LimitInv, KeptGranted
    <3> QED
      BY <2>3, <3>1, <3>2
  <2>5. GrantsKept' /\ CleansOld'
    BY <1>1, <2>1 DEF GrantsKept, CleansOld, LimitInv
  <2>6. LimitTypes'
    BY <1>1, <2>2 DEF LimitInv, LimitTypes
  <2>7. Timely'
    <3>1. L!Count(kept', L!Times) <= Limit
      BY <2>2, <2>3 DEF LimitInv, Timely, LimitNumbers
    <3> QED
      BY <1>1, <3>1 DEF LimitInv, Timely
  <2> QED
    BY <2>4, <2>5, <2>6, <2>7 DEF LimitInv
<1> QED
  BY <1>2, <1>3

\* The windows of a socket end with it.
LEMMA DisconnectKeeps ==
  ASSUME LimitNumbers, LimitInv, L!Disconnect
  PROVE  LimitInv'
<1>1. /\ kept' = L!Empty /\ granted' = L!Empty
      /\ UNCHANGED <<mode, window, now, check, expiry, forgot, merged, unsaid>>
  BY DEF L!Disconnect
<1>2. L!Empty \in Stamped /\ \A t \in L!Times : L!Empty[t] = 0
  BY DEF LimitNumbers, Stamped, L!Empty
<1>3. \A X \in SUBSET L!Times : L!Count(L!Empty, X) = 0
  <2> SUFFICES ASSUME NEW X \in SUBSET L!Times PROVE L!Count(L!Empty, X) = 0
    OBVIOUS
  <2>1. L!Stamps(L!Empty, X) = {}
    BY <1>2 DEF L!Stamps, LimitNumbers
  <2> QED
    BY <2>1, FS_EmptySet, SizeIsCardinality DEF L!Count
<1>4. \A x, d : Since(x, d) \in SUBSET L!Times
  BY DEF Since
<1>5. GrantsKept' /\ KeptGranted'
  BY <1>1, <1>3, <1>4 DEF GrantsKept, KeptGranted
<1>6. LimitTypes' /\ CleansOld'
  BY <1>1, <1>2 DEF LimitInv, LimitTypes, CleansOld
<1>7. Timely'
  <2>1. L!Count(kept', L!Times) <= Limit
    BY <1>1, <1>3 DEF LimitNumbers
  <2> QED
    BY <1>1, <1>2, <2>1 DEF LimitInv, Timely
<1> QED
  BY <1>5, <1>6, <1>7 DEF LimitInv

\* Time passes: fewer of those who were let in matter.
LEMMA TickKeeps ==
  ASSUME LimitNumbers, LimitInv, L!Tick
  PROVE  LimitInv'
<1>1. /\ now < MaxTime /\ now' = now + 1
      /\ \A k \in Checks : check[k].st = "asked" => now < check[k].at + MaxDelay
      /\ granted' = [t \in L!Times |->
                       IF t + window + L!Delay > now' THEN granted[t] ELSE 0]
      /\ UNCHANGED <<mode, window, check, kept, expiry, forgot, merged, unsaid>>
  BY DEF L!Tick
<1>2. /\ window \in Nat /\ now \in Nat /\ L!Delay \in Nat /\ now' \in L!Times
      /\ expiry \in Nat /\ MaxDelay \in Nat
      /\ kept \in Stamped /\ granted \in Stamped
      /\ \A t \in L!Times : t \in Nat
  BY <1>1, DelayType DEF LimitInv, LimitTypes, LimitNumbers, L!Times
<1>3. L!Delay' = L!Delay
  BY <1>1 DEF L!Delay
<1>4. /\ granted' \in Stamped
      /\ \A t \in L!Times : /\ granted'[t] <= granted[t]
                            /\ granted'[t] > 0 => granted[t] > 0
  BY <1>1, <1>2 DEF Stamped, LimitNumbers
<1>5. \A X \in SUBSET L!Times :
        /\ L!Count(granted', X) <= L!Count(granted, X)
        /\ L!Count(granted', X) \in Nat /\ L!Count(granted, X) \in Nat
        /\ L!Count(kept, X) \in Nat
  BY <1>2, <1>4, Fewer, StampsFinite
<1>6. GrantsKept'
  <2> SUFFICES ASSUME forgot = {}, ~merged, NEW x \in Nat, x + window > now' + L!Delay
               PROVE  L!Count(granted', Since(x, 0)) <= L!Count(kept, Since(x, L!Delay))
    BY <1>1, <1>3 DEF GrantsKept
  <2>1. Since(x, 0) \in SUBSET L!Times /\ Since(x, L!Delay) \in SUBSET L!Times
    BY DEF Since
  <2>2. x + window > now + L!Delay
    BY <1>1, <1>2
  <2>3. L!Count(granted, Since(x, 0)) <= L!Count(kept, Since(x, L!Delay))
    BY <2>2 DEF LimitInv, GrantsKept
  <2> QED
    BY <1>5, <2>1, <2>3
<1>7. KeptGranted'
  <2> SUFFICES ASSUME ~unsaid, NEW x \in Nat, x + window + L!Delay > now'
               PROVE  L!Count(kept, Since(x, 0)) <= L!Count(granted', Since(x, 0))
    BY <1>1, <1>3 DEF KeptGranted
  <2>1. Since(x, 0) \in SUBSET L!Times
    BY DEF Since
  <2>2. x + window + L!Delay > now
    BY <1>1, <1>2
  <2>3. L!Count(kept, Since(x, 0)) <= L!Count(granted, Since(x, 0))
    BY <2>2 DEF LimitInv, KeptGranted
  <2>4. \A t \in Since(x, 0) : granted'[t] = granted[t]
    BY <1>1, <1>2 DEF Since
  <2>5. L!Stamps(granted, Since(x, 0)) \subseteq L!Stamps(granted', Since(x, 0))
    BY <2>4 DEF L!Stamps
  <2>6. L!Count(granted, Since(x, 0)) <= L!Count(granted', Since(x, 0))
    BY <2>1, <2>5, CountMore
  <2> QED
    BY <1>5, <2>1, <2>3, <2>6
<1>8. LimitTypes' /\ CleansOld'
  BY <1>1, <1>2, <1>4 DEF LimitInv, LimitTypes, CleansOld
<1>9. Timely'
  <2>1. \A k \in Checks :
          /\ check[k].st # "idle" => mode = "redis"
          /\ check[k].st = "asked" => check[k].at <= now' /\ now' <= check[k].at + MaxDelay
    <3> SUFFICES ASSUME NEW k \in Checks, check[k].st = "asked"
                 PROVE  check[k].at <= now' /\ now' <= check[k].at + MaxDelay
      BY DEF LimitInv, Timely
    <3>1. check[k].at \in Nat /\ check[k].at <= now
      BY DEF LimitInv, LimitTypes, Timely, Caller
    <3> QED
      BY <1>1, <1>2, <3>1
  <2>2. expiry <= now' + window
    BY <1>1, <1>2 DEF LimitInv, Timely
  <2>3. \A t \in L!Times : granted'[t] > 0 =>
          t <= now' /\ (mode = "redis" => t + window <= expiry)
    BY <1>1, <1>2, <1>4 DEF LimitInv, Timely
  <2>4. L!Count(kept, L!Times) <= Limit
    BY DEF LimitInv, Timely
  <2> QED
    BY <1>1, <2>1, <2>2, <2>3, <2>4 DEF Timely
<1> QED
  BY <1>6, <1>7, <1>8, <1>9 DEF LimitInv

LEMMA LimitInit ==
  ASSUME LimitNumbers, L!Init
  PROVE  LimitInv
<1>1. /\ L!Empty \in Stamped /\ \A t \in L!Times : L!Empty[t] = 0
      /\ L!Idle \in Caller /\ L!Idle.st = "idle"
      /\ 0 \in L!Times /\ L!Times \in SUBSET L!Times
  BY DEF LimitNumbers, Stamped, L!Empty, L!Idle, Caller, L!Times
<1>2. \A X \in SUBSET L!Times : L!Count(L!Empty, X) = 0
  <2> SUFFICES ASSUME NEW X \in SUBSET L!Times PROVE L!Count(L!Empty, X) = 0
    OBVIOUS
  <2>1. L!Stamps(L!Empty, X) = {}
    BY <1>1 DEF L!Stamps, LimitNumbers
  <2> QED
    BY <2>1, FS_EmptySet, SizeIsCardinality DEF L!Count
<1>3. \A x, d : Since(x, d) \in SUBSET L!Times
  BY DEF Since
<1>4. /\ kept = L!Empty /\ granted = L!Empty /\ forgot = {} /\ now = 0 /\ expiry = 0
      /\ window \in Nat /\ check = [k \in Checks |-> L!Idle]
      /\ mode \in {"memory", "redis", "socket"}
  BY DEF L!Init, LimitNumbers
<1>5. GrantsKept /\ KeptGranted
  BY <1>2, <1>3, <1>4 DEF GrantsKept, KeptGranted
<1>6. LimitTypes /\ CleansOld
  BY <1>1, <1>4 DEF LimitTypes, CleansOld
<1>7. Timely
  <2>1. L!Count(kept, L!Times) <= Limit
    BY <1>1, <1>2, <1>4 DEF LimitNumbers
  <2> QED
    BY <1>1, <1>4, <2>1 DEF Timely
<1> QED
  BY <1>5, <1>6, <1>7 DEF LimitInv

LEMMA LimitStep ==
  ASSUME LimitNumbers, LimitInv, [L!Next]_(L!limitVars)
  PROVE  LimitInv' /\ L!RefusalsJust
<1>1. /\ now \in L!Times /\ now \in Nat /\ window \in Nat /\ MaxDelay \in Nat
      /\ check \in [Checks -> Caller]
      /\ L!Idle \in Caller /\ L!Idle.st = "idle"
      /\ \A k \in Checks : check[k].at \in Nat
  BY DEF LimitInv, LimitTypes, LimitNumbers, L!Times, L!Idle, Caller
<1>2. \A k \in Checks :
        /\ check[k].st # "idle" => mode = "redis"
        /\ check[k].st = "asked" => check[k].at <= now /\ now <= check[k].at + MaxDelay
  BY DEF LimitInv, Timely
<1>3. ASSUME NEW k \in Checks, L!CheckMemory(k) PROVE LimitInv' /\ L!RefusalsJust
  <2>1. /\ L!Decide(L!Recent(kept, now), now)
        /\ UNCHANGED <<mode, window, now, check, forgot, unsaid>>
    BY <1>3 DEF L!CheckMemory
  <2>2. Clock(now)
    BY <1>1, DelayType DEF Clock
  <2>3. Settled /\ L!RefusalsJust
    BY <2>1, <2>2, Decided
  <2> QED
    BY <1>1, <1>2, <2>1, <2>3, SettledKeeps
<1>4. ASSUME NEW k \in Checks, L!Begin(k) PROVE LimitInv' /\ L!RefusalsJust
  <2>1. /\ mode = "redis"
        /\ check' \in [Checks -> Caller]
        /\ \A j \in Checks : check'[j] = check[j] \/ check'[j].at = now
                                                  \/ check'[j].st = "waiting"
        /\ UNCHANGED <<mode, window, now, kept, expiry, told, granted, forgot, merged, unsaid>>
    BY <1>1, <1>4 DEF L!Begin, Caller
  <2>2. \A j \in Checks : check'[j].st = "asked" =>
          check'[j].at <= now /\ now <= check'[j].at + MaxDelay
    BY <1>1, <1>2, <2>1
  <2> QED
    BY <2>1, <2>2, CallersChange DEF L!RefusalsJust
<1>5. ASSUME L!Connected PROVE LimitInv' /\ L!RefusalsJust
  <2>1. /\ check' = [k \in Checks |-> IF check[k].st = "waiting"
                                      THEN [st |-> "asked", at |-> now] ELSE check[k]]
        /\ UNCHANGED <<mode, window, now, kept, expiry, told, granted, forgot, merged, unsaid>>
    BY <1>5 DEF L!Connected
  <2>2. /\ check' \in [Checks -> Caller]
        /\ \A j \in Checks :
             \/ check'[j] = check[j]
             \/ check'[j].at = now /\ check[j].st = "waiting"
    <3> DEFINE asked == [st |-> "asked", at |-> now]
    <3>1. asked \in Caller /\ asked.at = now
      BY <1>1 DEF Caller
    <3>2. check' = [k \in Checks |-> IF check[k].st = "waiting" THEN asked ELSE check[k]]
      BY <2>1
    <3> HIDE DEF asked
    <3>3. \A j \in Checks : check'[j] = IF check[j].st = "waiting" THEN asked ELSE check[j]
      BY <3>2
    <3>4. check' \in [Checks -> Caller]
      BY <1>1, <3>1, <3>2
    <3> QED
      BY <3>1, <3>3, <3>4
  <2>3. \A j \in Checks :
          /\ check'[j].st # "idle" => mode = "redis"
          /\ check'[j].st = "asked" =>
               check'[j].at <= now /\ now <= check'[j].at + MaxDelay
    BY <1>1, <1>2, <2>2
  <2> QED
    BY <2>1, <2>2, <2>3, CallersChange DEF L!RefusalsJust
<1>6. ASSUME L!NotConnected PROVE LimitInv' /\ L!RefusalsJust
  <2>1. /\ check' = [k \in Checks |-> IF check[k].st = "waiting" THEN L!Idle ELSE check[k]]
        /\ told'.until = 0
        /\ UNCHANGED <<mode, window, now, kept, expiry, granted, forgot, merged, unsaid>>
    BY <1>6 DEF L!NotConnected, L!Tell
  <2>2. /\ check' \in [Checks -> Caller]
        /\ \A j \in Checks : check'[j] = check[j] \/ check'[j].st = "idle"
    BY <1>1, <2>1
  <2>3. \A j \in Checks :
          /\ check'[j].st # "idle" => mode = "redis"
          /\ check'[j].st = "asked" =>
               check'[j].at <= now /\ now <= check'[j].at + MaxDelay
    BY <1>2, <2>2
  <2> QED
    BY <2>1, <2>2, <2>3, CallersChange DEF L!RefusalsJust
<1>7. ASSUME NEW k \in Checks, L!Script(k) \/ L!ScriptFails(k)
      PROVE  LimitInv' /\ L!RefusalsJust
  <2> DEFINE at == check[k].at
             f == L!Recent(L!There, at)
  <2>1. /\ check[k].st = "asked" /\ check' = [check EXCEPT ![k] = L!Idle]
        /\ UNCHANGED <<mode, window, now, forgot>>
    BY <1>7 DEF L!Script, L!ScriptFails
  <2>2. mode = "redis" /\ Clock(at)
    <3>1. mode = "redis" /\ at \in Nat /\ at <= now /\ now <= at + MaxDelay
      BY <1>1, <1>2, <2>1
    <3>2. at \in L!Times
      BY <1>1, <3>1 DEF L!Times, LimitNumbers
    <3> QED
      BY <3>1, <3>2 DEF Clock, L!Delay
  <2>3. /\ check' \in [Checks -> Caller]
        /\ \A j \in Checks : check'[j] = check[j] \/ check'[j].st = "idle"
    BY <1>1, <2>1
  <2>4. \A j \in Checks :
          /\ check'[j].st # "idle" => mode = "redis"
          /\ check'[j].st = "asked" =>
               check'[j].at <= now /\ now <= check'[j].at + MaxDelay
    BY <1>2, <2>3
  <2>5. CASE L!Script(k)
    <3>1. L!Decide(f, at) /\ UNCHANGED unsaid
      BY <2>5 DEF L!Script
    <3>2. Settled /\ L!RefusalsJust
      <4> SUFFICES ASSUME NEW c, c = at PROVE Settled /\ L!RefusalsJust
        OBVIOUS
      <4>1. L!Decide(L!Recent(L!There, c), c) /\ Clock(c)
        BY <2>2, <3>1
      <4> QED
        BY <2>1, <2>2, <3>1, <4>1, Decided
    <3> QED
      BY <2>1, <2>3, <2>4, <3>2, SettledKeeps
  <2>6. CASE L!ScriptFails(k)
    <3>1. ~(told'.until > 0)
      BY <2>6 DEF L!ScriptFails, L!Tell
    <3>2. UNCHANGED <<granted, merged>>
      BY <2>6 DEF L!ScriptFails
    <3>3. CASE UNCHANGED <<kept, expiry, unsaid>>
      BY <2>1, <2>3, <2>4, <3>1, <3>2, <3>3, CallersChange DEF L!RefusalsJust
    <3>4. CASE ~UNCHANGED <<kept, expiry, unsaid>>
      <4>1. /\ L!Count(f, L!Times) < Limit
            /\ kept' = [f EXCEPT ![at] = @ + 1]
            /\ expiry' = now + window /\ unsaid' = TRUE
        BY <2>6, <3>4 DEF L!ScriptFails
      <4>2. Carries(f)
        BY <2>2, RecentCarries
      <4>3. Settled
        <5> HIDE DEF f
        <5> SUFFICES ASSUME NEW c, c = at PROVE Settled
          OBVIOUS
        <5>1. kept' = [f EXCEPT ![c] = @ + 1] /\ Clock(c)
          BY <2>2, <4>1
        <5> QED
          BY <2>1, <3>2, <4>1, <4>2, <5>1, UnsaidSettles
      <4> QED
        BY <2>1, <2>3, <2>4, <3>1, <4>3, SettledKeeps DEF L!RefusalsJust
    <3> QED
      BY <3>3, <3>4
  <2> QED
    BY <1>7, <2>5, <2>6
<1>8. ASSUME L!Cleanup \/ L!Restart \/ L!Disconnect \/ L!Tick
      PROVE  LimitInv' /\ L!RefusalsJust
  <2>1. LimitInv'
    BY <1>8, CleanupKeeps, RestartKeeps, DisconnectKeeps, TickKeeps
  <2>2. told' = told
    BY <1>8 DEF L!Cleanup, L!Restart, L!Disconnect, L!Tick
  <2> QED
    BY <2>1, <2>2 DEF L!RefusalsJust
<1>9. CASE UNCHANGED L!limitVars
  <2>1. UNCHANGED <<mode, window, now, check, kept, expiry, told, granted, forgot,
                    merged, unsaid>>
    BY <1>9 DEF L!limitVars
  <2> QED
    BY <1>1, <1>2, <2>1, CallersChange DEF L!RefusalsJust
<1> QED
  BY <1>3, <1>4, <1>5, <1>6, <1>7, <1>8, <1>9 DEF L!Next

\* What is let in within a window is still counted there.
LEMMA WindowCounted ==
  ASSUME LimitNumbers, LimitInv
  PROVE  L!WindowHeld
<1>1. /\ window \in Nat /\ now \in Nat /\ L!Delay \in Nat /\ Limit \in Nat
      /\ \A t \in L!Times : t \in Nat
  BY DelayType DEF LimitInv, LimitTypes, LimitNumbers, L!Times
<1>2. ASSUME forgot = {}, ~merged PROVE L!LetIn(now + L!Delay, now) <= Limit
  <2> DEFINE w == {t \in L!Times : now + L!Delay < t + window /\ t <= now}
  <2>1. PICK x \in Nat :
          /\ \A y \in Nat : y + window > now + L!Delay => y >= x
          /\ x + window > now + L!Delay
    <3>1. CASE now + L!Delay >= window
      <4> DEFINE z == now + L!Delay - window + 1
      <4>1. /\ z \in Nat /\ z + window > now + L!Delay
            /\ \A y \in Nat : y + window > now + L!Delay => y >= z
        BY <1>1, <3>1
      <4> HIDE DEF z
      <4> QED
        BY <4>1
    <3>2. CASE now + L!Delay < window
      BY <1>1, <3>2
    <3> QED
      BY <1>1, <3>1, <3>2
  <2>2. /\ w \in SUBSET L!Times /\ Since(x, 0) \in SUBSET L!Times
        /\ Since(x, L!Delay) \in SUBSET L!Times /\ L!Times \in SUBSET L!Times
        /\ w \subseteq Since(x, 0)
    BY <1>1, <2>1 DEF Since
  <2>3. L!Stamps(granted, w) \subseteq L!Stamps(granted, Since(x, 0))
    BY <2>2 DEF L!Stamps
  <2>4. L!Stamps(kept, Since(x, L!Delay)) \subseteq L!Stamps(kept, L!Times)
    BY <2>2 DEF L!Stamps
  <2>5. L!Count(granted, Since(x, 0)) <= L!Count(kept, Since(x, L!Delay))
    BY <1>2, <2>1 DEF LimitInv, GrantsKept
  <2>6. L!LetIn(now + L!Delay, now) = L!Count(granted, w)
    BY DEF L!LetIn
  <2>7. L!Count(kept, L!Times) <= Limit
    BY DEF LimitInv, Timely
  <2> HIDE DEF w
  <2>8. /\ L!Count(granted, w) <= L!Count(granted, Since(x, 0))
        /\ L!Count(granted, w) \in Nat /\ L!Count(granted, Since(x, 0)) \in Nat
    BY <2>2, <2>3, CountMore
  <2>9. /\ L!Count(kept, Since(x, L!Delay)) <= L!Count(kept, L!Times)
        /\ L!Count(kept, Since(x, L!Delay)) \in Nat /\ L!Count(kept, L!Times) \in Nat
    BY <2>2, <2>4, CountMore
  <2> QED
    BY <1>1, <2>5, <2>6, <2>7, <2>8, <2>9
<1> QED
  BY <1>2 DEF L!WindowHeld, LimitInv, CleansOld

-----------------------------------------------------------------------------
(* The picture.                                                            *)

\* As long as nothing has gone wrong one page at most is uploading, and what
\* it has written is there until its address is in the row.
PictureInv ==
  /\ picked \in [Pages -> Types \cup {V!NoPicture}]
  /\ pc \in [Pages -> {"idle", "write", "prune", "address", "profile", "answer"}]
  /\ \A d \in Pages : V!Uploading(d) => picked[d] # V!NoPicture
  /\ why = {} =>
       /\ \A d, e \in Pages : V!Uploading(d) /\ V!Uploading(e) => d = e
       /\ \A d \in Pages : pc[d] \in {"prune", "address"} => picked[d] \in files
  /\ V!AvatarServed

LEMMA PictureInit ==
  ASSUME V!Init
  PROVE  PictureInv
  BY DEF V!Init, PictureInv, V!Uploading, V!AvatarServed, V!NoPicture

LEMMA PictureStep ==
  ASSUME PictureInv, [V!Next]_(V!avatarVars)
  PROVE  PictureInv'
<1>1. ASSUME NEW d \in Pages, NEW t \in Types, V!Pick(d, t)
      PROVE  PictureInv'
  BY <1>1 DEF PictureInv, V!Pick, V!Uploading, V!AvatarServed, V!NoPicture
<1>2. ASSUME NEW d \in Pages, V!Save(d)
      PROVE  PictureInv'
  BY <1>2 DEF PictureInv, V!Save, V!Step, V!Uploading, V!AvatarServed, V!NoPicture
<1>3. ASSUME NEW d \in Pages, NEW ok \in BOOLEAN, V!Write(d, ok)
      PROVE  PictureInv'
  BY <1>3 DEF PictureInv, V!Write, V!Step, V!Uploading, V!AvatarServed, V!NoPicture
<1>4. ASSUME NEW d \in Pages, NEW ok \in BOOLEAN, NEW gone, V!Prune(d, gone, ok)
      PROVE  PictureInv'
  BY <1>4 DEF PictureInv, V!Prune, V!Step, V!Uploading, V!AvatarServed, V!NoPicture
<1>5. ASSUME NEW d \in Pages, NEW ok \in BOOLEAN, V!Address(d, ok)
      PROVE  PictureInv'
  BY <1>5 DEF PictureInv, V!Address, V!Step, V!Uploading, V!AvatarServed, V!NoPicture
<1>6. ASSUME NEW d \in Pages, NEW ok \in BOOLEAN, V!Profile(d, ok)
      PROVE  PictureInv'
  BY <1>6 DEF PictureInv, V!Profile, V!Step, V!Uploading, V!AvatarServed, V!NoPicture
<1>7. ASSUME NEW d \in Pages, V!Refresh(d) \/ V!Reopen(d)
      PROVE  PictureInv'
  BY <1>7 DEF PictureInv, V!Refresh, V!Reopen, V!Step, V!Uploading, V!AvatarServed,
              V!NoPicture
<1>8. CASE UNCHANGED V!avatarVars
  BY <1>8 DEF PictureInv, V!avatarVars, V!Uploading, V!AvatarServed
<1> QED
  BY <1>1, <1>2, <1>3, <1>4, <1>5, <1>6, <1>7, <1>8 DEF V!Next

-----------------------------------------------------------------------------
(* The pins.                                                               *)

\* An item that the answer under way to a page adds, and one that it removes.
Adding(d) == IF add[d] = "answer" THEN {got[d].add} ELSE {}
Removing(d) == IF del[d] = "answer" THEN {got[d].del} ELSE {}
Counting == {d \in Pages : add[d] = "counted"}

PinTypes ==
  /\ load \in [Pages -> {"ask", "answer", "done"}]
  /\ add \in [Pages -> {"idle", "ask", "counted", "answer"}]
  /\ del \in [Pages -> {"idle", "ask", "answer"}]
  /\ DOMAIN got = Pages /\ \A d \in Pages : DOMAIN got[d] = {"add", "del"}
  /\ DOMAIN list = Pages /\ DOMAIN read = Pages
  /\ overlap \subseteq Pages
  /\ IsFiniteSet(pins)

\* An item is inserted once: what a page knows of has been, and what it has
\* deleted is gone.
OnceInserted ==
  /\ pins \subseteq made
  /\ \A d \in Pages :
       /\ list[d] \subseteq made /\ read[d] \subseteq made
       /\ add[d] = "answer" => got[d].add \in made
       /\ del[d] # "idle" => got[d].del \in made
       /\ del[d] = "answer" => got[d].del \notin pins

\* With the answers under way to it a page lists the table.
Listing(d) == Adding(d) \subseteq pins => (list[d] \cup Adding(d)) \ Removing(d) = pins
Listed == \A d \in Pages : load[d] = "done" /\ d \notin apart => Listing(d)

\* A page that has counted has found room, and there still is, unless another
\* one has inserted since.
Room ==
  /\ \A d \in Counting : d \in overlap \/ Cardinality(pins) < MaxPins
  /\ Cardinality(pins) + Cardinality(Counting \cap overlap) <= MaxPins + Cardinality(overlap)

PinInv == PinTypes /\ OnceInserted /\ Listed /\ Room

LEMMA PinSize == \A X : I!Cardinality(X) = Cardinality(X)
  BY DEF I!Cardinality, Cardinality

LEMMA PagesFinite ==
  ASSUME IsFiniteSet(Pages), NEW X \in SUBSET Pages
  PROVE  IsFiniteSet(X) /\ Cardinality(X) \in Nat
  BY FS_Subset, FS_CardinalityType

LEMMA SizeApart ==
  ASSUME NEW X, NEW Y, IsFiniteSet(X), IsFiniteSet(Y), X \cap Y = {}
  PROVE  Cardinality(X \cup Y) = Cardinality(X) + Cardinality(Y)
<1>1. Cardinality(X \cup Y) = Cardinality(X) + Cardinality(Y) - Cardinality(X \cap Y)
  BY FS_Union
<1>2. Cardinality(X \cap Y) = 0 /\ Cardinality(X) \in Nat /\ Cardinality(Y) \in Nat
  BY FS_EmptySet, FS_CardinalityType
<1> QED
  BY <1>1, <1>2

LEMMA PinInit ==
  ASSUME IsFiniteSet(Pages), MaxPins \in Nat, I!Init
  PROVE  PinInv
<1>1. PinTypes /\ OnceInserted /\ Listed
  BY FS_EmptySet DEF I!Init, I!Nothing, I!NoItem, PinTypes, OnceInserted, Listed, Listing
<1>2. Counting = {} /\ overlap = {} /\ pins = {} /\ Cardinality({}) = 0
  BY FS_EmptySet DEF I!Init, Counting
<1>3. Counting \cap overlap = {}
  BY <1>2
<1>4. Room
  BY <1>2, <1>3 DEF Room
<1> QED
  BY <1>1, <1>4 DEF PinInv

\* What a page does that leaves the table and the requests that have counted
\* alone.
LEMMA RoomKept ==
  ASSUME Room, UNCHANGED <<pins, overlap>>, Counting' = Counting
  PROVE  Room'
  BY DEF Room

\* Fewer of them, or fewer rows, leave no less room.
LEMMA RoomGrows ==
  ASSUME IsFiniteSet(Pages), PinTypes, Room, overlap' = overlap,
         pins' \subseteq pins, Counting' \subseteq Counting, MaxPins \in Nat
  PROVE  Room' /\ IsFiniteSet(pins')
<1>1. /\ Counting' \cap overlap \subseteq Counting \cap overlap
      /\ Counting \cap overlap \in SUBSET Pages /\ Counting' \cap overlap \in SUBSET Pages
      /\ overlap \in SUBSET Pages
  BY DEF Counting, PinTypes
<1>2. /\ IsFiniteSet(Counting \cap overlap) /\ Cardinality(Counting \cap overlap) \in Nat
      /\ Cardinality(overlap) \in Nat /\ Cardinality(Counting' \cap overlap) \in Nat
  BY <1>1, PagesFinite
<1>3. Cardinality(Counting' \cap overlap) <= Cardinality(Counting \cap overlap)
  BY <1>1, <1>2, FS_Subset
<1>4. /\ IsFiniteSet(pins') /\ Cardinality(pins) \in Nat /\ Cardinality(pins') \in Nat
      /\ Cardinality(pins') <= Cardinality(pins)
  BY FS_Subset, FS_CardinalityType DEF PinTypes
<1>5. \A d \in Counting' : d \in overlap \/ Cardinality(pins') < MaxPins
  BY <1>4 DEF Room
<1>6. Cardinality(pins') + Cardinality(Counting' \cap overlap)
        <= MaxPins + Cardinality(overlap)
  BY <1>2, <1>3, <1>4 DEF Room
<1> QED
  BY <1>4, <1>5, <1>6 DEF Room

\* A page that counts finds room for one.
LEMMA RoomFound ==
  ASSUME IsFiniteSet(Pages), MaxPins \in Nat, PinTypes, Room, UNCHANGED <<pins, overlap>>,
         NEW d \in Pages, Counting' = Counting \cup {d}, d \notin Counting,
         Cardinality(pins) < MaxPins
  PROVE  Room'
<1>1. /\ Counting \cap overlap \in SUBSET Pages /\ overlap \in SUBSET Pages
  BY DEF Counting, PinTypes
<1>2. /\ IsFiniteSet(Counting \cap overlap) /\ Cardinality(Counting \cap overlap) \in Nat
      /\ IsFiniteSet(overlap) /\ Cardinality(overlap) \in Nat /\ Cardinality(pins) \in Nat
  BY <1>1, PagesFinite, FS_CardinalityType DEF PinTypes
<1>3. Counting' \cap overlap' \subseteq overlap /\ IsFiniteSet(Counting' \cap overlap')
  BY <1>1, <1>2, FS_Subset
<1>4. Cardinality(Counting' \cap overlap') <= Cardinality(overlap)
      /\ Cardinality(Counting' \cap overlap') \in Nat
  BY <1>2, <1>3, FS_Subset, FS_CardinalityType
<1> QED
  BY <1>2, <1>4 DEF Room

\* A page that has counted inserts: those that have counted too are on record.
LEMMA RoomTaken ==
  ASSUME IsFiniteSet(Pages), MaxPins \in Nat, PinTypes, Room,
         NEW d \in Counting, NEW i, i \notin pins, pins' = pins \cup {i},
         Counting' = Counting \ {d}, overlap' = overlap \cup Counting'
  PROVE  Room' /\ IsFiniteSet(pins')
<1> DEFINE new == Counting' \ overlap
           before == Counting \cap overlap
           after == Counting'
<1>1. /\ before \in SUBSET Pages /\ overlap \in SUBSET Pages /\ new \in SUBSET Pages
      /\ after \in SUBSET Pages /\ overlap \cup new \in SUBSET Pages /\ {d} \in SUBSET Pages
  BY DEF Counting, PinTypes
<1>2. /\ IsFiniteSet(before) /\ Cardinality(before) \in Nat
      /\ IsFiniteSet(overlap) /\ Cardinality(overlap) \in Nat
      /\ IsFiniteSet(new) /\ Cardinality(new) \in Nat
      /\ IsFiniteSet(after) /\ Cardinality(after) \in Nat
      /\ IsFiniteSet(overlap \cup new) /\ Cardinality(overlap \cup new) \in Nat
  BY <1>1, PagesFinite
<1>3. /\ IsFiniteSet(pins') /\ Cardinality(pins') = Cardinality(pins) + 1
      /\ Cardinality(pins) \in Nat
  BY FS_AddElement, FS_CardinalityType DEF PinTypes
<1>4. overlap' = overlap \cup new /\ overlap \cap new = {} /\ Counting' \cap overlap' = after
  OBVIOUS
<1>5. Cardinality(overlap \cup new) = Cardinality(overlap) + Cardinality(new)
  BY <1>2, <1>4, SizeApart
<1>6. CASE d \in overlap
  <2>1. after = (before \ {d}) \cup new /\ (before \ {d}) \cap new = {} /\ d \in before
    BY <1>6
  <2>2. IsFiniteSet(before \ {d}) /\ Cardinality(before \ {d}) = Cardinality(before) - 1
    BY <1>2, <2>1, FS_RemoveElement
  <2>3. Cardinality(after) = Cardinality(before) - 1 + Cardinality(new)
    <3>1. Cardinality((before \ {d}) \cup new) = Cardinality(before \ {d}) + Cardinality(new)
      BY <1>2, <2>1, <2>2, SizeApart
    <3> QED
      BY <2>1, <2>2, <3>1
  <2>4. Cardinality(pins) + Cardinality(before) <= MaxPins + Cardinality(overlap)
    BY DEF Room
  <2>5. Cardinality(pins') + Cardinality(after) <= MaxPins + Cardinality(overlap \cup new)
    BY <1>2, <1>3, <1>5, <2>3, <2>4
  <2> QED
    BY <1>3, <1>4, <2>5 DEF Room
<1>7. CASE d \notin overlap
  <2>1. Cardinality(pins) < MaxPins
    BY <1>7 DEF Room
  <2>2. after \subseteq overlap \cup new
    OBVIOUS
  <2>3. Cardinality(after) <= Cardinality(overlap \cup new)
    BY <1>2, <2>2, FS_Subset
  <2>4. Cardinality(pins') + Cardinality(after) <= MaxPins + Cardinality(overlap \cup new)
    BY <1>2, <1>3, <2>1, <2>3
  <2> QED
    BY <1>3, <1>4, <2>4 DEF Room
<1> QED
  BY <1>6, <1>7

\* What a page does by itself: the other pages keep what they know.
Alone(d) == \A e \in Pages : e # d =>
  /\ list'[e] = list[e] /\ load'[e] = load[e] /\ read'[e] = read[e]
  /\ add'[e] = add[e] /\ del'[e] = del[e] /\ got'[e] = got[e]

\* It is enough to look at the page, if the others miss what it changes.
LEMMA OnePage ==
  ASSUME PinInv, PinTypes', NEW d \in Pages, Alone(d), made \subseteq made',
         pins' \subseteq made', \A i \in pins' : i \in made => i \in pins,
         \A e \in Pages \ {d} : e \in apart => e \in apart',
         pins' # pins => \A e \in Pages \ {d} : load[e] # "ask" => e \in apart',
         list'[d] \subseteq made', read'[d] \subseteq made',
         add'[d] = "answer" => got'[d].add \in made',
         del'[d] # "idle" => got'[d].del \in made',
         del'[d] = "answer" => got'[d].del \notin pins',
         load'[d] = "done" /\ d \notin apart' => Listing(d)'
  PROVE  OnceInserted' /\ Listed'
<1>1. ASSUME NEW e \in Pages, e # d
      PROVE  /\ list'[e] \subseteq made' /\ read'[e] \subseteq made'
             /\ add'[e] = "answer" => got'[e].add \in made'
             /\ del'[e] # "idle" => got'[e].del \in made'
             /\ del'[e] = "answer" => got'[e].del \notin pins'
  BY <1>1 DEF PinInv, OnceInserted, Alone
<1>2. ASSUME NEW e \in Pages, e # d, load'[e] = "done", e \notin apart'
      PROVE  Listing(e)'
  <2>1. pins' = pins /\ load[e] = "done" /\ e \notin apart
    BY <1>2 DEF Alone
  <2>2. Listing(e)
    BY <2>1 DEF PinInv, Listed
  <2> QED
    BY <1>2, <2>1, <2>2 DEF Listing, Adding, Removing, Alone
<1> QED
  BY <1>1, <1>2 DEF OnceInserted, Listed

\* A page loads its pins.
LEMMA PinsLoaded ==
  ASSUME IsFiniteSet(Pages), MaxPins \in Nat, PinInv, NEW d \in Pages, NEW ok \in BOOLEAN,
         I!Load(d, ok) \/ I!Loaded(d)
  PROVE  PinInv'
<1>1. PinTypes' /\ Alone(d)
  BY DEF PinInv, PinTypes, I!Load, I!Loaded, Alone
<1>2. UNCHANGED <<pins, made, add, got, del, overlap>>
  BY DEF I!Load, I!Loaded
<1>3. Room'
  BY <1>2, RoomKept DEF PinInv, Counting
<1>4. list'[d] \subseteq made /\ read'[d] \subseteq made
  BY DEF PinInv, PinTypes, OnceInserted, I!Load, I!Loaded
<1>5. \A e \in Pages \ {d} : e \in apart => e \in apart'
  BY DEF I!Load, I!Loaded
<1>6. load'[d] = "done" /\ d \notin apart' => list'[d] = pins
  BY DEF PinInv, PinTypes, I!Load, I!Loaded
<1>7. ASSUME list'[d] = pins PROVE Listing(d)'
  BY <1>2, <1>7 DEF Listing, Adding, Removing, PinInv, OnceInserted
<1>8. OnceInserted' /\ Listed'
  BY <1>1, <1>2, <1>4, <1>5, <1>6, <1>7, OnePage DEF PinInv, OnceInserted
<1> QED
  BY <1>1, <1>3, <1>8 DEF PinInv

\* A page asks to add a pin, and the route counts.
LEMMA PinCounted ==
  ASSUME IsFiniteSet(Pages), MaxPins \in Nat, PinInv, NEW d \in Pages, I!Ask(d) \/ I!Count(d)
  PROVE  PinInv'
<1>1. /\ UNCHANGED <<pins, made, list, load, read, got, del, overlap, apart>>
      /\ PinTypes' /\ add[d] # "answer" /\ add'[d] # "answer"
      /\ Alone(d)
  BY DEF PinInv, PinTypes, I!Ask, I!Count, Alone
<1>2. OnceInserted'
  BY <1>1 DEF PinInv, OnceInserted, Alone
<1>3. Listed'
  <2>1. \A e \in Pages : Adding(e)' = Adding(e) /\ Removing(e)' = Removing(e)
    BY <1>1 DEF Adding, Removing, Alone
  <2> QED
    BY <1>1, <2>1 DEF PinInv, Listed, Listing
<1>4. Room'
  <2>1. CASE Counting' = Counting
    BY <1>1, <2>1, RoomKept DEF PinInv
  <2>2. CASE Counting' # Counting
    <3>1. /\ I!Count(d) /\ add[d] = "ask" /\ Cardinality(pins) < MaxPins
          /\ add' = [add EXCEPT ![d] = "counted"]
      BY <2>2, PinSize DEF I!Ask, I!Count, Counting, PinInv, PinTypes
    <3>2. Counting' = Counting \cup {d} /\ d \notin Counting
      BY <3>1 DEF Counting, PinInv, PinTypes
    <3> QED
      BY <1>1, <3>1, <3>2, RoomFound DEF PinInv
  <2> QED
    BY <2>1, <2>2
<1> QED
  BY <1>1, <1>2, <1>3, <1>4 DEF PinInv

LEMMA PinInserted ==
  ASSUME IsFiniteSet(Pages), MaxPins \in Nat, PinInv, NEW d \in Pages, NEW i,
         NEW ok \in BOOLEAN, I!Insert(d, i, ok)
  PROVE  PinInv'
<1>1. /\ UNCHANGED <<list, load, read, del>> /\ d \in Counting /\ i \notin made
      /\ i \notin pins /\ add[d] = "counted" /\ Counting' = Counting \ {d}
      /\ add'[d] = (IF ok THEN "answer" ELSE "idle") /\ Alone(d)
      /\ got'[d].del = got[d].del
  BY DEF PinInv, PinTypes, OnceInserted, I!Insert, Counting, Alone
<1>2. CASE ok
  <2>1. /\ pins' = pins \cup {i} /\ made' = made \cup {i} /\ got'[d].add = i
        /\ overlap' = overlap \cup Counting'
    BY <1>1, <1>2 DEF I!Insert, Counting, PinInv, PinTypes
  <2>2. Room' /\ IsFiniteSet(pins')
    BY <1>1, <2>1, RoomTaken DEF PinInv
  <2>3. PinTypes'
    BY <1>1, <1>2, <2>1, <2>2 DEF PinInv, PinTypes, I!Insert, Counting
  <2>4. \A e \in Pages \ {d} : /\ e \in apart => e \in apart'
                               /\ load[e] # "ask" => e \in apart'
    BY <1>2 DEF I!Insert, I!Missing
  <2>5. d \in apart => d \in apart'
    BY <1>2 DEF I!Insert
  <2>6. ASSUME load'[d] = "done", d \notin apart' PROVE Listing(d)'
    <3>1. Listing(d) /\ Adding(d) = {} /\ Adding(d)' = {i} /\ Removing(d)' = Removing(d)
      BY <1>1, <1>2, <2>1, <2>5, <2>6 DEF PinInv, Listed, Adding, Removing
    <3>2. i \notin Removing(d) /\ list[d] \ Removing(d) = pins
      BY <1>1, <3>1 DEF Removing, PinInv, OnceInserted, Listing
    <3> QED
      BY <1>1, <2>1, <3>1, <3>2 DEF Listing
  <2>7. /\ list'[d] \subseteq made' /\ read'[d] \subseteq made'
        /\ got'[d].add \in made' /\ pins' \subseteq made'
        /\ del'[d] # "idle" => got'[d].del \in made'
        /\ del'[d] = "answer" => got'[d].del \notin pins'
        /\ \A j \in pins' : j \in made => j \in pins
    BY <1>1, <2>1 DEF PinInv, OnceInserted
  <2>8. OnceInserted' /\ Listed'
    BY <1>1, <2>1, <2>3, <2>4, <2>6, <2>7, OnePage
  <2> QED
    BY <2>2, <2>3, <2>8 DEF PinInv
<1>3. CASE ~ok
  <2>1. UNCHANGED <<pins, made, got, overlap, apart>> /\ PinTypes'
    BY <1>1, <1>3 DEF I!Insert, PinInv, PinTypes
  <2>2. Room'
    BY <1>1, <2>1, RoomGrows DEF PinInv
  <2>3. OnceInserted' /\ Listed'
    <3>1. \A e \in Pages : Adding(e)' = Adding(e) /\ Removing(e)' = Removing(e)
      BY <1>1, <1>3, <2>1 DEF Adding, Removing, Alone
    <3> QED
      BY <1>1, <1>3, <2>1, <3>1 DEF PinInv, OnceInserted, Listed, Listing, Alone
  <2> QED
    BY <2>1, <2>2, <2>3 DEF PinInv
<1> QED
  BY <1>2, <1>3

LEMMA PinAdded ==
  ASSUME IsFiniteSet(Pages), MaxPins \in Nat, PinInv, NEW d \in Pages, NEW heard \in BOOLEAN,
         I!Added(d, heard)
  PROVE  PinInv'
<1>1. /\ UNCHANGED <<pins, made, load, read, del, overlap>> /\ PinTypes' /\ Alone(d)
      /\ add[d] = "answer" /\ add'[d] = "idle" /\ got'[d].del = got[d].del
      /\ Counting' = Counting
  BY DEF PinInv, PinTypes, I!Added, Alone, Counting
<1>2. /\ list'[d] \subseteq made /\ apart \subseteq apart'
      /\ d \notin apart' => list'[d] = list[d] \cup {got[d].add} /\ got[d].add \in pins
  BY DEF PinInv, PinTypes, OnceInserted, I!Added
<1>3. Room'
  BY <1>1, RoomKept DEF PinInv
<1>4. ASSUME load'[d] = "done", d \notin apart' PROVE Listing(d)'
  <2>1. Listing(d) /\ Adding(d) = {got[d].add} /\ Adding(d)' = {} /\ Removing(d)' = Removing(d)
    BY <1>1, <1>2, <1>4 DEF PinInv, Listed, Adding, Removing
  <2> QED
    BY <1>1, <1>2, <1>4, <2>1 DEF Listing
<1>5. OnceInserted' /\ Listed'
  BY <1>1, <1>2, <1>4, OnePage DEF PinInv, OnceInserted
<1> QED
  BY <1>1, <1>3, <1>5 DEF PinInv

LEMMA PinDeleted ==
  ASSUME IsFiniteSet(Pages), MaxPins \in Nat, PinInv, NEW d \in Pages, NEW ok \in BOOLEAN,
         NEW i, I!Remove(d, i) \/ I!Delete(d, ok)
  PROVE  PinInv'
<1>1. /\ UNCHANGED <<made, list, load, read, add, overlap>> /\ Alone(d)
      /\ got'[d].add = got[d].add /\ Counting' = Counting /\ del[d] # "answer"
      /\ pins' \subseteq pins /\ apart \subseteq apart'
  BY DEF PinInv, PinTypes, I!Remove, I!Delete, Alone, Counting
<1>2. Room' /\ IsFiniteSet(pins')
  BY <1>1, RoomGrows DEF PinInv
<1>3. PinTypes'
  BY <1>1, <1>2 DEF PinInv, PinTypes, I!Remove, I!Delete
<1>4. /\ del'[d] # "idle" => got'[d].del \in made
      /\ pins' = IF del'[d] = "answer" THEN pins \ {got'[d].del} ELSE pins
  BY DEF PinInv, PinTypes, OnceInserted, I!Remove, I!Delete
<1>5. pins' # pins => \A e \in Pages \ {d} : load[e] # "ask" => e \in apart'
  BY DEF I!Remove, I!Delete, I!Missing
<1>6. ASSUME load'[d] = "done", d \notin apart' PROVE Listing(d)'
  <2>1. /\ Listing(d) /\ Adding(d)' = Adding(d) /\ Removing(d) = {}
        /\ Removing(d)' = IF del'[d] = "answer" THEN {got'[d].del} ELSE {}
    BY <1>1, <1>6 DEF PinInv, Listed, Adding, Removing
  <2> QED
    BY <1>1, <1>4, <2>1 DEF Listing
<1>7. OnceInserted' /\ Listed'
  BY <1>1, <1>3, <1>4, <1>5, <1>6, OnePage DEF PinInv, OnceInserted
<1> QED
  BY <1>2, <1>3, <1>7 DEF PinInv

LEMMA PinRemoved ==
  ASSUME IsFiniteSet(Pages), MaxPins \in Nat, PinInv, NEW d \in Pages, NEW heard \in BOOLEAN,
         I!Removed(d, heard)
  PROVE  PinInv'
<1>1. /\ UNCHANGED <<pins, made, load, read, add, overlap>> /\ PinTypes' /\ Alone(d)
      /\ del[d] = "answer" /\ del'[d] = "idle" /\ got'[d].add = got[d].add
      /\ Counting' = Counting
  BY DEF PinInv, PinTypes, I!Removed, Alone, Counting
<1>2. /\ list'[d] \subseteq made /\ apart \subseteq apart'
      /\ d \notin apart' => list'[d] = list[d] \ {got[d].del}
  BY DEF PinInv, PinTypes, OnceInserted, I!Removed
<1>3. Room'
  BY <1>1, RoomKept DEF PinInv
<1>4. ASSUME load'[d] = "done", d \notin apart' PROVE Listing(d)'
  <2>1. Listing(d) /\ Removing(d) = {got[d].del} /\ Removing(d)' = {} /\ Adding(d)' = Adding(d)
    BY <1>1, <1>2, <1>4 DEF PinInv, Listed, Adding, Removing
  <2> QED
    BY <1>1, <1>2, <1>4, <2>1 DEF Listing
<1>5. OnceInserted' /\ Listed'
  BY <1>1, <1>2, <1>4, OnePage DEF PinInv, OnceInserted
<1> QED
  BY <1>1, <1>3, <1>5 DEF PinInv

LEMMA PinStep ==
  ASSUME IsFiniteSet(Pages), MaxPins \in Nat, PinInv, [I!Next]_(I!pinVars)
  PROVE  PinInv'
<1>1. CASE UNCHANGED I!pinVars
  <2>1. UNCHANGED <<pins, made, list, load, read, add, got, del, overlap, apart>>
    BY <1>1 DEF I!pinVars
  <2>2. Counting' = Counting
    BY <2>1 DEF Counting
  <2>3. Room'
    BY <2>1, <2>2, RoomKept DEF PinInv
  <2> QED
    BY <2>1, <2>3 DEF PinInv, PinTypes, OnceInserted, Listed, Listing, Adding, Removing
<1>2. CASE I!Next
  BY <1>2, PinsLoaded, PinCounted, PinInserted, PinAdded, PinDeleted, PinRemoved DEF I!Next
<1> QED
  BY <1>1, <1>2

LEMMA PinsKept ==
  ASSUME IsFiniteSet(Pages), MaxPins \in Nat, PinInv
  PROVE  I!PinsAccounted
<1>1. I!PinsBounded
  <2>1. overlap \in SUBSET Pages /\ Counting \cap overlap \in SUBSET Pages
    BY DEF PinInv, PinTypes, Counting
  <2>2. /\ Cardinality(overlap) \in Nat /\ Cardinality(Counting \cap overlap) \in Nat
        /\ Cardinality(pins) \in Nat
    BY <2>1, PagesFinite, FS_CardinalityType DEF PinInv, PinTypes
  <2>3. Cardinality(pins) <= MaxPins + Cardinality(overlap)
    BY <2>2 DEF PinInv, Room
  <2> QED
    BY <2>3, PinSize DEF I!PinsBounded
<1>2. I!PinsListed
  BY DEF I!PinsListed, PinInv, Listed, Listing, Adding, Removing
<1> QED
  BY <1>1, <1>2 DEF I!PinsAccounted

-----------------------------------------------------------------------------
(* The move of the data to SQLite.                                         *)

Loads == {"load", "index"}
Checking == {"count", "sample"}
Later == {"secrets-export", "secrets", "files", "end"}
RowSet == [M!Tables -> [M!Ids -> Nat]]
Target == [there : {TRUE}, rows : RowSet, indexed : BOOLEAN,
           auth : [M!Kinds -> [M!Ids -> Nat]], moved : SUBSET M!Ids]
Stages == {"none", "begin", "export", "append", "import"} \cup Loads \cup Checking
          \cup Later
Script == [job : {"none", "run", "begin", "import", "secrets-export", "secrets", "files"},
           at : Stages, t : 0 .. 2, dry : BOOLEAN, good : BOOLEAN, snap : RowSet]

MoveTypes ==
  /\ live \in RowSet /\ writes \in Nat /\ dump \in RowSet
  /\ secrets \in [M!Kinds -> SUBSET M!Ids]
  /\ file \in [{"real", "scratch"} -> Target \cup {M!NoFile}]
  /\ uploads \in SUBSET M!Ids
  /\ script \in Script
  /\ snapAt \in Nat /\ snapAt <= writes
  /\ done \in BOOLEAN /\ left \in BOOLEAN /\ again \in BOOLEAN
  /\ \A t \in M!Tables, i \in M!Ids : live[t][i] <= writes

\* Rows without any of a later write than the snapshot saw, and with every
\* one of its own that is still live.
Fits(rows) == \A t \in M!Tables, i \in M!Ids :
  /\ rows[t][i] <= snapAt
  /\ live[t][i] # 0 /\ live[t][i] <= snapAt => rows[t][i] = live[t][i]

\* What an export has read and dumped so far.
Exporting ==
  /\ script.at \in {"begin", "export", "append", "import"} => ~script.dry
  /\ script.at \in {"export", "append"} =>
       /\ script.t \in M!Tables /\ Fits(script.snap)
       /\ \A u \in M!Tables : u < script.t => dump[u] = script.snap[u]
  /\ script.job = "run" /\ script.at \in {"import", "load"} => Fits(dump)

\* A target has no credentials before its import is over, and a half-loaded
\* one is being loaded, or was left by the script that did.
Bare == \A k \in M!Kinds : M!Target.auth[k] = M!NoRows
Loading ==
  /\ script.at \in Loads => M!Target.there /\ Bare
  /\ script.at = "load" =>
       /\ script.t \in M!Tables
       /\ \A u \in M!Tables :
            M!Target.rows[u] = IF u < script.t THEN dump[u] ELSE M!NoRows
  /\ M!Real.there /\ ~M!Real.indexed => left \/ (script.at \in Loads /\ ~script.dry)

\* What a run has loaded fits its snapshot until the end, and afterwards.
Complete(f) == f.there /\ f.indexed /\ Fits(f.rows)
Moving ==
  /\ script.job = "run" /\ script.at = "index" => Fits(M!Target.rows)
  /\ script.job = "run" /\ script.at \in Checking \cup Later => Complete(M!Target)
  /\ script.job = "run" /\ script.at \in Checking \cup {"secrets-export"} => Bare
  /\ script.at \in Checking \cup {"end"} => script.job = "run"
  /\ done => script = M!Quiet
  /\ done /\ M!Real.there => Complete(M!Real)

\* The secrets of a kind are not in the target before their turn, unless they
\* are imported again.
Turns ==
  /\ script.at \in Checking \cup {"secrets-export", "secrets"} => script.t \in {0, 1}
  /\ script.at = "secrets" /\ ~script.dry /\ M!Real.there =>
       again \/ \A k \in M!Kinds : k > script.t => M!Real.auth[k] = M!NoRows

MoveInv == /\ MoveTypes /\ Exporting /\ Loading /\ Moving /\ Turns
           /\ M!ReferencesHold /\ M!OnceEach

LEMMA StageNames ==
  /\ Loads \cup Checking \cup Later \cup {"none", "begin", "export", "append", "import"}
       = Stages
  /\ "load" \in Stages /\ "index" \in Stages /\ "count" \in Stages /\ "sample" \in Stages
  /\ "secrets-export" \in Stages /\ "secrets" \in Stages /\ "files" \in Stages
  /\ "end" \in Stages /\ "none" \in Stages /\ "begin" \in Stages
  /\ "export" \in Stages /\ "append" \in Stages /\ "import" \in Stages
  /\ 0 \in 0 .. 2 /\ 1 \in 0 .. 2 /\ 2 \in 0 .. 2
  BY DEF Stages, Loads, Checking, Later

LEMMA TargetThere ==
  ASSUME MoveTypes, NEW p \in {"real", "scratch"}, file[p].there
  PROVE  /\ file[p] \in Target /\ file[p].there = TRUE /\ file[p].rows \in RowSet
         /\ file[p].auth \in [M!Kinds -> [M!Ids -> Nat]] /\ file[p].indexed \in BOOLEAN
         /\ file[p].moved \in SUBSET M!Ids
<1>1. file[p] \in Target \cup {M!NoFile}
  BY DEF MoveTypes
<1>2. ~M!NoFile.there
  BY DEF M!NoFile
<1>3. file[p] \in Target
  BY <1>1, <1>2
<1> QED
  BY <1>3 DEF Target

LEMMA MoveCounted ==
  ASSUME MoveInv
  PROVE  M!MigrationAccounted
<1>1. M!NothingLost
  <2>1. SUFFICES ASSUME done, M!Real.there PROVE
           /\ M!Real.indexed
           /\ \A t \in M!Tables, i \in M!Ids :
                /\ M!Real.rows[t][i] \in 0 .. snapAt
                /\ live[t][i] \in 1 .. snapAt => M!Real.rows[t][i] = live[t][i]
    BY DEF M!NothingLost
  <2>2. M!Real.indexed /\ Fits(M!Real.rows)
    BY <2>1 DEF MoveInv, Moving, Complete
  <2>3. M!Real.rows \in RowSet /\ live \in RowSet /\ snapAt \in Nat
    BY <2>1, TargetThere DEF MoveInv, MoveTypes, M!Real
  <2>4. ASSUME NEW t \in M!Tables, NEW i \in M!Ids
        PROVE  /\ M!Real.rows[t][i] \in 0 .. snapAt
               /\ live[t][i] \in 1 .. snapAt => M!Real.rows[t][i] = live[t][i]
    <3>1. M!Real.rows[t][i] \in Nat /\ live[t][i] \in Nat
      BY <2>3 DEF RowSet
    <3>2. /\ M!Real.rows[t][i] <= snapAt
          /\ live[t][i] # 0 /\ live[t][i] <= snapAt => M!Real.rows[t][i] = live[t][i]
      BY <2>2 DEF Fits
    <3> QED
      BY <2>3, <3>1, <3>2
  <2> QED
    BY <2>2, <2>4
<1>2. M!NoHalfTarget
  BY DEF M!NoHalfTarget, MoveInv, Loading, M!Quiet, Loads
<1> QED
  BY <1>1, <1>2 DEF M!MigrationAccounted, MoveInv

LEMMA MoveInit ==
  ASSUME MaxWrites \in Nat, M!Init
  PROVE  MoveInv
<1>1. M!Missing \in [M!Ids -> Nat] /\ M!NoRows \in [M!Ids -> Nat]
  BY DEF M!Missing, M!NoRows
<1>2. M!Quiet \in Script /\ M!Quiet.at = "none" /\ M!Quiet.job = "none"
  BY <1>1 DEF M!Quiet, Script, RowSet, Stages
<1>3. live \in RowSet /\ \A t \in M!Tables, i \in M!Ids : live[t][i] <= 1
  BY DEF M!Init, RowSet
<1>4. ~file["real"].there /\ ~file["scratch"].there
  BY DEF M!Init, M!NoFile
<1>5. MoveTypes
  <2>1. live \in RowSet /\ dump \in RowSet /\ script \in Script
    BY <1>1, <1>2, <1>3 DEF M!Init, RowSet
  <2>2. /\ secrets \in [M!Kinds -> SUBSET M!Ids] /\ uploads \in SUBSET M!Ids
        /\ file \in [{"real", "scratch"} -> Target \cup {M!NoFile}]
    BY DEF M!Init
  <2>3. /\ writes = 1 /\ snapAt = 0 /\ done \in BOOLEAN /\ left \in BOOLEAN
        /\ again \in BOOLEAN
    BY DEF M!Init
  <2> QED
    BY <1>3, <2>1, <2>2, <2>3 DEF MoveTypes
<1>6. Exporting /\ Loading /\ Moving /\ Turns
  BY <1>2, <1>4 DEF M!Init, Exporting, Loading, Moving, Turns, Loads, Checking, Later, M!Real
<1>7. M!ReferencesHold /\ M!OnceEach
  BY <1>4 DEF M!ReferencesHold, M!OnceEach, M!Real
<1> QED
  BY <1>5, <1>6, <1>7 DEF MoveInv

LEMMA EmptyRows ==
  /\ M!NoRows \in [M!Ids -> Nat] /\ M!Rows(M!NoRows) = {}
  /\ M!Quiet \in Script /\ M!Quiet.at = "none" /\ M!Quiet.job = "none"
  /\ M!Quiet.t = 0 /\ ~M!Quiet.dry
<1>1. M!NoRows \in [M!Ids -> Nat] /\ M!Rows(M!NoRows) = {}
  BY DEF M!NoRows, M!Rows
<1>2. M!Quiet \in Script /\ M!Quiet.at = "none" /\ M!Quiet.job = "none"
      /\ M!Quiet.t = 0 /\ ~M!Quiet.dry
  BY <1>1 DEF M!Quiet, Script, RowSet, Stages
<1> QED
  BY <1>1, <1>2

\* A later write does not disturb what fits, nor does a row that is gone.
LEMMA LiveChanges ==
  ASSUME MoveInv, NEW t \in M!Tables, NEW i \in M!Ids, M!Write(t, i) \/ M!Erase(t, i)
  PROVE  MoveInv'
<1>1. /\ UNCHANGED <<dump, secrets, file, uploads, script, started, snapAt, done, left, again>>
      /\ writes' = writes + 1 /\ writes \in Nat /\ snapAt \in Nat /\ snapAt <= writes
      /\ live \in RowSet
      /\ \A u \in M!Tables, j \in M!Ids : live[u][j] \in Nat /\ live[u][j] <= writes
  BY DEF M!Write, M!Erase, M!liveOnly, MoveInv, MoveTypes, RowSet
<1>2. live' \in RowSet
  <2>1. CASE M!Write(t, i)
    <3>1. live' = [live EXCEPT ![t] = [live[t] EXCEPT ![i] = writes + 1]]
      BY <2>1 DEF M!Write
    <3>2. [live[t] EXCEPT ![i] = writes + 1] \in [M!Ids -> Nat]
      BY <1>1 DEF RowSet
    <3> QED
      BY <1>1, <3>1, <3>2 DEF RowSet
  <2>2. CASE M!Erase(t, i)
    <3>1. ASSUME NEW u \in M!Tables PROVE live'[u] \in [M!Ids -> Nat]
      BY <1>1, <2>2 DEF M!Erase, RowSet
    <3>2. live' = [u \in M!Tables |-> live'[u]]
      BY <2>2 DEF M!Erase
    <3> QED
      BY <3>1, <3>2 DEF RowSet
  <2> QED
    BY <2>1, <2>2
<1>3. \A u \in M!Tables, j \in M!Ids : live'[u][j] \in {live[u][j], 0, writes + 1}
  BY <1>1 DEF M!Write, M!Erase, RowSet
<1>4. \A rows : Fits(rows) => Fits(rows)'
  BY <1>1, <1>3 DEF Fits
<1>5. MoveTypes'
  BY <1>1, <1>2, <1>3 DEF MoveInv, MoveTypes
<1>6. Fits(script.snap) => Fits(script.snap)'
  BY <1>1, <1>4
<1>7. Fits(dump) => Fits(dump)'
  BY <1>1, <1>4
<1>8. Fits(M!Target.rows) => Fits(M!Target.rows)'
  BY <1>1, <1>4 DEF M!Target, M!Path
<1>9. Fits(M!Real.rows) => Fits(M!Real.rows)'
  BY <1>1, <1>4 DEF M!Real
<1>10. Exporting'
  BY <1>1, <1>6, <1>7 DEF MoveInv, Exporting
<1>11. Loading' /\ Turns' /\ M!ReferencesHold' /\ M!OnceEach'
  BY <1>1 DEF MoveInv, Loading, Turns, Bare, M!Target, M!Path, M!Real, M!ReferencesHold,
              M!OnceEach
<1>12. M!Target.there' = M!Target.there /\ M!Real.there' = M!Real.there
       /\ M!Target.indexed' = M!Target.indexed /\ M!Real.indexed' = M!Real.indexed
       /\ Bare' = Bare
  BY <1>1 DEF Bare, M!Target, M!Path, M!Real
<1>13. Moving'
  BY <1>1, <1>8, <1>9, <1>12 DEF MoveInv, Moving, Complete
<1> QED
  BY <1>5, <1>10, <1>11, <1>13 DEF MoveInv

\* Between the scripts there is little to say.
LEMMA ScriptEnds ==
  ASSUME MoveInv, MoveTypes', script' = M!Quiet, M!ReferencesHold', M!OnceEach',
         done' /\ M!Real.there' => Complete(M!Real)',
         M!Real.there' /\ ~M!Real.indexed' => left'
  PROVE  MoveInv'
<1>1. /\ script'.at = "none" /\ script'.job = "none"
  BY EmptyRows
<1>2. Exporting' /\ Loading' /\ Turns'
  BY <1>1 DEF Exporting, Loading, Turns, Loads, Checking, Later
<1>3. Moving'
  BY <1>1 DEF Moving, Loads, Checking, Later
<1> QED
  BY <1>2, <1>3 DEF MoveInv

LEMMA FilesStay ==
  ASSUME MoveInv, file' = file, uploads \subseteq uploads', again => again'
  PROVE  M!ReferencesHold' /\ M!OnceEach'
  BY DEF MoveInv, M!ReferencesHold, M!OnceEach, M!Real

\* The target as it was, or gone.
LEMMA FilesGo ==
  ASSUME MoveInv, UNCHANGED <<uploads, again>>, file' \in [{"real", "scratch"} -> Target \cup {M!NoFile}],
         \A p \in {"real", "scratch"} : file'[p] \in {file[p], M!NoFile}
  PROVE  M!ReferencesHold' /\ M!OnceEach'
<1>1. ~M!NoFile.there
  BY DEF M!NoFile
<1>2. \A p \in {"real", "scratch"} : file'[p].there => file'[p] = file[p]
  BY <1>1
<1>3. M!ReferencesHold'
  BY <1>2 DEF MoveInv, M!ReferencesHold
<1>4. M!OnceEach'
  BY <1>2 DEF MoveInv, M!OnceEach, M!Real
<1> QED
  BY <1>3, <1>4

LEMMA ScriptStarts ==
  ASSUME MoveInv,
         M!Run \/ \E at \in {"begin", "import", "secrets-export", "secrets", "files"} : M!RunStep(at)
  PROVE  MoveInv'
<1>1. /\ UNCHANGED <<live, writes, dump, secrets, uploads, snapAt, left, file>>
      /\ script = M!Quiet /\ done' = FALSE
      /\ again' \in BOOLEAN /\ (again => again')
      /\ script'.t = 0 /\ ~script'.dry /\ script' \in Script
      /\ script'.at \in {"begin", "import", "secrets-export", "secrets", "files"}
      /\ script'.job = "run" => script'.at = "begin"
      /\ script'.at = "secrets" =>
           again' \/ ~M!Real.there \/ \A k \in M!Kinds : M!Rows(M!Real.auth[k]) = {}
  <2>1. CASE M!Run
    BY <2>1, EmptyRows DEF M!Run, M!idleVars, MoveInv, MoveTypes, Script, Stages
  <2>2. CASE \E at \in {"begin", "import", "secrets-export", "secrets", "files"} : M!RunStep(at)
    <3>1. PICK at \in {"begin", "import", "secrets-export", "secrets", "files"} :
            M!RunStep(at)
      BY <2>2
    <3>2. script' = [M!Quiet EXCEPT !.job = at, !.at = at]
      BY <3>1 DEF M!RunStep
    <3>3. /\ script' \in Script /\ script'.t = 0 /\ ~script'.dry
          /\ script'.at = at /\ script'.job = at
      BY <3>2, EmptyRows DEF Script, Stages, Later
    <3>4. again \in BOOLEAN
      BY DEF MoveInv, MoveTypes
    <3>5. /\ again' \in BOOLEAN /\ (again => again')
          /\ at = "secrets" =>
               again' \/ ~M!Real.there \/ \A k \in M!Kinds : M!Rows(M!Real.auth[k]) = {}
      BY <3>1, <3>4 DEF M!RunStep, M!Real
    <3>6. /\ UNCHANGED <<live, writes, dump, secrets, uploads, snapAt, left, file>>
          /\ script = M!Quiet /\ done' = FALSE
      BY <3>1 DEF M!RunStep, M!idleVars
    <3> QED
      BY <3>3, <3>5, <3>6
  <2> QED
    BY <2>1, <2>2
<1>2. MoveTypes'
  BY <1>1 DEF MoveInv, MoveTypes
<1>3. M!ReferencesHold' /\ M!OnceEach'
  BY <1>1, FilesStay
<1>4. Exporting' /\ Moving'
  BY <1>1 DEF Exporting, Moving, Loads, Checking, Later
<1>5. Loading'
  BY <1>1, EmptyRows DEF MoveInv, Loading, Loads, M!Real
<1>6. Turns'
  <2>1. SUFFICES ASSUME script'.at = "secrets", M!Real.there, ~again', NEW k \in M!Kinds
                 PROVE  M!Real.auth[k] = M!NoRows
    BY <1>1 DEF Turns, M!Real, Checking
  <2>2. M!Rows(M!Real.auth[k]) = {} /\ M!Real.auth[k] \in [M!Ids -> Nat]
    BY <1>1, <2>1, TargetThere DEF MoveInv, M!Real
  <2> QED
    BY <2>2 DEF M!Rows, M!NoRows
<1> QED
  BY <1>2, <1>3, <1>4, <1>5, <1>6 DEF MoveInv

\* The export: what has been dumped is what was read, at one moment.
LEMMA Exports ==
  ASSUME MoveInv, M!Begin \/ M!Empty \/ M!Append \/ M!ExportFails
  PROVE  MoveInv'
<1>1. /\ UNCHANGED <<live, writes, secrets, uploads, started, done, left, again>>
      /\ script \in Script /\ dump \in RowSet /\ live \in RowSet /\ script # M!Quiet
      /\ script.at \in {"begin", "export", "append"}
      /\ writes \in Nat /\ snapAt \in Nat /\ snapAt <= writes
      /\ \A t \in M!Tables, i \in M!Ids : live[t][i] \in Nat /\ live[t][i] <= writes
  BY EmptyRows DEF M!Begin, M!Empty, M!Append, M!ExportFails, M!exportRest, MoveInv,
     MoveTypes, RowSet
<1>2. ~done /\ ~script.dry
  BY <1>1 DEF MoveInv, MoveTypes, Moving, Exporting
<1>3. M!ReferencesHold /\ M!OnceEach
  BY DEF MoveInv
<1>4. M!Real.there /\ ~M!Real.indexed => left
  BY <1>1 DEF MoveInv, Loading, Loads
<1>5. CASE M!Begin
  <2>1. /\ script' = [script EXCEPT !.at = "export", !.t = 1, !.snap = live]
        /\ snapAt' = writes /\ UNCHANGED <<dump, file>>
    BY <1>5 DEF M!Begin
  <2>2. /\ script' \in Script /\ script'.at = "export" /\ script'.t = 1
        /\ script'.snap = live /\ ~script'.dry
    BY <1>1, <1>2, <2>1, StageNames DEF Script
  <2>3. MoveTypes'
    BY <1>1, <2>1, <2>2 DEF MoveInv, MoveTypes
  <2>4. Exporting'
    <3>1. Fits(script.snap)'
      BY <1>1, <2>1, <2>2 DEF Fits
    <3> QED
      BY <2>2, <3>1 DEF Exporting, M!Tables
  <2>5. Loading' /\ Turns' /\ Moving'
    BY <1>1, <1>2, <1>4, <2>1, <2>2
       DEF Loading, Turns, Moving, Loads, Checking, Later, M!Real
  <2>6. M!ReferencesHold' /\ M!OnceEach'
    BY <1>1, <2>1, FilesStay
  <2> QED
    BY <2>3, <2>4, <2>5, <2>6 DEF MoveInv
<1>6. CASE M!Empty
  <2>1. /\ script' = [script EXCEPT !.at = "append"] /\ script.at = "export"
        /\ dump' = [dump EXCEPT ![script.t] = M!NoRows] /\ UNCHANGED <<file, snapAt>>
    BY <1>6 DEF M!Empty
  <2>2. /\ script' \in Script /\ script'.at = "append" /\ script'.t = script.t
        /\ script'.snap = script.snap /\ ~script'.dry
    BY <1>1, <1>2, <2>1 DEF Script, Stages
  <2>3. dump' \in RowSet
    BY <1>1, <2>1, EmptyRows DEF RowSet
  <2>4. MoveTypes'
    BY <1>1, <2>1, <2>2, <2>3 DEF MoveInv, MoveTypes
  <2>5. Exporting'
    <3>1. Fits(script.snap)'
      BY <1>1, <2>1, <2>2 DEF MoveInv, Exporting, Fits
    <3>2. /\ script.t \in M!Tables /\ script.t \in Nat
          /\ \A u \in M!Tables : u < script.t => dump[u] = script.snap[u]
      BY <2>1 DEF MoveInv, Exporting, M!Tables
    <3>3. \A u \in M!Tables : u < script.t => dump'[u] = script.snap[u]
      BY <1>1, <2>1, <3>2 DEF M!Tables, RowSet
    <3> QED
      BY <2>2, <3>1, <3>2, <3>3 DEF Exporting
  <2>6. Loading' /\ Turns' /\ Moving'
    BY <1>1, <1>2, <1>4, <2>1, <2>2
       DEF Loading, Turns, Moving, Loads, Checking, Later, M!Real
  <2>7. M!ReferencesHold' /\ M!OnceEach'
    BY <1>1, <2>1, FilesStay
  <2> QED
    BY <2>4, <2>5, <2>6, <2>7 DEF MoveInv
<1>7. CASE M!ExportFails
  <2>1. /\ script' = M!Quiet /\ file' = [file EXCEPT !["scratch"] = M!NoFile]
        /\ UNCHANGED <<dump, snapAt>>
    BY <1>7 DEF M!ExportFails, M!AtEnd
  <2>2. MoveTypes'
    BY <1>1, <2>1, EmptyRows DEF MoveInv, MoveTypes
  <2>3. M!ReferencesHold' /\ M!OnceEach'
    BY <1>1, <2>1, FilesGo DEF MoveInv, MoveTypes
  <2>4. M!Real' = M!Real
    BY <2>1 DEF M!Real, MoveInv, MoveTypes
  <2> QED
    BY <1>1, <1>2, <1>4, <2>1, <2>2, <2>3, <2>4, ScriptEnds
<1>8. CASE M!Append
  <2> DEFINE t == script.t
  <2>1. /\ script.at = "append" /\ UNCHANGED snapAt
        /\ dump' = [dump EXCEPT ![t] = script.snap[t]]
    BY <1>8 DEF M!Append, M!Read
  <2>2. /\ t \in M!Tables /\ t \in Nat /\ Fits(script.snap)
        /\ script.snap \in RowSet
        /\ \A u \in M!Tables : u < t => dump[u] = script.snap[u]
    BY <1>1, <2>1 DEF MoveInv, Exporting, M!Tables, Script
  <2>3. dump' \in RowSet
    BY <1>1, <2>1, <2>2 DEF RowSet
  <2>4. \A u \in M!Tables : u < t + 1 => dump'[u] = script.snap[u]
    BY <1>1, <2>1, <2>2 DEF M!Tables, RowSet
  <2>5. CASE t + 1 \in M!Tables
    <3>1. /\ script' = [script EXCEPT !.at = "export", !.t = t + 1] /\ file' = file
      BY <1>8, <2>5 DEF M!Append
    <3>2. /\ script' \in Script /\ script'.at = "export" /\ script'.t = t + 1
          /\ script'.snap = script.snap /\ ~script'.dry
      <4>1. t + 1 \in 0 .. 2
        BY <2>5 DEF M!Tables
      <4> QED
        BY <1>1, <1>2, <3>1, <4>1, StageNames DEF Script
    <3>3. MoveTypes'
      BY <1>1, <2>1, <2>3, <3>1, <3>2 DEF MoveInv, MoveTypes
    <3>4. Fits(script.snap)'
      BY <1>1, <2>1, <2>2, <3>2 DEF Fits
    <3>5. Exporting'
      BY <2>4, <2>5, <3>2, <3>4 DEF Exporting
    <3>6. Loading' /\ Turns' /\ Moving'
      BY <1>1, <1>2, <1>4, <2>1, <3>1, <3>2
         DEF Loading, Turns, Moving, Loads, Checking, Later, M!Real
    <3>7. M!ReferencesHold' /\ M!OnceEach'
      BY <1>1, <3>1, FilesStay
    <3> QED
      BY <3>3, <3>5, <3>6, <3>7 DEF MoveInv
  <2>6. CASE t + 1 \notin M!Tables /\ script.job = "run"
    <3>1. script' = [script EXCEPT !.at = "import", !.t = 0, !.good = TRUE] /\ file' = file
      BY <1>8, <2>6 DEF M!Append, M!GoOn
    <3>2. script' \in Script /\ script'.at = "import" /\ ~script'.dry
      BY <1>1, <1>2, <3>1, StageNames DEF Script
    <3>3. MoveTypes'
      BY <1>1, <2>1, <2>3, <3>1, <3>2 DEF MoveInv, MoveTypes
    <3>4. \A u \in M!Tables : dump'[u] = script.snap[u]
      BY <2>2, <2>4, <2>6 DEF M!Tables
    <3>5. Fits(dump)'
      BY <1>1, <2>1, <2>2, <3>4 DEF Fits
    <3>6. Exporting'
      BY <3>2, <3>5 DEF Exporting
    <3>7. Loading' /\ Turns' /\ Moving'
      BY <1>1, <1>2, <1>4, <2>1, <3>1, <3>2
         DEF Loading, Turns, Moving, Loads, Checking, Later, M!Real
    <3>8. M!ReferencesHold' /\ M!OnceEach'
      BY <1>1, <3>1, FilesStay
    <3> QED
      BY <3>3, <3>6, <3>7, <3>8 DEF MoveInv
  <2>7. CASE t + 1 \notin M!Tables /\ script.job # "run"
    <3>1. /\ script' = M!Quiet /\ file' = [file EXCEPT !["scratch"] = M!NoFile]
      BY <1>8, <2>7 DEF M!Append, M!GoOn, M!AtEnd
    <3>2. MoveTypes'
      BY <1>1, <2>1, <2>3, <3>1, EmptyRows DEF MoveInv, MoveTypes
    <3>3. M!ReferencesHold' /\ M!OnceEach'
      BY <1>1, <3>1, FilesGo DEF MoveInv, MoveTypes
    <3>4. M!Real' = M!Real
      BY <3>1 DEF M!Real, MoveInv, MoveTypes
    <3> QED
      BY <1>1, <1>2, <1>4, <3>1, <3>2, <3>3, <3>4, ScriptEnds
  <2> QED
    BY <2>5, <2>6, <2>7
<1> QED
  BY <1>5, <1>6, <1>7, <1>8

\* A script that runs is not over.
LEMMA Running ==
  ASSUME MoveInv, script.at # "none"
  PROVE  /\ ~done /\ script # M!Quiet
         /\ MoveTypes /\ script \in Script /\ dump \in RowSet
         /\ M!Path \in {"real", "scratch"}
  BY EmptyRows DEF MoveInv, MoveTypes, Moving, M!Path

LEMMA FileSet ==
  ASSUME MoveTypes, NEW p \in {"real", "scratch"}, NEW f \in Target \cup {M!NoFile},
         file' = [file EXCEPT ![p] = f]
  PROVE  /\ file' \in [{"real", "scratch"} -> Target \cup {M!NoFile}]
         /\ file'[p] = f
         /\ \A q \in {"real", "scratch"} : q # p => file'[q] = file[q]
  BY DEF MoveTypes

LEMMA NewFile ==
  /\ M!Created \in Target /\ M!Created.there /\ ~M!Created.indexed
  /\ M!Created.moved = {}
  /\ \A t \in M!Tables : M!Created.rows[t] = M!NoRows
  /\ \A k \in M!Kinds : M!Created.auth[k] = M!NoRows
<1>1. /\ [t \in M!Tables |-> M!NoRows] \in RowSet
      /\ [k \in M!Kinds |-> M!NoRows] \in [M!Kinds -> [M!Ids -> Nat]]
  BY EmptyRows DEF RowSet
<1> QED
  BY <1>1 DEF M!Created, Target

LEMMA Opens ==
  ASSUME MoveInv, M!Open
  PROVE  MoveInv'
<1>1. /\ UNCHANGED <<live, writes, dump, secrets, uploads, started, snapAt, done, again>>
      /\ script.at = "import"
  BY DEF M!Open, M!importRest
<1>2. /\ ~done /\ MoveTypes /\ script \in Script /\ ~script.dry
      /\ M!ReferencesHold /\ M!OnceEach
      /\ M!Real.there /\ ~M!Real.indexed => left
      /\ script.job = "run" => Fits(dump)
  BY <1>1, Running DEF MoveInv, Exporting, Loading, Loads
<1>3. CASE M!AtEnd(file) /\ UNCHANGED left
  <2>1. script' = M!Quiet /\ file' = [file EXCEPT !["scratch"] = M!NoFile]
    BY <1>3 DEF M!AtEnd
  <2>2. MoveTypes' /\ M!Real' = M!Real
    BY <1>1, <1>2, <1>3, <2>1, EmptyRows DEF MoveTypes, M!Real
  <2>3. M!ReferencesHold' /\ M!OnceEach'
    BY <1>1, <1>2, <2>1, FilesGo DEF MoveTypes
  <2> QED
    BY <1>1, <1>2, <1>3, <2>1, <2>2, <2>3, ScriptEnds
<1>4. ASSUME NEW p \in {"real", "scratch"}, file' = [file EXCEPT ![p] = M!Created]
      PROVE  /\ file' \in [{"real", "scratch"} -> Target \cup {M!NoFile}]
             /\ file'[p] = M!Created
             /\ \A q \in {"real", "scratch"} : q # p => file'[q] = file[q]
             /\ M!ReferencesHold' /\ M!OnceEach'
  <2>1. /\ file' \in [{"real", "scratch"} -> Target \cup {M!NoFile}]
        /\ file'[p] = M!Created
        /\ \A q \in {"real", "scratch"} : q # p => file'[q] = file[q]
    BY <1>2, <1>4, NewFile, FileSet
  <2>2. M!ReferencesHold'
    <3>1. ASSUME NEW q \in {"real", "scratch"}, file'[q].there
          PROVE  /\ M!Rows(file'[q].rows[2]) \subseteq M!Rows(file'[q].rows[M!Users])
                 /\ \A k \in M!Kinds :
                      M!Rows(file'[q].auth[k]) \subseteq M!Rows(file'[q].rows[M!Users])
      <4>1. CASE q = p
        BY <2>1, <4>1, NewFile, EmptyRows DEF M!Tables
      <4>2. CASE q # p
        BY <1>2, <2>1, <3>1, <4>2 DEF M!ReferencesHold
      <4> QED
        BY <4>1, <4>2
    <3> QED
      BY <3>1 DEF M!ReferencesHold
  <2>3. M!OnceEach'
    <3>1. CASE p = "real"
      <4>1. \A k \in M!Kinds, i \in M!Ids : M!Created.auth[k][i] <= 1
        BY NewFile DEF M!NoRows
      <4> QED
        BY <2>1, <3>1, <4>1, NewFile DEF M!OnceEach, M!Real
    <3>2. CASE p = "scratch"
      BY <1>1, <1>2, <2>1, <3>2 DEF M!OnceEach, M!Real
    <3> QED
      BY <3>1, <3>2
  <2> QED
    BY <2>1, <2>2, <2>3
<1>5. ASSUME NEW p \in {"real", "scratch"}, file' = [file EXCEPT ![p] = M!Created],
             script' \in Script, script'.at = "load", script'.t = 1,
             script'.job = script.job, script'.dry = (p = "scratch"), UNCHANGED left
      PROVE  MoveInv'
  <2>1. /\ file' \in [{"real", "scratch"} -> Target \cup {M!NoFile}]
        /\ file'[p] = M!Created
        /\ \A q \in {"real", "scratch"} : q # p => file'[q] = file[q]
        /\ M!ReferencesHold' /\ M!OnceEach'
    BY <1>4, <1>5
  <2>2. M!Target' = M!Created
    BY <1>5, <2>1 DEF M!Target, M!Path
  <2>3. MoveTypes'
    BY <1>1, <1>2, <1>5, <2>1 DEF MoveTypes
  <2>4. Exporting'
    <3>1. script.job = "run" => Fits(dump)'
      BY <1>1, <1>2 DEF Fits
    <3> QED
      BY <1>5, <3>1 DEF Exporting
  <2>5. Loading'
    <3>1. M!Target'.there /\ Bare'
      BY <2>2, NewFile DEF Bare
    <3>2. 1 \in M!Tables /\ \A u \in M!Tables : ~(u < 1) /\ M!Target'.rows[u] = M!NoRows
      BY <2>2, NewFile DEF M!Tables
    <3>3. M!Real'.there /\ ~M!Real'.indexed => left' \/ ~script'.dry
      BY <1>1, <1>2, <1>5, <2>1 DEF M!Real
    <3> QED
      BY <1>5, <3>1, <3>2, <3>3 DEF Loading, Loads
  <2>6. Moving' /\ Turns'
    BY <1>1, <1>2, <1>5 DEF Moving, Turns, Checking, Later
  <2> QED
    BY <2>1, <2>3, <2>4, <2>5, <2>6 DEF MoveInv
<1>6. CASE /\ file' = [file EXCEPT !["real"] = M!Created]
           /\ script' = [script EXCEPT !.at = "load", !.t = 1] /\ UNCHANGED left
  <2>1. /\ script' \in Script /\ script'.at = "load" /\ script'.t = 1
        /\ script'.job = script.job /\ script'.dry = FALSE
    BY <1>2, <1>6, StageNames DEF Script
  <2> QED
    BY <1>5, <1>6, <2>1
<1>7. CASE /\ file' = [file EXCEPT !["scratch"] = M!Created]
           /\ script' = [script EXCEPT !.at = "load", !.t = 1, !.dry = TRUE]
           /\ UNCHANGED left
  <2>1. /\ script' \in Script /\ script'.at = "load" /\ script'.t = 1
        /\ script'.job = script.job /\ script'.dry = TRUE
    BY <1>2, <1>7, StageNames DEF Script
  <2> QED
    BY <1>5, <1>7, <2>1
<1>8. CASE /\ file' = [file EXCEPT !["real"] = M!Created]
           /\ script' = M!Quiet /\ left' = TRUE
  <2>1. /\ file' \in [{"real", "scratch"} -> Target \cup {M!NoFile}]
        /\ M!ReferencesHold' /\ M!OnceEach'
    BY <1>4, <1>8
  <2>2. MoveTypes'
    BY <1>1, <1>2, <1>8, <2>1, EmptyRows DEF MoveTypes
  <2> QED
    BY <1>1, <1>2, <1>8, <2>1, <2>2, ScriptEnds
<1> QED
  BY <1>3, <1>6, <1>7, <1>8 DEF M!Open

\* The rows and the secrets of every file as they were.
LEMMA FilesKept ==
  ASSUME MoveInv, uploads \subseteq uploads', again => again',
         \A q \in {"real", "scratch"} : file'[q].there =>
           /\ file[q].there /\ file'[q].rows = file[q].rows
           /\ file'[q].auth = file[q].auth /\ file'[q].moved = file[q].moved
  PROVE  M!ReferencesHold' /\ M!OnceEach'
  BY DEF MoveInv, M!ReferencesHold, M!OnceEach, M!Real

LEMMA GivesUp ==
  ASSUME MoveInv, script.at \in Loads, M!CleanUp,
         UNCHANGED <<live, writes, dump, secrets, uploads, started, snapAt, done, again>>
  PROVE  MoveInv'
<1>1. /\ ~done /\ MoveTypes /\ M!Path \in {"real", "scratch"} /\ left' \in BOOLEAN
      /\ script' = M!Quiet
      /\ \/ /\ file' = [[file EXCEPT ![M!Path] = M!NoFile] EXCEPT !["scratch"] = M!NoFile]
            /\ left' = left
         \/ /\ file' = [file EXCEPT !["scratch"] = M!NoFile]
            /\ left' = TRUE
  BY Running DEF Loads, M!AtEnd, M!CleanUp, MoveTypes
<1>2. /\ file' \in [{"real", "scratch"} -> Target \cup {M!NoFile}]
      /\ \A p \in {"real", "scratch"} : file'[p] \in {file[p], M!NoFile}
      /\ left' = TRUE
         \/ /\ left' = left
            /\ M!Path = "real" => file'["real"] = M!NoFile
            /\ M!Path = "scratch" => file'["real"] = file["real"]
  BY <1>1 DEF MoveTypes
<1>3. MoveTypes'
  BY <1>1, <1>2, EmptyRows DEF MoveTypes
<1>4. M!ReferencesHold' /\ M!OnceEach'
  BY <1>2, FilesGo
<1>5. M!Real'.there /\ ~M!Real'.indexed => left'
  <2>1. M!Real.there /\ ~M!Real.indexed => left \/ ~script.dry
    BY DEF MoveInv, Loading
  <2>2. ~script.dry => M!Path = "real"
    BY DEF M!Path
  <2>3. ~M!NoFile.there
    BY DEF M!NoFile
  <2> QED
    BY <1>1, <1>2, <2>1, <2>2, <2>3 DEF M!Real
<1> QED
  BY <1>1, <1>3, <1>4, <1>5, ScriptEnds

LEMMA LoadsTable ==
  ASSUME MoveInv, M!LoadTable
  PROVE  MoveInv'
<1> DEFINE t == script.t
           p == M!Path
           r == [file[p].rows EXCEPT ![t] = dump[t]]
           g == [file[p] EXCEPT !.rows = r]
<1>1. /\ UNCHANGED <<live, writes, dump, secrets, uploads, started, snapAt, done, again>>
      /\ script.at = "load"
  BY DEF M!LoadTable, M!importRest
<1>2. /\ ~done /\ MoveTypes /\ script \in Script /\ dump \in RowSet
      /\ p \in {"real", "scratch"} /\ file[p].there /\ t \in M!Tables
      /\ M!ReferencesHold /\ M!OnceEach /\ Bare
      /\ \A u \in M!Tables : file[p].rows[u] = IF u < t THEN dump[u] ELSE M!NoRows
  BY <1>1, Running DEF MoveInv, Loading, Loads, M!Target
<1>3. CASE M!CleanUp
  BY <1>1, <1>3, GivesUp DEF Loads
<1>4. CASE /\ t # M!Users => M!Rows(dump[t]) \subseteq M!Rows(M!Target.rows[M!Users])
           /\ file' = [file EXCEPT ![p].rows[t] = dump[t]]
           /\ script' = IF t + 1 \in M!Tables THEN [script EXCEPT !.t = t + 1]
                                               ELSE [script EXCEPT !.at = "index"]
           /\ UNCHANGED left
  <2>1. file[p] \in Target /\ file[p].rows \in RowSet
    BY <1>2, TargetThere
  <2>2. r \in RowSet
    BY <1>2, <2>1 DEF RowSet
  <2>3. /\ g \in Target /\ g.there /\ g.rows = r /\ g.indexed = file[p].indexed
        /\ g.auth = file[p].auth /\ g.moved = file[p].moved
    <3> HIDE DEF p, r
    <3> QED
      BY <2>1, <2>2 DEF Target
  <2>4. file' = [file EXCEPT ![p] = g]
    BY <1>2, <1>4
  <2>5. /\ file' \in [{"real", "scratch"} -> Target \cup {M!NoFile}] /\ file'[p] = g
        /\ \A q \in {"real", "scratch"} : q # p => file'[q] = file[q]
    BY <1>2, <2>3, <2>4, FileSet
  <2>6. /\ script' \in Script /\ script'.job = script.job /\ script'.dry = script.dry
        /\ \/ t + 1 \in M!Tables /\ script'.at = "load" /\ script'.t = t + 1
           \/ t + 1 \notin M!Tables /\ script'.at = "index"
    <3>1. CASE t + 1 \in M!Tables
      <4>1. t + 1 \in 0 .. 2 /\ script' = [script EXCEPT !.t = t + 1]
        BY <1>4, <3>1 DEF M!Tables
      <4> QED
        BY <1>1, <1>2, <3>1, <4>1 DEF Script
    <3>2. CASE t + 1 \notin M!Tables
      <4>1. script' = [script EXCEPT !.at = "index"]
        BY <1>4, <3>2
      <4> QED
        BY <1>1, <1>2, <3>2, <4>1, StageNames DEF Script
    <3> QED
      BY <3>1, <3>2
  <2>7. M!Target' = g
    BY <2>5, <2>6 DEF M!Target, M!Path
  <2>8. \A u \in M!Tables : r[u] = IF u < t + 1 THEN dump[u] ELSE M!NoRows
    BY <1>2, <2>1 DEF M!Tables, RowSet
  <2>9. MoveTypes'
    BY <1>1, <1>2, <1>4, <2>5, <2>6 DEF MoveTypes
  <2>10. Fits(dump) => Fits(dump)'
    BY <1>1 DEF Fits
  <2>11. Exporting'
    BY <1>1, <2>6, <2>10 DEF MoveInv, Exporting
  <2>12. Bare'
    BY <1>2, <2>3, <2>7 DEF Bare, M!Target
  <2>13. M!Real'.there = M!Real.there /\ M!Real'.indexed = M!Real.indexed
    BY <1>2, <2>3, <2>5, TargetThere DEF M!Real, Target
  <2>14. Loading'
    <3>1. M!Real'.there /\ ~M!Real'.indexed => left' \/ ~script'.dry
      BY <1>1, <1>4, <2>6, <2>13 DEF MoveInv, Loading
    <3> QED
      BY <1>1, <2>3, <2>6, <2>7, <2>8, <2>12, <3>1 DEF Loading, Loads
  <2>15. Moving' /\ Turns'
    <3>1. script'.job = "run" /\ script'.at = "index" => Fits(M!Target.rows)'
      <4>1. SUFFICES ASSUME script'.job = "run", script'.at = "index"
                     PROVE  Fits(M!Target.rows)'
        OBVIOUS
      <4>2. Fits(dump)
        BY <1>1, <2>6, <4>1 DEF MoveInv, Exporting
      <4>3. \A u \in M!Tables : r[u] = dump[u]
        BY <1>2, <2>6, <2>8, <4>1 DEF M!Tables
      <4> QED
        BY <1>1, <2>3, <2>7, <4>2, <4>3 DEF Fits
    <3> QED
      BY <1>1, <1>2, <2>6, <3>1 DEF Moving, Turns, Checking, Later
  <2>16. M!ReferencesHold'
    <3>1. M!Rows(r[2]) \subseteq M!Rows(r[1])
      <4>1. CASE t = 1
        BY <2>8, <4>1, EmptyRows DEF M!Tables
      <4>2. CASE t = 2
        BY <1>2, <1>4, <2>8, <4>2 DEF M!Tables, M!Users, M!Target
      <4> QED
        BY <1>2, <4>1, <4>2 DEF M!Tables
    <3>2. \A k \in M!Kinds : M!Rows(g.auth[k]) = {}
      BY <1>2, <2>3, EmptyRows DEF Bare, M!Target
    <3>3. ASSUME NEW q \in {"real", "scratch"}, file'[q].there
          PROVE  /\ M!Rows(file'[q].rows[2]) \subseteq M!Rows(file'[q].rows[M!Users])
                 /\ \A k \in M!Kinds :
                      M!Rows(file'[q].auth[k]) \subseteq M!Rows(file'[q].rows[M!Users])
      <4>1. CASE q = p
        BY <2>3, <2>5, <3>1, <3>2, <4>1 DEF M!Users
      <4>2. CASE q # p
        BY <1>2, <2>5, <3>3, <4>2 DEF M!ReferencesHold
      <4> QED
        BY <4>1, <4>2
    <3> QED
      BY <3>3 DEF M!ReferencesHold
  <2>17. M!OnceEach'
    <3>1. /\ M!Real'.auth = M!Real.auth /\ M!Real'.moved = M!Real.moved
      BY <1>2, <2>3, <2>5 DEF M!Real
    <3> QED
      BY <1>1, <1>2, <2>13, <3>1 DEF M!OnceEach
  <2> QED
    BY <2>9, <2>11, <2>14, <2>15, <2>16, <2>17 DEF MoveInv
<1> QED
  BY <1>3, <1>4 DEF M!LoadTable

\* A script that leaves the files alone: it ends, or it goes on with a check
\* or a later step.
LEMMA ScriptStops ==
  ASSUME MoveInv, script.at \notin Loads \cup {"none"}, M!AtEnd(file),
         secrets' \in [M!Kinds -> SUBSET M!Ids],
         UNCHANGED <<live, writes, dump, uploads, snapAt, done, left, again>>
  PROVE  MoveInv'
<1>1. /\ ~done /\ MoveTypes /\ script' = M!Quiet
      /\ file' = [file EXCEPT !["scratch"] = M!NoFile]
  BY Running DEF M!AtEnd
<1>2. MoveTypes' /\ M!Real' = M!Real
  BY <1>1, EmptyRows DEF MoveTypes, M!Real
<1>3. M!ReferencesHold' /\ M!OnceEach'
  BY <1>1, <1>2, FilesGo DEF MoveTypes
<1>4. M!Real.there /\ ~M!Real.indexed => left
  BY DEF MoveInv, Loading
<1> QED
  BY <1>1, <1>2, <1>3, <1>4, ScriptEnds

LEMMA StepsOn ==
  ASSUME MoveInv, file' = file, script' \in Script,
         secrets' \in [M!Kinds -> SUBSET M!Ids],
         UNCHANGED <<live, writes, dump, uploads, snapAt, done, left, again>>,
         script.at \in Checking \cup {"secrets-export", "files"},
         script'.job = script.job, script'.dry = script.dry,
         script'.at \in Checking \cup Later,
         script'.at \in Checking => script.at \in Checking,
         script.at = "files" => script'.at = "end",
         script'.at # script.at => \/ script.job = "run"
                                  \/ script'.at \in Checking,
         script'.at \in Checking \cup {"secrets-export", "secrets"} => script'.t \in {0, 1}
  PROVE  MoveInv'
<1>1. /\ ~done /\ MoveTypes /\ M!Path' = M!Path
  BY Running DEF Checking, M!Path
<1>2. MoveTypes'
  BY <1>1 DEF MoveTypes
<1>3. M!ReferencesHold' /\ M!OnceEach'
  BY FilesStay
<1>4. M!Target' = M!Target /\ M!Real' = M!Real /\ (Bare => Bare')
  BY <1>1 DEF M!Target, M!Real, Bare
<1>5. script'.at \notin {"begin", "export", "append", "import", "none"} \cup Loads
  BY DEF Checking, Later, Loads
<1>6. script.at \notin Loads
  BY DEF Checking, Loads
<1>7. Exporting' /\ Loading'
  BY <1>4, <1>5, <1>6 DEF MoveInv, Loading, Exporting, Loads
<1>8. Complete(M!Target) => Complete(M!Target)'
  BY <1>4 DEF Complete, Fits
<1>9. Moving'
  <2>1. script'.at \in Checking \cup {"end"} => script'.job = "run"
    BY DEF MoveInv, Moving, Checking
  <2>2. script'.job = "run" => Complete(M!Target)'
    BY <1>8 DEF MoveInv, Moving, Later
  <2>3. script'.job = "run" /\ script'.at \in Checking \cup {"secrets-export"} => Bare'
    BY <1>4 DEF MoveInv, Moving, Checking
  <2> QED
    BY <1>1, <1>5, <2>1, <2>2, <2>3 DEF Moving, Loads
<1>10. Turns'
  <2>1. SUFFICES ASSUME script'.at = "secrets", ~script'.dry, NEW k \in M!Kinds
                 PROVE  M!Real'.auth[k] = M!NoRows
    BY DEF Turns
  <2>2. script.job = "run" /\ script.at \in Checking \cup {"secrets-export"}
    BY <2>1 DEF Checking
  <2>3. Bare /\ M!Target = M!Real
    BY <2>1, <2>2 DEF MoveInv, Moving, M!Target, M!Real, M!Path
  <2> QED
    BY <1>4, <2>3 DEF Bare
<1> QED
  BY <1>2, <1>3, <1>7, <1>9, <1>10 DEF MoveInv

LEMMA GoesOn ==
  ASSUME MoveInv, script.at \in Checking \cup {"secrets-export", "files"},
         NEW at \in Later, at = "end" \/ script.at # "files", M!GoOn(at, file),
         secrets' \in [M!Kinds -> SUBSET M!Ids],
         UNCHANGED <<live, writes, dump, uploads, snapAt, done, left, again>>
  PROVE  MoveInv'
<1>1. script \in Script /\ at \in Stages
  BY DEF MoveInv, MoveTypes, Stages
<1>2. CASE script.job = "run"
  <2>1. script' = [script EXCEPT !.at = at, !.t = 0, !.good = TRUE] /\ file' = file
    BY <1>2 DEF M!GoOn
  <2>2. /\ script' \in Script /\ script'.at = at /\ script'.t = 0
        /\ script'.dry = script.dry /\ script'.job = script.job
    BY <1>1, <2>1, StageNames DEF Script
  <2> QED
    BY <1>2, <2>1, <2>2, StepsOn DEF Checking, Later
<1>3. CASE script.job # "run"
  BY <1>3, ScriptStops DEF M!GoOn, Checking, Loads
<1> QED
  BY <1>2, <1>3

LEMMA Verifies ==
  ASSUME MoveInv, M!Count \/ M!Compare
  PROVE  MoveInv'
<1>1. /\ UNCHANGED <<live, writes, dump, secrets, uploads, started, snapAt, done, left, again>>
      /\ script.at \in Checking
  BY DEF M!Count, M!Compare, M!importRest, Checking
<1>2. /\ script \in Script /\ secrets' \in [M!Kinds -> SUBSET M!Ids] /\ script.t \in {0, 1}
  BY <1>1 DEF MoveInv, MoveTypes, Turns
<1>3. CASE M!Count
  <2>1. PICK good \in BOOLEAN : script' = [script EXCEPT !.at = "sample", !.good = good]
    BY <1>3 DEF M!Count
  <2>2. /\ script' \in Script /\ script'.at = "sample" /\ script'.t = script.t
        /\ script'.dry = script.dry /\ script'.job = script.job
    BY <1>2, <2>1, StageNames DEF Script
  <2> QED
    BY <1>1, <1>2, <1>3, <2>2, StepsOn DEF M!Count, Checking
<1>4. CASE M!Compare
  <2>1. CASE M!Table + 1 \in M!Tables
    <3>1. PICK good \in BOOLEAN :
            script' = [script EXCEPT !.at = "count", !.t = script.t + 1, !.good = good]
      BY <1>4, <2>1 DEF M!Compare
    <3>2. script.t + 1 \in {0, 1}
      BY <1>2, <2>1 DEF M!Table, M!Tables
    <3>3. /\ script' \in Script /\ script'.at = "count" /\ script'.t \in {0, 1}
          /\ script'.dry = script.dry /\ script'.job = script.job
      <4>1. script.t + 1 \in 0 .. 2
        BY <3>2
      <4> QED
        BY <1>2, <3>1, <3>2, <4>1, StageNames DEF Script
    <3>4. file' = file
      BY <1>4, <2>1 DEF M!Compare
    <3> QED
      BY <1>1, <1>2, <3>3, <3>4, StepsOn DEF Checking
  <2>2. ASSUME NEW at \in {"secrets-export"} \cup M!AfterSecrets, M!GoOn(at, file)
        PROVE  MoveInv'
    <3>1. at \in Later /\ script.at # "files"
      BY <1>1, <2>2 DEF Later, Checking, M!AfterSecrets
    <3> QED
      BY <1>1, <1>2, <2>2, <3>1, GoesOn
  <2>3. CASE M!AtEnd(file)
    BY <1>1, <1>2, <2>3, ScriptStops DEF Checking, Loads
  <2> QED
    BY <1>4, <2>1, <2>2, <2>3 DEF M!Compare
<1> QED
  BY <1>3, <1>4

\* The index is the last of a load: then the file is whole.
LEMMA Indexes ==
  ASSUME MoveInv, M!Index
  PROVE  MoveInv'
<1> DEFINE p == M!Path
           g == [file[p] EXCEPT !.indexed = TRUE]
           put == [file EXCEPT ![p] = g]
<1>1. /\ UNCHANGED <<live, writes, dump, secrets, uploads, started, snapAt, done, left, again>>
      /\ script.at = "index" /\ M!GoOn("count", put)
  BY DEF M!Index, M!importRest
<1>2. /\ ~done /\ MoveTypes /\ script \in Script /\ p \in {"real", "scratch"}
      /\ file[p].there /\ Bare
  BY <1>1, Running DEF MoveInv, Loading, Loads, M!Target
<1>3. file[p] \in Target
  BY <1>2, TargetThere
<1>4. /\ g \in Target /\ g.there /\ g.indexed /\ g.rows = file[p].rows
      /\ g.auth = file[p].auth /\ g.moved = file[p].moved
  <2> HIDE DEF p
  <2> QED
    BY <1>3 DEF Target
<1>5. /\ put \in [{"real", "scratch"} -> Target \cup {M!NoFile}] /\ put[p] = g
      /\ \A q \in {"real", "scratch"} : q # p => put[q] = file[q]
  <2> HIDE DEF p, g
  <2> QED
    BY <1>2, <1>4 DEF MoveTypes
<1>6. ~M!NoFile.there
  BY DEF M!NoFile
<1>7. ASSUME file' \in [{"real", "scratch"} -> Target \cup {M!NoFile}],
             \A q \in {"real", "scratch"} : file'[q] \in {put[q], M!NoFile}
      PROVE  /\ M!ReferencesHold' /\ M!OnceEach'
             /\ M!Real'.there /\ ~M!Real'.indexed => left
  <2> HIDE DEF p, g, put
  <2>1. \A q \in {"real", "scratch"} : file'[q].there => file'[q] = put[q]
    BY <1>6, <1>7
  <2>2. \A q \in {"real", "scratch"} : file'[q].there =>
          /\ file[q].there /\ file'[q].rows = file[q].rows
          /\ file'[q].auth = file[q].auth /\ file'[q].moved = file[q].moved
    BY <1>2, <1>4, <1>5, <2>1
  <2>3. M!ReferencesHold' /\ M!OnceEach'
    BY <1>1, <2>2, FilesKept
  <2>4. p = "scratch" => (M!Real.there /\ ~M!Real.indexed => left)
    BY DEF MoveInv, Loading, p, M!Path
  <2>5. M!Real'.there /\ ~M!Real'.indexed => left
    BY <1>2, <1>4, <1>5, <2>1, <2>4 DEF M!Real
  <2> QED
    BY <2>3, <2>5
<1>8. CASE script.job = "run"
  <2>1. script' = [script EXCEPT !.at = "count", !.t = 0, !.good = TRUE] /\ file' = put
    BY <1>1, <1>8 DEF M!GoOn
  <2>2. /\ script' \in Script /\ script'.at = "count" /\ script'.t = 0
        /\ script'.dry = script.dry /\ script'.job = script.job
    BY <1>2, <2>1, StageNames DEF Script
  <2> HIDE DEF p, g, put
  <2>3. MoveTypes'
    BY <1>1, <1>2, <1>5, <2>1, <2>2 DEF MoveTypes
  <2>4. M!ReferencesHold' /\ M!OnceEach' /\ (M!Real'.there /\ ~M!Real'.indexed => left)
    BY <1>5, <1>7, <2>1
  <2>5. M!Target' = g /\ M!Target = file[p]
    BY <1>5, <2>1, <2>2 DEF M!Target, M!Path, p
  <2>6. Exporting' /\ Loading' /\ Turns'
    BY <1>1, <2>2, <2>4 DEF Exporting, Loading, Turns, Loads, Checking
  <2>7. Complete(M!Target)' /\ Bare'
    BY <1>1, <1>2, <1>4, <1>8, <2>5 DEF MoveInv, Moving, Complete, Fits, Bare
  <2>8. Moving'
    BY <1>1, <1>2, <1>8, <2>2, <2>7 DEF Moving, Checking, Later
  <2> QED
    BY <2>3, <2>4, <2>6, <2>8 DEF MoveInv
<1>9. CASE script.job # "run"
  <2>1. script' = M!Quiet /\ file' = [put EXCEPT !["scratch"] = M!NoFile]
    BY <1>1, <1>9 DEF M!GoOn, M!AtEnd
  <2> HIDE DEF p, g, put
  <2>2. /\ file' \in [{"real", "scratch"} -> Target \cup {M!NoFile}]
        /\ \A q \in {"real", "scratch"} : file'[q] \in {put[q], M!NoFile}
    BY <1>5, <2>1
  <2>3. MoveTypes'
    BY <1>1, <1>2, <2>1, <2>2, EmptyRows DEF MoveTypes
  <2> QED
    BY <1>1, <1>2, <1>7, <2>1, <2>2, <2>3, ScriptEnds
<1> QED
  BY <1>8, <1>9

LEMMA ExportsSecrets ==
  ASSUME MoveInv, M!ExportSecrets
  PROVE  MoveInv'
<1>1. /\ UNCHANGED <<live, writes, dump, uploads, started, snapAt, done, left, again>>
      /\ script.at = "secrets-export"
      /\ secrets' = [secrets EXCEPT ![script.t + 1] = M!Rows(live[M!Users])]
  BY DEF M!ExportSecrets
<1>2. /\ script \in Script /\ script.t \in {0, 1}
      /\ secrets \in [M!Kinds -> SUBSET M!Ids]
  BY <1>1 DEF MoveInv, MoveTypes, Turns
<1>3. secrets' \in [M!Kinds -> SUBSET M!Ids]
  <2>1. M!Rows(live[M!Users]) \in SUBSET M!Ids
    BY DEF M!Rows
  <2> QED
    BY <1>1, <1>2, <2>1
<1>4. CASE script.t + 2 \in M!Kinds
  <2>1. script' = [script EXCEPT !.t = 1] /\ file' = file
    BY <1>2, <1>4 DEF M!ExportSecrets, M!Kinds
  <2>2. /\ script' \in Script /\ script'.at = script.at /\ script'.t = 1
        /\ script'.dry = script.dry /\ script'.job = script.job
    BY <1>2, <2>1, StageNames DEF Script
  <2> QED
    BY <1>1, <1>3, <2>1, <2>2, StepsOn DEF Later, Checking
<1>5. CASE script.t + 2 \notin M!Kinds
  <2>1. M!GoOn("secrets", file)
    BY <1>2, <1>5 DEF M!ExportSecrets
  <2> QED
    BY <1>1, <1>3, <2>1, GoesOn DEF Later
<1> QED
  BY <1>4, <1>5

\* The secrets of one kind: each is there once more, of users who are there.
LEMMA ImportsSecrets ==
  ASSUME MoveInv, M!ImportSecrets
  PROVE  MoveInv'
<1> DEFINE k == script.t + 1
           p == M!Path
           a == [i \in M!Ids |-> IF i \in secrets[k] /\ file[p].auth[k][i] < 2
                                THEN file[p].auth[k][i] + 1 ELSE file[p].auth[k][i]]
           auth == [file[p].auth EXCEPT ![k] = a]
           g == [file[p] EXCEPT !.auth = auth]
           put == [file EXCEPT ![p] = g]
<1>1. /\ UNCHANGED <<live, writes, dump, secrets, uploads, started, snapAt, done, left, again>>
      /\ script.at = "secrets"
  BY DEF M!ImportSecrets, M!importRest
<1>2. /\ ~done /\ MoveTypes /\ script \in Script /\ p \in {"real", "scratch"}
      /\ script.t \in {0, 1} /\ k \in M!Kinds
      /\ M!ReferencesHold /\ M!OnceEach
      /\ M!Real.there /\ ~M!Real.indexed => left
  BY <1>1, Running DEF MoveInv, Turns, Loading, Loads, M!Kinds
<1>3. CASE M!AtEnd(file)
  BY <1>1, <1>2, <1>3, ScriptStops DEF Loads, MoveTypes
<1>4. ASSUME file[p].there, secrets[k] \subseteq M!Rows(file[p].rows[M!Users]),
             \/ k + 1 \in M!Kinds /\ script' = [script EXCEPT !.t = k] /\ file' = put
             \/ k + 1 \notin M!Kinds /\ \E at \in M!AfterSecrets : M!GoOn(at, put)
      PROVE  MoveInv'
  <2>1. file[p] \in Target /\ file[p].auth \in [M!Kinds -> [M!Ids -> Nat]]
    BY <1>2, <1>4, TargetThere
  <2>2. a \in [M!Ids -> Nat]
    <3> HIDE DEF p, k
    <3> QED
      BY <1>2, <2>1
  <2>3. /\ auth \in [M!Kinds -> [M!Ids -> Nat]] /\ auth[k] = a
        /\ \A j \in M!Kinds : j # k => auth[j] = file[p].auth[j]
    <3> HIDE DEF p, k, a
    <3> QED
      BY <1>2, <2>1, <2>2
  <2>4. /\ g \in Target /\ g.there /\ g.rows = file[p].rows
        /\ g.indexed = file[p].indexed /\ g.moved = file[p].moved /\ g.auth = auth
    <3> HIDE DEF p, auth
    <3> QED
      BY <2>1, <2>3 DEF Target
  <2>5. /\ put \in [{"real", "scratch"} -> Target \cup {M!NoFile}] /\ put[p] = g
        /\ \A q \in {"real", "scratch"} : q # p => put[q] = file[q]
    <3> HIDE DEF p, g
    <3> QED
      BY <1>2, <2>4 DEF MoveTypes
  <2>6. ~M!NoFile.there
    BY DEF M!NoFile
  <2>7. \A j \in M!Kinds : M!Rows(g.auth[j]) \subseteq M!Rows(g.rows[M!Users])
    <3>1. M!Rows(a) \subseteq M!Rows(file[p].auth[k]) \cup secrets[k]
      <4>1. \A i \in M!Ids : i \notin secrets[k] => a[i] = file[p].auth[k][i]
        OBVIOUS
      <4> HIDE DEF a
      <4> QED
        BY <4>1 DEF M!Rows
    <3>2. \A j \in M!Kinds : M!Rows(file[p].auth[j]) \subseteq M!Rows(file[p].rows[M!Users])
      BY <1>2, <1>4 DEF M!ReferencesHold
    <3> HIDE DEF p, k, a, auth, g, put
    <3> QED
      BY <1>2, <1>4, <2>3, <2>4, <3>1, <3>2
  <2>8. p = "real" => again \/ \A j \in M!Kinds, i \in M!Ids : g.auth[j][i] <= 1
    <3>1. SUFFICES ASSUME p = "real", ~again, NEW j \in M!Kinds, NEW i \in M!Ids
                   PROVE  g.auth[j][i] <= 1
      OBVIOUS
    <3>2. M!Real.there /\ ~script.dry
      BY <1>4, <3>1 DEF M!Real, M!Path
    <3>3. M!Real.auth[k] = M!NoRows /\ M!Real.auth[j][i] <= 1
      BY <1>1, <1>2, <3>1, <3>2 DEF MoveInv, Turns, M!OnceEach
    <3>4. a[i] <= 1
      BY <1>4, <3>1, <3>3 DEF M!Real, M!NoRows
    <3> HIDE DEF a, auth, g, put, k
    <3> QED
      BY <1>2, <2>3, <2>4, <3>1, <3>3, <3>4 DEF M!Real
  <2>9. ASSUME file' \in [{"real", "scratch"} -> Target \cup {M!NoFile}],
               \A q \in {"real", "scratch"} : file'[q] \in {put[q], M!NoFile}
        PROVE  /\ M!ReferencesHold' /\ M!OnceEach'
               /\ M!Real'.there /\ ~M!Real'.indexed => left
    <3> HIDE DEF p, k, a, auth, g, put
    <3>1. \A q \in {"real", "scratch"} : file'[q].there =>
            /\ q = p => file'[q] = g
            /\ q # p => file'[q] = file[q]
      BY <2>5, <2>6, <2>9
    <3>2. M!Rows(g.rows[2]) \subseteq M!Rows(g.rows[M!Users])
      BY <1>2, <1>4, <2>4 DEF M!ReferencesHold
    <3>3. M!ReferencesHold'
      BY <1>2, <2>7, <3>1, <3>2 DEF M!ReferencesHold
    <3>4. M!OnceEach'
      BY <1>1, <1>2, <1>4, <2>4, <2>8, <3>1 DEF M!OnceEach, M!Real
    <3>5. M!Real'.there /\ ~M!Real'.indexed => left
      BY <1>2, <1>4, <2>4, <3>1 DEF M!Real
    <3> QED
      BY <3>3, <3>4, <3>5
  <2>10. ASSUME file' = put, script' \in Script, script'.dry = script.dry,
                script'.job = script.job,
                \/ script'.at = "secrets" /\ script'.t = 1 /\ k = 1
                \/ script'.at \in {"files", "end"} /\ script.job = "run"
         PROVE  MoveInv'
    <3> HIDE DEF p, k, a, auth, g, put
    <3>1. /\ MoveTypes'
          /\ M!ReferencesHold' /\ M!OnceEach' /\ (M!Real'.there /\ ~M!Real'.indexed => left)
      BY <1>1, <1>2, <2>5, <2>9, <2>10 DEF MoveTypes
    <3>2. M!Target' = g /\ M!Target = file[p]
      BY <2>5, <2>10 DEF M!Target, M!Path, p
    <3>3. Exporting' /\ Loading'
      BY <1>1, <2>10, <3>1 DEF Exporting, Loading, Loads
    <3>4. Complete(M!Target) => Complete(M!Target)'
      BY <1>1, <2>4, <3>2 DEF Complete, Fits
    <3>5. Moving'
      BY <1>1, <1>2, <2>10, <3>4 DEF MoveInv, Moving, Checking, Later
    <3>6. Turns'
      <4>1. SUFFICES ASSUME script'.at = "secrets", ~script'.dry, M!Real'.there, ~again',
                            NEW j \in M!Kinds, j > 1
                     PROVE  M!Real'.auth[j] = M!NoRows
        BY <2>10 DEF Turns, Checking
      <4>2. k = 1 /\ p = "real"
        BY <2>10, <4>1 DEF p, M!Path
      <4>3. script.t = 0 /\ j > script.t /\ ~script.dry /\ M!Real.there /\ ~again
        <5>1. script.t = 0
          BY <1>2, <4>2 DEF k
        <5>2. j > script.t
          BY <4>1, <5>1 DEF M!Kinds
        <5>3. ~script.dry /\ M!Real.there
          BY <1>4, <2>10, <4>1, <4>2 DEF M!Real
        <5>4. ~again
          BY <1>1, <4>1
        <5> QED
          BY <5>1, <5>2, <5>3, <5>4
      <4>4. M!Real.auth[j] = M!NoRows
        BY <1>1, <4>1, <4>3 DEF MoveInv, Turns
      <4> QED
        BY <2>3, <2>4, <2>5, <2>10, <4>1, <4>2, <4>4 DEF M!Real
    <3> QED
      BY <3>1, <3>3, <3>5, <3>6 DEF MoveInv
  <2>11. CASE k + 1 \in M!Kinds /\ script' = [script EXCEPT !.t = k] /\ file' = put
    <3>1. k = 1
      BY <1>2, <2>11 DEF M!Kinds
    <3>2. /\ script' \in Script /\ script'.at = script.at /\ script'.t = 1
          /\ script'.dry = script.dry /\ script'.job = script.job
      <4> HIDE DEF k
      <4> QED
        BY <1>2, <2>11, <3>1, StageNames DEF Script
    <3> QED
      BY <1>1, <2>10, <2>11, <3>1, <3>2
  <2>12. ASSUME NEW at \in M!AfterSecrets, M!GoOn(at, put)
         PROVE  MoveInv'
    <3>1. at \in {"files", "end"} /\ at \in Stages
      BY DEF M!AfterSecrets, Stages, Later
    <3>2. CASE script.job = "run"
      <4>1. script' = [script EXCEPT !.at = at, !.t = 0, !.good = TRUE] /\ file' = put
        BY <2>12, <3>2 DEF M!GoOn
      <4>2. /\ script' \in Script /\ script'.at = at
            /\ script'.dry = script.dry /\ script'.job = script.job
        BY <1>2, <3>1, <4>1, StageNames DEF Script
      <4> QED
        BY <2>10, <3>1, <3>2, <4>1, <4>2
    <3>3. CASE script.job # "run"
      <4>1. script' = M!Quiet /\ file' = [put EXCEPT !["scratch"] = M!NoFile]
        BY <2>12, <3>3 DEF M!GoOn, M!AtEnd
      <4> HIDE DEF p, k, a, auth, g, put
      <4>2. /\ file' \in [{"real", "scratch"} -> Target \cup {M!NoFile}]
            /\ \A q \in {"real", "scratch"} : file'[q] \in {put[q], M!NoFile}
        BY <2>5, <4>1
      <4>3. MoveTypes'
        BY <1>1, <1>2, <4>1, <4>2, EmptyRows DEF MoveTypes
      <4> QED
        BY <1>1, <1>2, <2>9, <4>1, <4>2, <4>3, ScriptEnds
    <3> QED
      BY <3>2, <3>3
  <2> QED
    BY <1>4, <2>11, <2>12
<1> QED
  BY <1>3, <1>4 DEF M!ImportSecrets, M!Target

\* A row names its file once the file is written.
LEMMA MovesFile ==
  ASSUME MoveInv, NEW i \in M!Ids, M!MoveFile(i)
  PROVE  MoveInv'
<1> DEFINE p == M!Path
           named == file[p].moved \cup {i}
           g == [file[p] EXCEPT !.moved = named]
<1>1. /\ UNCHANGED <<live, writes, dump, secrets, started, snapAt, left, again, script, done>>
      /\ script.at = "files" /\ file[p].there /\ uploads' = uploads \cup {i}
      /\ file' \in {file, [file EXCEPT ![p] = g]}
  BY DEF M!MoveFile, M!filesRest, M!Target
<1>2. /\ ~done /\ MoveTypes /\ p \in {"real", "scratch"}
      /\ M!ReferencesHold /\ M!OnceEach
  BY <1>1, Running DEF MoveInv
<1>3. file[p] \in Target /\ file[p].moved \in SUBSET M!Ids
  BY <1>1, <1>2, TargetThere
<1>4. /\ g \in Target /\ g.there /\ g.rows = file[p].rows
      /\ g.indexed = file[p].indexed /\ g.moved = named /\ g.auth = file[p].auth
  <2>1. named \in SUBSET M!Ids
    BY <1>3
  <2> HIDE DEF p, named
  <2> QED
    BY <1>3, <2>1 DEF Target
<1>5. /\ file' \in [{"real", "scratch"} -> Target \cup {M!NoFile}]
      /\ file'[p] \in {file[p], g}
      /\ \A q \in {"real", "scratch"} : q # p => file'[q] = file[q]
  <2> HIDE DEF p, g
  <2> QED
    BY <1>1, <1>2, <1>4 DEF MoveTypes
<1> HIDE DEF p, g
<1>6. \A q \in {"real", "scratch"} :
        /\ file'[q].there = file[q].there /\ file'[q].rows = file[q].rows
        /\ file'[q].auth = file[q].auth /\ file'[q].indexed = file[q].indexed
        /\ file'[q].moved \in {file[q].moved, file[q].moved \cup {i}}
  <2>1. ASSUME NEW q \in {"real", "scratch"}
        PROVE  /\ file'[q].there = file[q].there /\ file'[q].rows = file[q].rows
               /\ file'[q].auth = file[q].auth /\ file'[q].indexed = file[q].indexed
               /\ file'[q].moved \in {file[q].moved, file[q].moved \cup {i}}
    <3>1. CASE q # p
      BY <1>5, <3>1
    <3>2. CASE q = p /\ file'[p] = file[p]
      BY <3>2
    <3>3. CASE q = p /\ file'[p] = g
      <4>1. g.there = file[p].there
        BY <1>3, <1>4 DEF Target
      <4> QED
        BY <1>4, <3>3, <4>1
    <3> QED
      BY <1>5, <3>1, <3>2, <3>3
  <2> QED
    BY <2>1
<1>7. MoveTypes'
  BY <1>1, <1>2, <1>5 DEF MoveTypes
<1>8. M!Path' = M!Path /\ M!Path \in {"real", "scratch"}
  BY <1>1 DEF M!Path
<1>9. M!ReferencesHold' /\ M!OnceEach'
  <2>1. M!ReferencesHold'
    BY <1>2, <1>6 DEF M!ReferencesHold
  <2>2. M!Real.moved \subseteq uploads => M!Real'.moved \subseteq uploads'
    BY <1>1, <1>6 DEF M!Real
  <2>3. M!OnceEach'
    BY <1>1, <1>2, <1>6, <2>2 DEF M!OnceEach, M!Real
  <2> QED
    BY <2>1, <2>3
<1>10. Exporting' /\ Loading' /\ Turns'
  BY <1>1, <1>6 DEF MoveInv, Exporting, Loading, Turns, Loads, Checking, M!Real
<1>11. Moving'
  <2>1. Complete(M!Target) => Complete(M!Target)'
    BY <1>1, <1>6, <1>8 DEF Complete, Fits, M!Target
  <2> QED
    BY <1>1, <1>2, <2>1 DEF MoveInv, Moving, Checking, Loads
<1> QED
  BY <1>7, <1>9, <1>10, <1>11 DEF MoveInv

LEMMA Finishes ==
  ASSUME MoveInv, M!FilesEnd \/ M!Complete \/ M!Kill
  PROVE  MoveInv'
<1>1. MoveTypes /\ M!ReferencesHold /\ M!OnceEach
  BY DEF MoveInv
<1>2. CASE M!FilesEnd
  BY <1>1, <1>2, GoesOn DEF M!FilesEnd, M!filesRest, MoveTypes, Later
<1>3. CASE M!Complete
  <2>1. /\ UNCHANGED <<live, writes, dump, secrets, uploads, started, snapAt, left, again>>
        /\ script.at = "end" /\ script' = M!Quiet /\ done' = ~script.dry
        /\ file' = [file EXCEPT !["scratch"] = M!NoFile]
    BY <1>3 DEF M!Complete, M!filesRest, M!AtEnd
  <2>2. script.dry \in BOOLEAN
    BY <1>1 DEF MoveTypes, Script
  <2>3. MoveTypes' /\ M!Real' = M!Real
    BY <1>1, <2>1, <2>2, EmptyRows DEF MoveTypes, M!Real
  <2>4. M!ReferencesHold' /\ M!OnceEach'
    BY <1>1, <2>1, <2>3, FilesGo DEF MoveTypes
  <2>5. Complete(M!Target)
    BY <2>1 DEF MoveInv, Moving, Later
  <2>6. done' => Complete(M!Real)'
    BY <2>1, <2>3, <2>5 DEF Complete, Fits, M!Target, M!Path, M!Real
  <2>7. M!Real'.there /\ ~M!Real'.indexed => left'
    BY <2>1, <2>3 DEF MoveInv, Loading, Loads
  <2> QED
    BY <2>1, <2>3, <2>4, <2>6, <2>7, ScriptEnds
<1>4. CASE M!Kill
  <2>1. /\ UNCHANGED <<live, writes, dump, secrets, file, uploads, started, snapAt, done, again>>
        /\ script # M!Quiet /\ script' = M!Quiet
        /\ left' = (left \/ (~script.dry /\ script.at \in Loads))
    BY <1>4 DEF M!Kill, Loads
  <2>2. MoveTypes'
    BY <1>1, <2>1, EmptyRows DEF MoveTypes
  <2>3. M!ReferencesHold' /\ M!OnceEach'
    BY <2>1, FilesStay
  <2>4. M!Real'.there /\ ~M!Real'.indexed => left'
    BY <2>1 DEF MoveInv, Loading, M!Real
  <2>5. ~done'
    BY <2>1 DEF MoveInv, Moving
  <2> QED
    BY <2>1, <2>2, <2>3, <2>4, <2>5, ScriptEnds
<1> QED
  BY <1>2, <1>3, <1>4

LEMMA Deletes ==
  ASSUME MoveInv, M!DeleteTarget
  PROVE  MoveInv'
<1>1. /\ UNCHANGED <<live, writes, dump, secrets, uploads, script, started, snapAt>>
      /\ script' = M!Quiet /\ done' = FALSE /\ again' = FALSE /\ left' = FALSE
      /\ file' = [file EXCEPT !["real"] = M!NoFile]
  BY DEF M!DeleteTarget
<1>2. /\ file' \in [{"real", "scratch"} -> Target \cup {M!NoFile}]
      /\ file'["real"] = M!NoFile /\ file'["scratch"] = file["scratch"]
  BY <1>1 DEF MoveInv, MoveTypes
<1>3. ~M!NoFile.there
  BY DEF M!NoFile
<1>4. MoveTypes'
  BY <1>1, <1>2 DEF MoveInv, MoveTypes
<1>5. M!ReferencesHold' /\ M!OnceEach' /\ ~M!Real'.there
  BY <1>2, <1>3 DEF MoveInv, M!ReferencesHold, M!OnceEach, M!Real
<1> QED
  BY <1>1, <1>4, <1>5, ScriptEnds

LEMMA MoveStep ==
  ASSUME MoveInv, [M!Next]_(M!migrationVars)
  PROVE  MoveInv'
<1>1. CASE UNCHANGED M!migrationVars
  <2>1. UNCHANGED <<live, writes, dump, secrets, file, uploads, script, started, snapAt,
                    done, left, again>>
    BY <1>1 DEF M!migrationVars
  <2>2. /\ M!Target' = M!Target /\ M!Real' = M!Real /\ Bare' = Bare
        /\ Complete(M!Target)' = Complete(M!Target) /\ Complete(M!Real)' = Complete(M!Real)
        /\ Fits(M!Target.rows)' = Fits(M!Target.rows)
        /\ Fits(dump)' = Fits(dump) /\ Fits(script.snap)' = Fits(script.snap)
    BY <2>1 DEF M!Target, M!Path, M!Real, Bare, Complete, Fits
  <2>3. MoveTypes' /\ Exporting' /\ Turns'
    BY <2>1, <2>2 DEF MoveInv, MoveTypes, Exporting, Turns
  <2>4. Loading' /\ Moving'
    BY <2>1, <2>2 DEF MoveInv, Loading, Moving
  <2>5. M!ReferencesHold' /\ M!OnceEach'
    BY <2>1, FilesStay
  <2> QED
    BY <2>3, <2>4, <2>5 DEF MoveInv
<1>2. CASE \E t \in M!Tables, i \in M!Ids : M!Write(t, i) \/ M!Erase(t, i)
  BY <1>2, LiveChanges
<1>3. CASE M!ImportFails
  <2>1. script.at \in Loads /\ M!CleanUp
    BY <1>3 DEF M!ImportFails, Loads
  <2> QED
    BY <1>3, <2>1, GivesUp DEF M!ImportFails, M!importRest
<1>4. CASE M!Next /\ ~M!ImportFails
           /\ ~\E t \in M!Tables, i \in M!Ids : M!Write(t, i) \/ M!Erase(t, i)
  BY <1>4, ScriptStarts, Exports, Opens, LoadsTable, Indexes, Verifies, ExportsSecrets,
     ImportsSecrets, MovesFile, Finishes, Deletes DEF M!Next
<1> QED
  BY <1>1, <1>2, <1>3, <1>4

-----------------------------------------------------------------------------
(* The devices.                                                            *)

Somebody == seen \cup {D!NoUser}
Registering == [step : {"idle", "look", "renew", "subscribe", "posting"}, end : Nat,
                as : Somebody]
PushRow == [user : Somebody, end : Nat]

DeviceTypes ==
  /\ who \in Somebody /\ ios \in BOOLEAN
  /\ ends \in Nat /\ end \in 0 .. ends
  /\ subs \subseteq PushRow /\ undo \subseteq PushRow
  /\ run \in [Runs -> Registering] /\ worker \in Registering
  /\ mounted \in BOOLEAN /\ unsaved \in BOOLEAN /\ said \in BOOLEAN

\* What is at rest is so altogether; what was posted, is for one signed in;
\* and a DELETE is for an endpoint that is gone.
Consistent ==
  /\ \A r \in Runs : run[r].step = "idle" => run[r] = D!Idle
  /\ worker.step = "idle" => worker = D!Idle
  /\ \A r \in subs : r.user \in seen
  /\ \A d \in undo : d.end <= ends /\ d.end # end /\ d.end # 0
  /\ mounted => who # D!NoUser

\* A run that will have the endpoint there is registered for who is signed in.
InCharge(r) ==
  \/ run[r].step \in {"look", "renew", "subscribe"}
  \/ run[r].step = "posting" /\ run[r].end = end /\ run[r].as = who

Provided ==
  mounted /\ end # 0 /\ ~unsaved /\ ~said /\ worker = D!Idle =>
    [user |-> who, end |-> end] \in subs \/ \E r \in Runs : InCharge(r)

DeviceInv == DeviceTypes /\ Consistent /\ Provided

LEMMA DeviceInit ==
  ASSUME D!Init
  PROVE  DeviceInv
<1>1. D!Idle \in Registering
  BY DEF D!Init, D!Idle, Registering, Somebody
<1>2. /\ who = D!NoUser /\ end = 0 /\ ends = 0 /\ subs = {} /\ undo = {} /\ ios \in BOOLEAN
      /\ run = [r \in Runs |-> D!Idle] /\ worker = D!Idle
      /\ said = FALSE /\ mounted = FALSE /\ unsaved = FALSE
  BY DEF D!Init
<1>4. who \in Somebody /\ end \in 0 .. ends /\ ends \in Nat
  BY <1>2 DEF Somebody
<1>5. run \in [Runs -> Registering] /\ worker \in Registering
  BY <1>1, <1>2
<1>6. DeviceTypes
  BY <1>2, <1>4, <1>5 DEF DeviceTypes
<1>3. Consistent /\ Provided
  BY DEF D!Init, Consistent, Provided
<1> QED
  BY <1>3, <1>6 DEF DeviceInv

LEMMA DeviceReached == DeviceInv => D!PushesAccounted
<1> SUFFICES ASSUME DeviceInv
             PROVE  D!Reachable /\ D!ShownToOwners
  BY DEF D!PushesAccounted
<1>1. D!Reachable
  BY DEF DeviceInv, Provided, InCharge, D!Reachable, D!Idle
<1>2. D!ShownToOwners
  BY DEF DeviceInv, Consistent, D!ShownToOwners
<1> QED
  BY <1>1, <1>2

\* What a run makes of its step.
LEMMA PutRun ==
  ASSUME DeviceTypes, NEW r \in Runs, NEW c \in Registering,
         run' = [run EXCEPT ![r] = c]
  PROVE  /\ run' \in [Runs -> Registering] /\ run'[r] = c
         /\ \A s \in Runs : s # r => run'[s] = run[s]
  BY DEF DeviceTypes

LEMMA RunSteps ==
  ASSUME NEW c \in Registering, NEW st
  PROVE  [c EXCEPT !.step = st] = [step |-> st, end |-> c.end, as |-> c.as]
  BY DEF Registering

\* The endpoint stays, and so does who is signed in: who is in charge is so
\* unless it was this run.
LEMMA RunGoesOn ==
  ASSUME DeviceInv, NEW r \in Runs, NEW c \in Registering, run' = [run EXCEPT ![r] = c],
         c.step = "idle" => c = D!Idle,
         UNCHANGED <<who, ios, end, ends, worker, undo, seen>>,
         DeviceTypes', \A x \in subs' : x.user \in seen, subs \subseteq subs',
         said' \in BOOLEAN, mounted' => who # D!NoUser,
         mounted' /\ end # 0 /\ ~unsaved' /\ ~said' /\ worker = D!Idle =>
            \/ InCharge(r)' \/ [user |-> who, end |-> end] \in subs'
            \/ mounted /\ ~unsaved /\ ~said /\ ~InCharge(r)
  PROVE  DeviceInv'
<1>1. /\ run'[r] = c /\ \A s \in Runs : s # r => run'[s] = run[s]
  BY PutRun DEF DeviceInv
<1>2. Consistent'
  BY <1>1 DEF DeviceInv, Consistent, D!Idle
<1>3. \A s \in Runs : s # r => InCharge(s)' = InCharge(s)
  BY <1>1 DEF InCharge
<1>4. Provided'
  <2> SUFFICES ASSUME mounted', end' # 0, ~unsaved', ~said', worker' = D!Idle'
               PROVE  [user |-> who, end |-> end]' \in subs' \/ \E s \in Runs : InCharge(s)'
    BY DEF Provided
  <2>1. worker = D!Idle
    BY DEF D!Idle
  <2>2. CASE InCharge(r)' \/ [user |-> who, end |-> end] \in subs'
    BY <2>2
  <2>3. CASE mounted /\ ~unsaved /\ ~said /\ ~InCharge(r)
    BY <1>3, <2>1, <2>3 DEF DeviceInv, Provided
  <2> QED
    BY <2>1, <2>2, <2>3
<1> QED
  BY <1>2, <1>4 DEF DeviceInv

LEMMA BeginsRun ==
  ASSUME DeviceInv, NEW r \in Runs, D!Begin(r)
  PROVE  DeviceInv'
<1> DEFINE c == [step |-> "look", end |-> run[r].end, as |-> run[r].as]
<1>1. /\ run[r] \in Registering /\ run' = [run EXCEPT ![r].step = "look"] /\ who # D!NoUser
      /\ mounted' = TRUE /\ said' = FALSE
      /\ UNCHANGED <<who, ios, end, ends, subs, worker, undo, seen, unsaved>>
  BY DEF DeviceInv, DeviceTypes, D!Begin
<1>2. run' = [run EXCEPT ![r] = c]
  BY <1>1, RunSteps DEF DeviceInv, DeviceTypes
<1>3. c \in Registering
  BY <1>1 DEF Registering
<1> HIDE DEF c
<1>4. run' \in [Runs -> Registering] /\ run'[r] = c
  BY <1>2, <1>3, PutRun DEF DeviceInv
<1>5. DeviceTypes'
  BY <1>1, <1>4 DEF DeviceInv, DeviceTypes, Registering, PushRow, Somebody
<1>6. c.step = "look" /\ InCharge(r)'
  BY <1>4 DEF c, InCharge
<1> QED
  BY <1>1, <1>2, <1>3, <1>5, <1>6, RunGoesOn DEF DeviceInv, Consistent

LEMMA LooksAt ==
  ASSUME DeviceInv, NEW r \in Runs, D!Look(r)
  PROVE  DeviceInv'
<1>1. /\ run[r] \in Registering /\ run[r].step = "look" /\ end \in Nat /\ who \in Somebody
      /\ UNCHANGED <<who, ios, end, ends, subs, worker, undo, said, seen, mounted, unsaved>>
  BY DEF DeviceInv, DeviceTypes, D!Look
<1>2. PICK c \in Registering :
        /\ run' = [run EXCEPT ![r] = c]
        /\ \/ c.step \in {"subscribe", "renew"}
           \/ c.step = "posting" /\ c.end = end /\ c.as = who
  <2> DEFINE a == [step |-> "subscribe", end |-> 0, as |-> D!NoUser]
             b == [step |-> "renew", end |-> end, as |-> D!NoUser]
             p == [step |-> "posting", end |-> end, as |-> who]
  <2>1. a \in Registering /\ b \in Registering /\ p \in Registering
    BY <1>1 DEF Registering, Somebody
  <2>2. /\ [D!Idle EXCEPT !.step = "subscribe"] = a /\ D!Posting(end) = p
        /\ [D!Idle EXCEPT !.step = "renew", !.end = end] = b
    <3> DEFINE i == D!Idle
               one == [i EXCEPT !.step = "renew"]
    <3>1. i \in Registering /\ i.end = 0 /\ i.as = D!NoUser
      BY DEF D!Idle, Registering, Somebody
    <3> HIDE DEF i
    <3>2. [i EXCEPT !.step = "subscribe"] = a
      BY <3>1, RunSteps
    <3>3. one = [step |-> "renew", end |-> 0, as |-> D!NoUser]
      BY <3>1, RunSteps
    <3>4. [i EXCEPT !.step = "renew", !.end = end] = [one EXCEPT !.end = end]
      OBVIOUS
    <3> HIDE DEF one
    <3>5. [one EXCEPT !.end = end] = b
      BY <3>3
    <3>6. D!Posting(end) = p
      BY DEF D!Posting
    <3> QED
      BY <3>2, <3>4, <3>5, <3>6 DEF i
  <2>3. run' = [run EXCEPT ![r] = IF end = 0 THEN a ELSE IF ios THEN b ELSE p]
    BY <2>2 DEF D!Look
  <2>4. CASE end = 0
    BY <2>1, <2>3, <2>4
  <2>5. CASE end # 0 /\ ios
    BY <2>1, <2>3, <2>5
  <2>6. CASE end # 0 /\ ~ios
    BY <2>1, <2>3, <2>6
  <2> QED
    BY <2>4, <2>5, <2>6
<1>3. run' \in [Runs -> Registering] /\ run'[r] = c
  BY <1>2, PutRun DEF DeviceInv
<1>4. DeviceTypes'
  BY <1>1, <1>3 DEF DeviceInv, DeviceTypes, Registering, PushRow, Somebody
<1>5. InCharge(r)'
  BY <1>1, <1>2, <1>3 DEF InCharge
<1> QED
  BY <1>1, <1>2, <1>4, <1>5, RunGoesOn DEF DeviceInv, Consistent, DeviceTypes

LEMMA SavesRow ==
  ASSUME DeviceInv, NEW r \in Runs, D!Saved(r)
  PROVE  DeviceInv'
<1> DEFINE new == [user |-> run[r].as, end |-> run[r].end]
<1>1. /\ run[r] \in Registering /\ run[r].step = "posting" /\ run[r].as # D!NoUser
      /\ subs' = subs \cup {new} /\ run' = [run EXCEPT ![r] = D!Idle]
      /\ UNCHANGED <<who, ios, end, ends, worker, undo, said, seen, mounted, unsaved>>
  BY DEF DeviceInv, DeviceTypes, D!Saved
<1>2. D!Idle \in Registering /\ new \in PushRow /\ new.user \in seen
  BY <1>1 DEF D!Idle, Registering, PushRow, Somebody
<1>3. run' \in [Runs -> Registering] /\ run'[r] = D!Idle
  BY <1>1, <1>2, PutRun DEF DeviceInv
<1>4. DeviceTypes'
  BY <1>1, <1>2, <1>3 DEF DeviceInv, DeviceTypes, Registering, PushRow, Somebody
<1>5. InCharge(r) => [user |-> who, end |-> end] \in subs'
  BY <1>1 DEF InCharge
<1>6. \A x \in subs' : x.user \in seen
  BY <1>1, <1>2 DEF DeviceInv, Consistent
<1> HIDE DEF new
<1> QED
  BY <1>1, <1>2, <1>4, <1>5, <1>6, RunGoesOn DEF DeviceInv, Consistent, DeviceTypes

LEMMA GivesRunUp ==
  ASSUME DeviceInv, NEW r \in Runs, D!NotSaved(r)
  PROVE  DeviceInv'
<1>1. /\ run' = [run EXCEPT ![r] = D!Idle] /\ unsaved' = TRUE
      /\ UNCHANGED <<who, ios, end, ends, subs, worker, undo, said, seen, mounted>>
  BY DEF D!NotSaved
<1>2. D!Idle \in Registering
  BY DEF D!Idle, Registering, Somebody
<1>3. run' \in [Runs -> Registering]
  BY <1>1, <1>2, PutRun DEF DeviceInv
<1>4. DeviceTypes'
  BY <1>1, <1>2, <1>3 DEF DeviceInv, DeviceTypes, Registering, PushRow, Somebody
<1> QED
  BY <1>1, <1>2, <1>4, RunGoesOn DEF DeviceInv, Consistent, DeviceTypes

LEMMA Unsubscribes ==
  ASSUME DeviceInv, NEW r \in Runs, D!Unsubscribe(r)
  PROVE  DeviceInv'
<1> DEFINE c == [step |-> "subscribe", end |-> run[r].end, as |-> run[r].as]
<1>1. /\ run[r] \in Registering /\ run' = [run EXCEPT ![r].step = "subscribe"]
      /\ end' \in {0, end} /\ ends \in Nat /\ end \in 0 .. ends
      /\ UNCHANGED <<who, ios, ends, subs, worker, undo, said, seen, mounted, unsaved>>
  BY DEF DeviceInv, DeviceTypes, D!Unsubscribe
<1>2. run' = [run EXCEPT ![r] = c]
  BY <1>1, RunSteps DEF DeviceInv, DeviceTypes
<1>3. c \in Registering
  BY <1>1 DEF Registering
<1>4. c.step = "subscribe"
  OBVIOUS
<1> HIDE DEF c
<1>5. /\ run' \in [Runs -> Registering] /\ run'[r] = c
      /\ \A s \in Runs : s # r => run'[s] = run[s]
  BY <1>2, <1>3, PutRun DEF DeviceInv
<1>6. DeviceTypes'
  BY <1>1, <1>5 DEF DeviceInv, DeviceTypes, Registering, PushRow, Somebody
<1>7. Consistent'
  BY <1>1, <1>4, <1>5 DEF DeviceInv, Consistent, D!Idle
<1>8. InCharge(r)'
  BY <1>4, <1>5 DEF InCharge
<1> QED
  BY <1>6, <1>7, <1>8 DEF DeviceInv, Provided

\* The endpoint there is, or a new one.
LEMMA SubscribedIs ==
  ASSUME DeviceTypes, Consistent
  PROVE  /\ D!Subscribed \in Nat \ {0}
         /\ LET n == IF end = 0 THEN ends + 1 ELSE ends IN
            /\ n \in Nat /\ ends <= n /\ D!Subscribed \in 0 .. n
            /\ \A d \in undo : d.end <= n /\ d.end # D!Subscribed
<1>1. /\ ends \in Nat /\ end \in Nat /\ end <= ends
      /\ \A d \in undo : d.end \in Nat /\ d.end <= ends /\ d.end # end
  BY DEF DeviceTypes, Consistent, PushRow
<1>2. CASE end = 0
  <2>1. D!Subscribed = ends + 1
    BY <1>2 DEF D!Subscribed
  <2> QED
    BY <1>1, <1>2, <2>1
<1>3. CASE end # 0
  <2>1. D!Subscribed = end
    BY <1>3 DEF D!Subscribed
  <2> QED
    BY <1>1, <1>3, <2>1
<1> QED
  BY <1>2, <1>3

LEMMA PostingIs ==
  ASSUME DeviceTypes, NEW e \in Nat
  PROVE  /\ D!Posting(e) \in Registering /\ D!Posting(e).step = "posting"
         /\ D!Posting(e).end = e /\ D!Posting(e).as = who /\ D!Posting(e) # D!Idle
<1>1. D!Posting(e) = [step |-> "posting", end |-> e, as |-> who]
  BY DEF D!Posting
<1>2. who \in Somebody
  BY DEF DeviceTypes
<1>3. D!Idle.step = "idle"
  BY DEF D!Idle
<1> QED
  BY <1>1, <1>2, <1>3 DEF Registering

LEMMA Subscribes ==
  ASSUME DeviceInv, NEW r \in Runs, D!Subscribe(r)
  PROVE  DeviceInv'
<1> DEFINE e == D!Subscribed
           c == D!Posting(e)
           n == IF end = 0 THEN ends + 1 ELSE ends
<1>1. /\ run' = [run EXCEPT ![r] = c] /\ end' = e /\ ends' = n
      /\ unsaved' = (unsaved /\ end # 0)
      /\ UNCHANGED <<who, ios, subs, worker, undo, said, seen, mounted>>
  BY DEF D!Subscribe
<1>2. /\ e \in Nat \ {0} /\ n \in Nat /\ ends <= n /\ e \in 0 .. n
      /\ \A d \in undo : d.end <= n /\ d.end # e
  BY SubscribedIs DEF DeviceInv
<1> HIDE DEF n, e
<1>3. c \in Registering /\ c.step = "posting" /\ c.end = e /\ c.as = who
  BY <1>2, PostingIs DEF DeviceInv
<1> HIDE DEF c
<1>4. /\ run' \in [Runs -> Registering] /\ run'[r] = c
      /\ \A s \in Runs : s # r => run'[s] = run[s]
  BY <1>1, <1>3, PutRun DEF DeviceInv
<1>5. unsaved' \in BOOLEAN
  BY <1>1
<1>6. DeviceTypes'
  BY <1>1, <1>2, <1>4, <1>5 DEF DeviceInv, DeviceTypes, Registering, PushRow, Somebody
<1>7. Consistent'
  BY <1>1, <1>2, <1>3, <1>4 DEF DeviceInv, Consistent, D!Idle
<1>8. InCharge(r)'
  BY <1>1, <1>3, <1>4 DEF InCharge
<1> QED
  BY <1>6, <1>7, <1>8 DEF DeviceInv, Provided

LEMMA Changes ==
  ASSUME DeviceInv, D!Change
  PROVE  DeviceInv'
<1> DEFINE c == [step |-> "subscribe", end |-> worker.end, as |-> worker.as]
           d == [user |-> who, end |-> end]
<1>1. /\ worker \in Registering /\ end # 0 /\ end' = 0 /\ undo' = undo \cup {d}
      /\ worker' = [worker EXCEPT !.step = "subscribe"]
      /\ ends \in Nat /\ end \in 0 .. ends /\ who \in Somebody
      /\ UNCHANGED <<who, ios, ends, subs, run, said, seen, mounted, unsaved>>
  BY DEF DeviceInv, DeviceTypes, D!Change
<1>2. worker' = c
  BY <1>1, RunSteps
<1>3. c \in Registering /\ c # D!Idle
  BY <1>1 DEF Registering, D!Idle
<1>4. d \in PushRow /\ d.end <= ends /\ d.end # 0
  BY <1>1 DEF PushRow
<1>5. c.step = "subscribe"
  OBVIOUS
<1> HIDE DEF c, d
<1>6. DeviceTypes'
  BY <1>1, <1>2, <1>3, <1>4 DEF DeviceInv, DeviceTypes, Registering, PushRow, Somebody
<1>7. Consistent'
  BY <1>1, <1>2, <1>4, <1>5 DEF DeviceInv, Consistent, D!Idle
<1>8. Provided'
  BY <1>2, <1>3 DEF Provided, D!Idle
<1> QED
  BY <1>6, <1>7, <1>8 DEF DeviceInv

\* A DELETE of another endpoint, or an answer that one is gone, leaves the row
\* of this one.
LEMMA RowsGo ==
  ASSUME DeviceInv, NEW x, x.end # end, subs' \in {subs, subs \ {x}}, undo' \subseteq undo,
         UNCHANGED <<who, ios, end, ends, run, worker, said, seen, mounted, unsaved>>
  PROVE  DeviceInv'
<1>1. DeviceTypes'
  BY DEF DeviceInv, DeviceTypes, Registering, PushRow, Somebody
<1>2. Consistent'
  BY DEF DeviceInv, Consistent, D!Idle
<1>3. [user |-> who, end |-> end] \in subs => [user |-> who, end |-> end] \in subs'
  OBVIOUS
<1>4. \A r \in Runs : InCharge(r)' = InCharge(r)
  BY DEF InCharge
<1>5. Provided'
  BY <1>3, <1>4 DEF DeviceInv, Provided, D!Idle
<1> QED
  BY <1>1, <1>2, <1>5 DEF DeviceInv

LEMMA Resubscribes ==
  ASSUME DeviceInv, D!Resubscribe
  PROVE  DeviceInv'
<1> DEFINE e == D!Subscribed
           c == D!Posting(e)
           n == IF end = 0 THEN ends + 1 ELSE ends
<1>1. /\ worker' = c /\ end' = e /\ ends' = n
      /\ UNCHANGED <<who, ios, subs, run, undo, said, seen, mounted, unsaved>>
  BY DEF D!Resubscribe
<1>2. /\ e \in Nat \ {0} /\ n \in Nat /\ ends <= n /\ e \in 0 .. n
      /\ \A d \in undo : d.end <= n /\ d.end # e
  BY SubscribedIs DEF DeviceInv
<1> HIDE DEF n, e
<1>3. c \in Registering /\ c.step = "posting" /\ c # D!Idle
  BY <1>2, PostingIs DEF DeviceInv
<1> HIDE DEF c
<1>4. DeviceTypes'
  BY <1>1, <1>2, <1>3 DEF DeviceInv, DeviceTypes, Registering, PushRow, Somebody
<1>5. Consistent'
  BY <1>1, <1>2, <1>3 DEF DeviceInv, Consistent, D!Idle
<1>6. Provided'
  BY <1>1, <1>3 DEF Provided, D!Idle
<1> QED
  BY <1>4, <1>5, <1>6 DEF DeviceInv

LEMMA Tells ==
  ASSUME DeviceInv, NEW ok \in BOOLEAN, D!Resaved(ok)
  PROVE  DeviceInv'
<1> DEFINE x == [user |-> worker.as, end |-> worker.end]
<1>1. /\ worker \in Registering /\ worker' = D!Idle /\ said' = TRUE
      /\ UNCHANGED <<who, ios, end, ends, run, undo, seen, mounted, unsaved>>
  BY DEF DeviceInv, DeviceTypes, D!Resaved
<1>2. subs' = subs \/ (subs' = subs \cup {x} /\ x \in PushRow /\ x.user \in seen)
  <2>1. CASE ok = TRUE
    <3>1. worker.step = "posting" /\ worker.as # D!NoUser
      BY <2>1 DEF D!Resaved
    <3>2. subs' = subs \cup {x}
      BY <2>1 DEF D!Resaved
    <3> QED
      BY <1>1, <3>1, <3>2 DEF Registering, PushRow, Somebody
  <2>2. CASE ok = FALSE
    <3>1. subs' = (IF ok THEN subs \cup {x} ELSE subs)
      BY DEF D!Resaved
    <3>2. subs' = subs
      BY <2>2, <3>1
    <3> QED
      BY <3>2
  <2> QED
    BY <2>1, <2>2
<1>3. D!Idle \in Registering
  BY DEF D!Idle, Registering, Somebody
<1> HIDE DEF x
<1>4. DeviceTypes'
  BY <1>1, <1>2, <1>3 DEF DeviceInv, DeviceTypes, Registering, PushRow, Somebody
<1>5. Consistent'
  BY <1>1, <1>2 DEF DeviceInv, Consistent, D!Idle
<1>6. Provided'
  BY <1>1 DEF Provided
<1> QED
  BY <1>4, <1>5, <1>6 DEF DeviceInv

LEMMA AccountsChange ==
  ASSUME DeviceInv, D!SignOut \/ \E u : D!SignIn(u)
  PROVE  DeviceInv'
<1>1. /\ mounted' = FALSE /\ seen \subseteq seen' /\ who' \in seen' \cup {D!NoUser}
      /\ unsaved' \in BOOLEAN
      /\ UNCHANGED <<ios, end, ends, subs, run, worker, undo, said>>
  BY DEF DeviceInv, DeviceTypes, D!SignOut, D!SignIn
<1>2. DeviceTypes'
  BY <1>1 DEF DeviceInv, DeviceTypes, Registering, PushRow, Somebody
<1>3. Consistent'
  BY <1>1 DEF DeviceInv, Consistent, D!Idle
<1>4. Provided'
  BY <1>1 DEF Provided
<1> QED
  BY <1>2, <1>3, <1>4 DEF DeviceInv

LEMMA DeviceStep ==
  ASSUME DeviceInv, [D!Next]_(D!pushVars)
  PROVE  DeviceInv'
<1>1. ASSUME NEW r \in Runs,
             \/ D!Begin(r) \/ D!Look(r) \/ D!Unsubscribe(r) \/ D!Subscribe(r)
             \/ D!Saved(r) \/ D!NotSaved(r)
      PROVE  DeviceInv'
  BY <1>1, BeginsRun, LooksAt, Unsubscribes, Subscribes, SavesRow, GivesRunUp
<1>2. ASSUME NEW d \in undo, D!Undone(d)
      PROVE  DeviceInv'
  <2>1. d.end # end
    BY DEF DeviceInv, Consistent
  <2>2. /\ subs' \in {subs, subs \ {d}} /\ undo' \subseteq undo
        /\ UNCHANGED <<who, ios, end, ends, run, worker, said, seen, mounted, unsaved>>
    BY <1>2 DEF D!Undone
  <2> QED
    BY <2>1, <2>2, RowsGo
<1>3. ASSUME NEW r \in subs, D!Gone(r)
      PROVE  DeviceInv'
  <2>1. /\ r.end # end /\ subs' \in {subs, subs \ {r}} /\ undo' \subseteq undo
        /\ UNCHANGED <<who, ios, end, ends, run, worker, said, seen, mounted, unsaved>>
    BY <1>3 DEF D!Gone
  <2> QED
    BY <2>1, RowsGo
<1>4. CASE UNCHANGED (D!pushVars)
  <2>1. UNCHANGED <<who, ios, end, ends, subs, run, worker, undo, said, seen, mounted, unsaved>>
    BY <1>4 DEF D!pushVars
  <2> QED
    BY <2>1 DEF DeviceInv, DeviceTypes, Consistent, Provided, InCharge, Registering,
                PushRow, Somebody, D!Idle
<1> QED
  BY <1>1, <1>2, <1>3, <1>4, Changes, Resubscribes, Tells, AccountsChange DEF D!Next

-----------------------------------------------------------------------------
(* The topic.                                                              *)

\* A request by what it asks for: an answer that was read, and the two of a
\* rotation, are of a topic that there has been.
Call ==
  [kind : {"none", "load", "enable", "toggle", "rotate"},
   step : {"none", "ask", "reread", "update", "again", "refused", "answer"},
   read : Nat, on : BOOLEAN]
View == [state : {"loading", "hidden", "shown"}, topic : Nat, on : BOOLEAN]

TopicTypes ==
  /\ topic \in Nat /\ enabled \in BOOLEAN /\ used = topic
  /\ view \in [Pages -> View] /\ call \in [Pages -> Call]
  /\ sending \in [Senders -> [topic : Nat, old : BOOLEAN]]
  /\ behind \in [Pages -> SUBSET {"topic", "on"}]

\* What the page shows, or will once it has its answer.
ToShow(d) ==
  IF call[d].step = "answer"
  THEN [topic |-> IF call[d].kind = "toggle" THEN view[d].topic ELSE call[d].read,
        on |-> IF call[d].kind = "rotate" THEN view[d].on ELSE call[d].on]
  ELSE [topic |-> view[d].topic, on |-> view[d].on]

PageInv(d) ==
  \* It knows of no topic that is not there yet, and asks to switch or replace
  \* only one that it shows.
  /\ view[d].topic <= topic /\ call[d].read <= topic
  /\ call[d].kind \in {"toggle", "rotate"} => view[d].topic # 0
  \* Which steps a request takes, and what the page shows meanwhile.
  /\ call[d].kind = "none" <=> call[d].step = "none"
  /\ call[d].kind = "none" => call[d] = T!Idle
  /\ call[d].kind = "load" <=> view[d].state = "loading"
  /\ call[d].kind # "none" /\ call[d].kind # "load" => view[d].state = "shown"
  /\ call[d].step = "reread" => call[d].kind = "enable"
  /\ call[d].step \in {"update", "again"} => call[d].kind = "rotate"
  \* What it is to show is what the row holds, but for what it has missed; a
  \* page that enables the topic does not know of its own change yet.
  /\ call[d].step = "answer" \/ (view[d].state = "shown" /\ call[d].step # "reread") =>
       /\ "topic" \notin behind[d] => ToShow(d).topic = topic
       /\ "on" \notin behind[d] => ToShow(d).on = enabled

SenderInv(s) ==
  /\ sending[s].topic <= topic
  /\ sending[s].topic # 0 /\ ~sending[s].old => sending[s].topic = topic

TopicInv ==
  /\ TopicTypes
  /\ \A d \in Pages : PageInv(d)
  /\ \A s \in Senders : SenderInv(s)

LEMMA TopicInit ==
  ASSUME T!Init
  PROVE  TopicInv
<1>1. TopicTypes
  BY DEF T!Init, TopicTypes, T!Loading, View, Call
<1> QED
  BY <1>1 DEF T!Init, TopicInv, PageInv, SenderInv, T!Loading, T!Idle

LEMMA TopicShown == TopicInv => T!TopicAgrees
  BY DEF TopicInv, TopicTypes, PageInv, ToShow, SenderInv, T!TopicAgrees, T!LinkWorks,
         T!PublishesThere, T!Idle

\* A page takes a step: the others are told of what has changed.
OtherPages(d) ==
  \A e \in Pages \ {d} :
    /\ call'[e] = call[e] /\ view'[e] = view[e] /\ behind[e] \subseteq behind'[e]
    /\ topic' = topic \/ "topic" \in behind'[e]
    /\ enabled' = enabled \/ "on" \in behind'[e]

LEMMA OthersFollow ==
  ASSUME TopicInv, NEW d \in Pages, TopicTypes', topic <= topic', OtherPages(d),
         PageInv(d)'
  PROVE  \A e \in Pages : PageInv(e)'
<1> SUFFICES ASSUME NEW e \in Pages \ {d}
             PROVE  PageInv(e)'
  OBVIOUS
<1>1. PageInv(e) /\ view[e].topic \in Nat /\ call[e].read \in Nat
      /\ topic \in Nat /\ topic' \in Nat
  BY DEF TopicInv, TopicTypes, View, Call
<1>2. ToShow(e)' = ToShow(e)
  BY DEF OtherPages, ToShow
<1>3. /\ call'[e] = call[e] /\ view'[e] = view[e] /\ behind[e] \subseteq behind'[e]
      /\ topic' = topic \/ "topic" \in behind'[e]
      /\ enabled' = enabled \/ "on" \in behind'[e]
  BY DEF OtherPages
<1>4. T!Idle' = T!Idle
  BY DEF T!Idle
<1>5. view'[e].topic <= topic' /\ call'[e].read <= topic'
  BY <1>1, <1>3 DEF PageInv
<1>6. call[e].step = "answer" \/ (view[e].state = "shown" /\ call[e].step # "reread") =>
        /\ "topic" \notin behind'[e] => ToShow(e)'.topic = topic'
        /\ "on" \notin behind'[e] => ToShow(e)'.on = enabled'
  <2> HIDE DEF ToShow
  <2> QED
    BY <1>1, <1>2, <1>3 DEF PageInv
<1> HIDE DEF ToShow
<1> QED
  BY <1>1, <1>3, <1>4, <1>5, <1>6 DEF PageInv

\* A request in place of another one.
LEMMA PutCall ==
  ASSUME TopicTypes, NEW d \in Pages, NEW c \in Call, call' = [call EXCEPT ![d] = c]
  PROVE  /\ call' \in [Pages -> Call] /\ call'[d] = c
         /\ \A e \in Pages \ {d} : call'[e] = call[e]
  BY DEF TopicTypes

LEMMA CallStep ==
  ASSUME NEW c \in Call, NEW st
  PROVE  [c EXCEPT !.step = st] =
           [kind |-> c.kind, step |-> st, read |-> c.read, on |-> c.on]
  BY DEF Call

LEMMA CallRead ==
  ASSUME NEW c \in Call, NEW st, NEW n
  PROVE  [c EXCEPT !.step = st, !.read = n] =
           [kind |-> c.kind, step |-> st, read |-> n, on |-> c.on]
<1> DEFINE one == [c EXCEPT !.step = st]
<1>1. one = [kind |-> c.kind, step |-> st, read |-> c.read, on |-> c.on]
  BY CallStep
<1>2. [c EXCEPT !.step = st, !.read = n] = [one EXCEPT !.read = n]
  OBVIOUS
<1> HIDE DEF one
<1> QED
  BY <1>1, <1>2

LEMMA CallAnswer ==
  ASSUME NEW c \in Call, NEW st, NEW n, NEW b
  PROVE  [c EXCEPT !.step = st, !.read = n, !.on = b] =
           [kind |-> c.kind, step |-> st, read |-> n, on |-> b]
<1> DEFINE two == [c EXCEPT !.step = st, !.read = n]
<1>1. two = [kind |-> c.kind, step |-> st, read |-> n, on |-> c.on]
  BY CallRead
<1>2. [c EXCEPT !.step = st, !.read = n, !.on = b] = [two EXCEPT !.on = b]
  OBVIOUS
<1> HIDE DEF two
<1> QED
  BY <1>1, <1>2

\* A page asks, and is answered.
LEMMA Asks ==
  ASSUME NEW k, NEW b
  PROVE  /\ [T!Loading EXCEPT !.kind = k] =
              [kind |-> k, step |-> "ask", read |-> 0, on |-> FALSE]
         /\ [T!Loading EXCEPT !.kind = k, !.on = b] =
              [kind |-> k, step |-> "ask", read |-> 0, on |-> b]
<1>1. T!Loading \in Call
  BY DEF T!Loading, Call
<1>2. T!Loading.step = "ask" /\ T!Loading.read = 0 /\ T!Loading.on = FALSE
  BY DEF T!Loading
<1>3. ASSUME NEW c \in Call
      PROVE  /\ [c EXCEPT !.kind = k] =
                  [kind |-> k, step |-> c.step, read |-> c.read, on |-> c.on]
             /\ [c EXCEPT !.kind = k, !.on = b] =
                  [kind |-> k, step |-> c.step, read |-> c.read, on |-> b]
  <2> DEFINE one == [c EXCEPT !.kind = k]
  <2>1. one = [kind |-> k, step |-> c.step, read |-> c.read, on |-> c.on]
    BY <1>3 DEF Call
  <2>2. [c EXCEPT !.kind = k, !.on = b] = [one EXCEPT !.on = b]
    OBVIOUS
  <2>3. [one EXCEPT !.on = b] = [kind |-> k, step |-> c.step, read |-> c.read, on |-> b]
    <3> HIDE DEF one
    <3> QED
      BY <2>1
  <2> QED
    BY <2>1, <2>2, <2>3
<1> QED
  BY <1>1, <1>2, <1>3, Zenon

LEMMA Replies ==
  ASSUME TopicTypes, NEW d \in Pages, NEW n, NEW b
  PROVE  T!Reply(d, n, b) = [kind |-> call[d].kind, step |-> "answer", read |-> n, on |-> b]
<1>1. call[d] \in Call
  BY DEF TopicTypes
<1>2. T!Reply(d, n, b) = [call[d] EXCEPT !.step = "answer", !.read = n, !.on = b]
  BY DEF T!Reply
<1> QED
  BY <1>1, <1>2, CallAnswer

\* What it has missed, and what it shows.
LEMMA PutBehind ==
  ASSUME TopicTypes, NEW d \in Pages, NEW m \in SUBSET {"topic", "on"},
         behind' = [behind EXCEPT ![d] = m]
  PROVE  /\ behind' \in [Pages -> SUBSET {"topic", "on"}] /\ behind'[d] = m
         /\ \A e \in Pages \ {d} : behind'[e] = behind[e]
  BY DEF TopicTypes

LEMMA PutView ==
  ASSUME TopicTypes, NEW d \in Pages, NEW v \in View, view' = [view EXCEPT ![d] = v]
  PROVE  /\ view' \in [Pages -> View] /\ view'[d] = v
         /\ \A e \in Pages \ {d} : view'[e] = view[e]
  BY DEF TopicTypes

\* The topic stays, or is the first one: nobody has one of those before it.
LEMMA SendersStay ==
  ASSUME TopicInv, topic' \in Nat, topic <= topic', topic' = topic \/ topic = 0,
         sending' = sending
  PROVE  \A s \in Senders : SenderInv(s)'
<1> SUFFICES ASSUME NEW s \in Senders
             PROVE  SenderInv(s)'
  OBVIOUS
<1>1. SenderInv(s) /\ sending[s].topic \in Nat /\ topic \in Nat
  BY DEF TopicInv, TopicTypes
<1> QED
  BY <1>1 DEF SenderInv

\* The topic is replaced: whoever has read the one before it has an old one.
LEMMA SendersRetire ==
  ASSUME TopicInv, T!Retired, topic' = topic + 1
  PROVE  /\ sending' \in [Senders -> [topic : Nat, old : BOOLEAN]]
         /\ \A s \in Senders : SenderInv(s)'
<1>1. ASSUME NEW s \in Senders
      PROVE  /\ sending'[s] \in [topic : Nat, old : BOOLEAN]
             /\ sending'[s].topic = sending[s].topic
             /\ sending'[s].topic # 0 => sending'[s].old
  <2>1. sending[s] \in [topic : Nat, old : BOOLEAN] /\ DOMAIN sending' = Senders
    BY DEF TopicInv, TopicTypes, T!Retired
  <2> DEFINE o == sending[s].old \/ sending[s].topic # 0
  <2>2. [sending[s] EXCEPT !.old = @ \/ sending[s].topic # 0] = [topic |-> sending[s].topic, old |-> o]
    BY <2>1
  <2>3. o \in BOOLEAN
    BY <2>1
  <2>4. sending'[s] = [topic |-> sending[s].topic, old |-> o]
    BY <2>2 DEF T!Retired
  <2> HIDE DEF o
  <2>5. sending'[s].topic = sending[s].topic /\ sending'[s].old = o
        /\ sending'[s] \in [topic : Nat, old : BOOLEAN]
    BY <2>1, <2>3, <2>4
  <2> QED
    BY <2>5 DEF o
<1>2. sending' \in [Senders -> [topic : Nat, old : BOOLEAN]]
  BY <1>1 DEF T!Retired
<1>3. ASSUME NEW s \in Senders
      PROVE  SenderInv(s)'
  <2>1. sending[s].topic <= topic /\ sending[s].topic \in Nat /\ topic \in Nat
    BY DEF TopicInv, TopicTypes, SenderInv
  <2> QED
    BY <1>1, <2>1 DEF SenderInv
<1> QED
  BY <1>2, <1>3

LEMMA TopicStep ==
  ASSUME TopicInv, [T!Next]_(T!ntfyVars)
  PROVE  TopicInv'
<1>1. ASSUME NEW d \in Pages, T!Enable(d) \/ T!Toggle(d) \/ T!Rotate(d)
      PROVE  TopicInv'
  <2>1. PICK c \in Call :
          /\ call' = [call EXCEPT ![d] = c]
          /\ c.kind \in {"enable", "toggle", "rotate"} /\ c.step = "ask" /\ c.read = 0
          /\ c.kind # "enable" => view[d].topic # 0
    <3>1. CASE T!Enable(d)
      <4> DEFINE c == [kind |-> "enable", step |-> "ask", read |-> 0, on |-> FALSE]
      <4>1. [T!Loading EXCEPT !.kind = "enable"] = c
        BY Asks, Zenon
      <4>2. c \in Call
        BY DEF Call
      <4> HIDE DEF c
      <4>3. call' = [call EXCEPT ![d] = c]
        BY <3>1, <4>1 DEF T!Enable
      <4> QED
        BY <4>2, <4>3 DEF c
    <3>2. CASE T!Toggle(d)
      <4> DEFINE c == [kind |-> "toggle", step |-> "ask", read |-> 0, on |-> ~view[d].on]
      <4>1. [T!Loading EXCEPT !.kind = "toggle", !.on = ~view[d].on] = c
        BY Asks, Zenon
      <4>2. c \in Call
        BY DEF Call
      <4> HIDE DEF c
      <4>3. call' = [call EXCEPT ![d] = c]
        BY <3>2, <4>1 DEF T!Toggle
      <4> QED
        BY <3>2, <4>2, <4>3 DEF c, T!Toggle
    <3>3. CASE T!Rotate(d)
      <4> DEFINE c == [kind |-> "rotate", step |-> "ask", read |-> 0, on |-> FALSE]
      <4>1. [T!Loading EXCEPT !.kind = "rotate"] = c
        BY Asks, Zenon
      <4>2. c \in Call
        BY DEF Call
      <4> HIDE DEF c
      <4>3. call' = [call EXCEPT ![d] = c]
        BY <3>3, <4>1 DEF T!Rotate
      <4> QED
        BY <3>3, <4>2, <4>3 DEF c, T!Rotate
    <3> QED
      BY <1>1, <3>1, <3>2, <3>3
  <2>2. /\ UNCHANGED <<topic, enabled, used, view, sending, behind>>
        /\ call[d] = T!Idle /\ view[d].state = "shown"
    BY <1>1 DEF T!Enable, T!Toggle, T!Rotate
  <2>3. call' \in [Pages -> Call] /\ call'[d] = c /\ \A e \in Pages \ {d} : call'[e] = call[e]
    BY <2>1, PutCall DEF TopicInv
  <2>4. TopicTypes' /\ OtherPages(d)
    BY <2>2, <2>3 DEF TopicInv, TopicTypes, OtherPages
  <2>5. PageInv(d)'
    BY <2>1, <2>2, <2>3 DEF TopicInv, TopicTypes, PageInv, ToShow, T!Idle
  <2> QED
    BY <2>2, <2>4, <2>5, OthersFollow DEF TopicInv, TopicTypes, SenderInv
<1>2. ASSUME NEW d \in Pages, T!Read(d)
      PROVE  TopicInv'
  <2>1. call[d] \in Call /\ view[d] \in View /\ PageInv(d) /\ TopicTypes
    BY DEF TopicInv, TopicTypes
  <2> DEFINE c == [kind |-> call[d].kind, step |-> "answer", read |-> topic, on |-> enabled]
  <2>2. /\ call' = [call EXCEPT ![d] = c] /\ c \in Call
        /\ UNCHANGED <<topic, enabled, used, view, sending>>
    BY <1>2, <2>1, Replies DEF T!Read, TopicTypes, Call
  <2> HIDE DEF c
  <2>3. call' \in [Pages -> Call] /\ call'[d] = c /\ \A e \in Pages \ {d} : call'[e] = call[e]
    BY <2>1, <2>2, PutCall
  <2>4. TopicTypes' /\ topic <= topic' /\ OtherPages(d)
    BY <1>2, <2>1, <2>2, <2>3 DEF TopicTypes, OtherPages, T!Read
  <2>5. PageInv(d)'
    BY <1>2, <2>1, <2>2, <2>3 DEF c, TopicTypes, PageInv, ToShow, View, Call, T!Idle, T!Read
  <2>6. \A s \in Senders : SenderInv(s)'
    BY <2>2, <2>4, SendersStay DEF TopicTypes
  <2> QED
    BY <2>4, <2>5, <2>6, OthersFollow DEF TopicInv
<1>3. ASSUME NEW d \in Pages, T!Upsert(d)
      PROVE  TopicInv'
  <2>1. call[d] \in Call /\ view[d] \in View /\ PageInv(d) /\ TopicTypes
    BY DEF TopicInv, TopicTypes
  <2> DEFINE c == [kind |-> call[d].kind, step |-> "reread", read |-> call[d].read, on |-> call[d].on]
  <2>2. /\ call' = [call EXCEPT ![d] = c] /\ c \in Call
        /\ sending' = sending /\ view' = view /\ (topic' = topic \/ topic = 0)
    BY <1>3, <2>1, CallStep DEF T!Upsert, TopicTypes, Call
  <2> HIDE DEF c
  <2>3. call' \in [Pages -> Call] /\ call'[d] = c /\ \A e \in Pages \ {d} : call'[e] = call[e]
    BY <2>1, <2>2, PutCall
  <2>4. TopicTypes' /\ topic <= topic' /\ OtherPages(d)
    BY <1>3, <2>1, <2>2, <2>3 DEF TopicTypes, OtherPages, T!Upsert, T!Overtaken, T!Generated
  <2>5. PageInv(d)'
    BY <1>3, <2>1, <2>2, <2>3 DEF c, TopicTypes, PageInv, ToShow, View, Call, T!Idle, T!Upsert, T!Overtaken, T!Generated
  <2>6. \A s \in Senders : SenderInv(s)'
    BY <2>2, <2>4, SendersStay DEF TopicTypes
  <2> QED
    BY <2>4, <2>5, <2>6, OthersFollow DEF TopicInv
<1>4. ASSUME NEW d \in Pages, T!Reread(d)
      PROVE  TopicInv'
  <2>1. call[d] \in Call /\ view[d] \in View /\ PageInv(d) /\ TopicTypes
    BY DEF TopicInv, TopicTypes
  <2> DEFINE c == [kind |-> call[d].kind, step |-> "answer", read |-> topic, on |-> TRUE]
  <2>2. /\ call' = [call EXCEPT ![d] = c] /\ c \in Call
        /\ UNCHANGED <<topic, enabled, used, view, sending>>
    BY <1>4, <2>1, Replies DEF T!Reread, TopicTypes, Call
  <2> HIDE DEF c
  <2>3. call' \in [Pages -> Call] /\ call'[d] = c /\ \A e \in Pages \ {d} : call'[e] = call[e]
    BY <2>1, <2>2, PutCall
  <2>b. /\ behind' \in [Pages -> SUBSET {"topic", "on"}]
        /\ behind'[d] = (IF enabled THEN {} ELSE {"on"})
        /\ \A e \in Pages \ {d} : behind'[e] = behind[e]
    <3>1. (IF enabled THEN {} ELSE {"on"}) \in SUBSET {"topic", "on"}
      OBVIOUS
    <3> QED
      BY <1>4, <2>1, <3>1, PutBehind DEF T!Reread
  <2>4. TopicTypes' /\ topic <= topic' /\ OtherPages(d)
    BY <2>1, <2>2, <2>3, <2>b DEF TopicTypes, OtherPages
  <2>c. /\ c.kind = "enable" /\ c.step = "answer" /\ c.read = topic /\ c.on = TRUE
        /\ call[d].kind = "enable"
    BY <1>4 DEF c, T!Reread
  <2>d. "on" \notin behind'[d] => enabled = TRUE
    BY <2>1, <2>b DEF TopicTypes
  <2>5. PageInv(d)'
    <3>1. ToShow(d)'.topic = topic' /\ ToShow(d)'.on = TRUE
      BY <2>2, <2>3, <2>c DEF ToShow
    <3>2. "on" \notin behind'[d] => ToShow(d)'.on = enabled'
      BY <2>2, <2>d, <3>1
    <3>3. view[d].topic <= topic /\ view[d].state = "shown" /\ topic <= topic
      BY <2>1, <2>c DEF PageInv, TopicTypes
    <3> HIDE DEF ToShow
    <3> QED
      BY <2>2, <2>3, <2>c, <3>1, <3>2, <3>3 DEF PageInv
  <2>6. \A s \in Senders : SenderInv(s)'
    BY <2>2, <2>4, SendersStay DEF TopicTypes
  <2> QED
    BY <2>4, <2>5, <2>6, OthersFollow DEF TopicInv
<1>5. ASSUME NEW d \in Pages, T!Switch(d)
      PROVE  TopicInv'
  <2>1. call[d] \in Call /\ view[d] \in View /\ PageInv(d) /\ TopicTypes
    BY DEF TopicInv, TopicTypes
  <2> DEFINE c == [kind |-> call[d].kind, step |-> "answer", read |-> call[d].read, on |-> call[d].on]
  <2>a. call[d].kind = "toggle" /\ call[d].step = "ask" /\ topic # 0
    BY <1>5, <2>1 DEF T!Switch, PageInv, View, TopicTypes
  <2>2. /\ call' = [call EXCEPT ![d] = c] /\ c \in Call
        /\ UNCHANGED <<topic, used, view, sending>>
    <3>1. [call[d] EXCEPT !.step = "answer"] = c
      BY <2>1, CallStep
    <3>2. c \in Call
      BY <2>1 DEF Call
    <3> HIDE DEF c
    <3> QED
      BY <1>5, <2>1, <2>a, <3>1, <3>2 DEF T!Switch, TopicTypes
  <2> HIDE DEF c
  <2>3. call' \in [Pages -> Call] /\ call'[d] = c /\ \A e \in Pages \ {d} : call'[e] = call[e]
    BY <2>1, <2>2, PutCall
  <2>b. /\ behind' \in [Pages -> SUBSET {"topic", "on"}]
        /\ behind'[d] = behind[d] \ {"on"}
        /\ \A e \in Pages \ {d} : behind'[e] = behind[e] \cup {"on"}
        /\ enabled' = call[d].on
    BY <1>5, <2>1, <2>a DEF T!Switch, TopicTypes
  <2>4. TopicTypes' /\ topic <= topic' /\ OtherPages(d)
    BY <2>1, <2>2, <2>3, <2>b DEF TopicTypes, OtherPages, Call
  <2>5. PageInv(d)'
    BY <1>5, <2>1, <2>2, <2>3, <2>a, <2>b DEF c, TopicTypes, PageInv, ToShow, View, Call, T!Idle, T!Switch
  <2>6. \A s \in Senders : SenderInv(s)'
    BY <2>2, <2>4, SendersStay DEF TopicTypes
  <2> QED
    BY <2>4, <2>5, <2>6, OthersFollow DEF TopicInv
<1>6. ASSUME NEW d \in Pages, T!Look(d)
      PROVE  TopicInv'
  <2>1. call[d] \in Call /\ view[d] \in View /\ PageInv(d) /\ TopicTypes
    BY DEF TopicInv, TopicTypes
  <2> DEFINE c == [kind |-> call[d].kind, step |-> "update", read |-> topic, on |-> call[d].on]
  <2>a. call[d].kind = "rotate" /\ topic # 0
    BY <1>6, <2>1 DEF T!Look, PageInv, View, TopicTypes
  <2>2. /\ call' = [call EXCEPT ![d] = c] /\ c \in Call
        /\ UNCHANGED <<topic, enabled, used, view, sending, behind>>
    <3>1. [call[d] EXCEPT !.step = "update", !.read = topic] = c
      BY <2>1, CallRead
    <3>2. c \in Call
      BY <2>1 DEF Call, TopicTypes
    <3> HIDE DEF c
    <3> QED
      BY <1>6, <2>1, <2>a, <3>1, <3>2 DEF T!Look, TopicTypes
  <2> HIDE DEF c
  <2>3. call' \in [Pages -> Call] /\ call'[d] = c /\ \A e \in Pages \ {d} : call'[e] = call[e]
    BY <2>1, <2>2, PutCall
  <2>4. TopicTypes' /\ topic <= topic' /\ OtherPages(d)
    BY <1>6, <2>1, <2>2, <2>3 DEF TopicTypes, OtherPages, T!Look
  <2>5. PageInv(d)'
    BY <1>6, <2>1, <2>2, <2>3 DEF c, TopicTypes, PageInv, ToShow, View, Call, T!Idle, T!Look
  <2>6. \A s \in Senders : SenderInv(s)'
    BY <2>2, <2>4, SendersStay DEF TopicTypes
  <2> QED
    BY <2>4, <2>5, <2>6, OthersFollow DEF TopicInv
<1>7. ASSUME NEW d \in Pages, T!Winner(d)
      PROVE  TopicInv'
  <2>1. call[d] \in Call /\ view[d] \in View /\ PageInv(d) /\ TopicTypes
    BY DEF TopicInv, TopicTypes
  <2> DEFINE c == [kind |-> call[d].kind, step |-> "answer", read |-> topic, on |-> enabled]
  <2>2. /\ call' = [call EXCEPT ![d] = c] /\ c \in Call
        /\ UNCHANGED <<topic, enabled, used, view, sending>>
    BY <1>7, <2>1, Replies DEF T!Winner, TopicTypes, Call
  <2> HIDE DEF c
  <2>3. call' \in [Pages -> Call] /\ call'[d] = c /\ \A e \in Pages \ {d} : call'[e] = call[e]
    BY <2>1, <2>2, PutCall
  <2>4. TopicTypes' /\ topic <= topic' /\ OtherPages(d)
    BY <1>7, <2>1, <2>2, <2>3 DEF TopicTypes, OtherPages, T!Winner
  <2>5. PageInv(d)'
    BY <1>7, <2>1, <2>2, <2>3 DEF c, TopicTypes, PageInv, ToShow, View, Call, T!Idle, T!Winner
  <2>6. \A s \in Senders : SenderInv(s)'
    BY <2>2, <2>4, SendersStay DEF TopicTypes
  <2> QED
    BY <2>4, <2>5, <2>6, OthersFollow DEF TopicInv
<1>8. ASSUME NEW d \in Pages, T!Fails(d)
      PROVE  TopicInv'
  <2>1. call[d] \in Call /\ view[d] \in View /\ PageInv(d) /\ TopicTypes
    BY DEF TopicInv, TopicTypes
  <2> DEFINE c == [kind |-> call[d].kind, step |-> "refused", read |-> call[d].read, on |-> call[d].on]
  <2>2. /\ call' = [call EXCEPT ![d] = c] /\ c \in Call
        /\ UNCHANGED <<topic, enabled, used, view, sending>>
    BY <1>8, <2>1, CallStep DEF T!Fails, T!Refuse, Call
  <2> HIDE DEF c
  <2>3. call' \in [Pages -> Call] /\ call'[d] = c /\ \A e \in Pages \ {d} : call'[e] = call[e]
    BY <2>1, <2>2, PutCall
  <2>4. TopicTypes' /\ topic <= topic' /\ OtherPages(d)
    BY <1>8, <2>1, <2>2, <2>3 DEF TopicTypes, OtherPages, T!Fails
  <2>5. PageInv(d)'
    BY <1>8, <2>1, <2>2, <2>3 DEF c, TopicTypes, PageInv, ToShow, View, Call, T!Idle, T!Fails
  <2>6. \A s \in Senders : SenderInv(s)'
    BY <2>2, <2>4, SendersStay DEF TopicTypes
  <2> QED
    BY <2>4, <2>5, <2>6, OthersFollow DEF TopicInv
<1>9. ASSUME NEW d \in Pages, T!Answered(d)
      PROVE  TopicInv'
  <2>1. call[d] \in Call /\ view[d] \in View /\ PageInv(d) /\ TopicTypes
    BY DEF TopicInv, TopicTypes
  <2> DEFINE c == T!Idle
  <2>2. /\ call' = [call EXCEPT ![d] = c] /\ c \in Call
        /\ UNCHANGED <<topic, enabled, used, sending, behind>>
    BY <1>9, <2>1, CallStep DEF T!Answered, T!Idle, Call
  <2> HIDE DEF c
  <2>3. call' \in [Pages -> Call] /\ call'[d] = c /\ \A e \in Pages \ {d} : call'[e] = call[e]
    BY <2>1, <2>2, PutCall
  <2> DEFINE v == [state |-> "shown",
                   topic |-> IF call[d].kind = "toggle" THEN view[d].topic
                             ELSE call[d].read,
                   on |-> IF call[d].kind = "rotate" THEN view[d].on ELSE call[d].on]
  <2>v. view' = [view EXCEPT ![d] = v] /\ v \in View
    BY <1>9, <2>1 DEF T!Answered, View, Call
  <2> HIDE DEF v
  <2>w. view' \in [Pages -> View] /\ view'[d] = v /\ \A e \in Pages \ {d} : view'[e] = view[e]
    BY <2>1, <2>v, PutView
  <2>4. TopicTypes' /\ topic <= topic' /\ OtherPages(d)
    BY <2>1, <2>2, <2>3, <2>w DEF TopicTypes, OtherPages
  <2>5. PageInv(d)'
    BY <1>9, <2>1, <2>2, <2>3, <2>w DEF c, v, TopicTypes, PageInv, ToShow, View, Call, T!Idle, T!Answered
  <2>6. \A s \in Senders : SenderInv(s)'
    BY <2>2, <2>4, SendersStay DEF TopicTypes
  <2> QED
    BY <2>4, <2>5, <2>6, OthersFollow DEF TopicInv
<1>10. ASSUME NEW d \in Pages, T!Unanswered(d)
      PROVE  TopicInv'
  <2>1. call[d] \in Call /\ view[d] \in View /\ PageInv(d) /\ TopicTypes
    BY DEF TopicInv, TopicTypes
  <2> DEFINE c == T!Idle
  <2>2. /\ call' = [call EXCEPT ![d] = c] /\ c \in Call
        /\ UNCHANGED <<topic, enabled, used, sending>>
    BY <1>10, <2>1, CallStep DEF T!Unanswered, T!Idle, Call
  <2> HIDE DEF c
  <2>3. call' \in [Pages -> Call] /\ call'[d] = c /\ \A e \in Pages \ {d} : call'[e] = call[e]
    BY <2>1, <2>2, PutCall
  <2> DEFINE v == [state |-> IF call[d].kind = "load" THEN "hidden" ELSE view[d].state,
                   topic |-> view[d].topic, on |-> view[d].on]
  <2>v. view' = [view EXCEPT ![d] = v] /\ v \in View
    <3>1. [view[d] EXCEPT !.state = IF call[d].kind = "load" THEN "hidden" ELSE @] = v
      BY <2>1 DEF View
    <3>2. v \in View
      BY <2>1 DEF View
    <3> HIDE DEF v
    <3> QED
      BY <1>10, <2>1, <3>1, <3>2 DEF T!Unanswered, TopicTypes
  <2> HIDE DEF v
  <2>w. view' \in [Pages -> View] /\ view'[d] = v /\ \A e \in Pages \ {d} : view'[e] = view[e]
    BY <2>1, <2>v, PutView
  <2> DEFINE m == IF call[d].step = "answer" THEN {"topic", "on"} ELSE behind[d]
  <2>m. behind' = [behind EXCEPT ![d] = m] /\ m \in SUBSET {"topic", "on"}
    BY <1>10, <2>1 DEF T!Unanswered, TopicTypes
  <2> HIDE DEF m
  <2>n. /\ behind' \in [Pages -> SUBSET {"topic", "on"}] /\ behind'[d] = m
        /\ \A e \in Pages \ {d} : behind'[e] = behind[e]
    BY <2>1, <2>m, PutBehind
  <2>4. TopicTypes' /\ topic <= topic' /\ OtherPages(d)
    BY <2>1, <2>2, <2>3, <2>w, <2>n DEF TopicTypes, OtherPages
  <2>5. PageInv(d)'
    BY <1>10, <2>1, <2>2, <2>3, <2>w, <2>n DEF c, v, m, TopicTypes, PageInv, ToShow, View, Call, T!Idle, T!Unanswered
  <2>6. \A s \in Senders : SenderInv(s)'
    BY <2>2, <2>4, SendersStay DEF TopicTypes
  <2> QED
    BY <2>4, <2>5, <2>6, OthersFollow DEF TopicInv
<1>11. ASSUME NEW d \in Pages, T!Replace(d), topic = call[d].read
      PROVE  TopicInv'
  <2>1. call[d] \in Call /\ view[d] \in View /\ PageInv(d) /\ TopicTypes
    BY DEF TopicInv, TopicTypes
  <2> DEFINE c == [kind |-> call[d].kind, step |-> "answer", read |-> used + 1, on |-> enabled]
  <2>2. /\ call' = [call EXCEPT ![d] = c] /\ c \in Call
        /\ topic' = topic + 1 /\ used' = used + 1 /\ UNCHANGED <<enabled, view>>
        /\ T!Retired
    BY <1>11, <2>1, Replies DEF T!Replace, T!Generated, TopicTypes, Call
  <2> HIDE DEF c
  <2>3. call' \in [Pages -> Call] /\ call'[d] = c /\ \A e \in Pages \ {d} : call'[e] = call[e]
    BY <2>1, <2>2, PutCall
  <2>4. TopicTypes' /\ topic <= topic' /\ OtherPages(d)
    <3>1. /\ behind' \in [Pages -> SUBSET {"topic", "on"}]
          /\ \A e \in Pages \ {d} : behind'[e] = behind[e] \cup {"topic"}
      BY <1>11, <2>1 DEF TopicTypes, T!Replace
    <3>2. sending' \in [Senders -> [topic : Nat, old : BOOLEAN]]
      BY <2>1, <2>2, SendersRetire
    <3> QED
      BY <2>1, <2>2, <2>3, <3>1, <3>2 DEF TopicTypes, OtherPages
  <2>5. PageInv(d)'
    BY <1>11, <2>1, <2>2, <2>3 DEF c, TopicTypes, PageInv, ToShow, View, Call, T!Idle, T!Replace
  <2>6. \A s \in Senders : SenderInv(s)'
    BY <2>1, <2>2, SendersRetire DEF TopicInv
  <2> QED
    BY <2>4, <2>5, <2>6, OthersFollow DEF TopicInv
<1>12. ASSUME NEW d \in Pages, T!Replace(d), topic # call[d].read
      PROVE  TopicInv'
  <2>1. call[d] \in Call /\ view[d] \in View /\ PageInv(d) /\ TopicTypes
    BY DEF TopicInv, TopicTypes
  <2> DEFINE c == [kind |-> call[d].kind, step |-> "again", read |-> call[d].read, on |-> call[d].on]
  <2>2. /\ call' = [call EXCEPT ![d] = c] /\ c \in Call
        /\ UNCHANGED <<topic, enabled, used, view, sending, behind>>
    BY <1>12, <2>1, CallStep DEF T!Replace, Call
  <2> HIDE DEF c
  <2>3. call' \in [Pages -> Call] /\ call'[d] = c /\ \A e \in Pages \ {d} : call'[e] = call[e]
    BY <2>1, <2>2, PutCall
  <2>4. TopicTypes' /\ topic <= topic' /\ OtherPages(d)
    BY <1>12, <2>1, <2>2, <2>3 DEF TopicTypes, OtherPages, T!Replace
  <2>5. PageInv(d)'
    BY <1>12, <2>1, <2>2, <2>3 DEF c, TopicTypes, PageInv, ToShow, View, Call, T!Idle, T!Replace
  <2>6. \A s \in Senders : SenderInv(s)'
    BY <2>2, <2>4, SendersStay DEF TopicTypes
  <2> QED
    BY <2>4, <2>5, <2>6, OthersFollow DEF TopicInv
<1>13. ASSUME NEW s \in Senders, T!Fetch(s) \/ T!Publish(s)
      PROVE  TopicInv'
  <2>1. UNCHANGED <<topic, enabled, used, view, call, behind>>
    BY <1>13 DEF T!Fetch, T!Publish
  <2>2. TopicTypes' /\ \A t \in Senders : SenderInv(t)'
    <3>1. PICK r \in [topic : Nat, old : BOOLEAN] :
            /\ sending' = [sending EXCEPT ![s] = r] /\ (r.topic = topic \/ r.topic = 0)
      <4>1. /\ [topic |-> 0, old |-> FALSE] \in [topic : Nat, old : BOOLEAN]
            /\ [topic |-> topic, old |-> FALSE] \in [topic : Nat, old : BOOLEAN]
        BY DEF TopicInv, TopicTypes
      <4> QED
        BY <1>13, <4>1 DEF T!Fetch, T!Publish
    <3>2. /\ sending' \in [Senders -> [topic : Nat, old : BOOLEAN]] /\ sending'[s] = r
          /\ \A t \in Senders : t # s => sending'[t] = sending[t]
      BY <3>1 DEF TopicInv, TopicTypes
    <3>3. \A t \in Senders : SenderInv(t)'
      BY <2>1, <3>1, <3>2 DEF TopicInv, TopicTypes, SenderInv
    <3> QED
      BY <2>1, <3>2, <3>3 DEF TopicInv, TopicTypes
  <2>3. \A d \in Pages : PageInv(d)'
    BY <2>1 DEF TopicInv, PageInv, ToShow, T!Idle
  <2> QED
    BY <2>2, <2>3 DEF TopicInv
<1>14. CASE UNCHANGED T!ntfyVars
  BY <1>14 DEF TopicInv, TopicTypes, PageInv, ToShow, SenderInv, T!Idle, T!ntfyVars
<1> QED
  BY <1>1, <1>2, <1>3, <1>4, <1>5, <1>6, <1>7, <1>8, <1>9, <1>10, <1>11, <1>12, <1>13, <1>14 DEF T!Next

-----------------------------------------------------------------------------
(* The fan-out.                                                            *)

\* What is so now: who is a member, is awake, is willing.
AreNow == F!Are(members, quiet, mentions, clock)

FanOutTypes ==
  /\ clock \in F!Times
  /\ members \subseteq People /\ mentions \subseteq People
  /\ quiet \in [People -> (F!Times \X F!Times) \cup {F!Off}]
  /\ send \in [step : {"members", "quiet", "types", "deliver", "end"},
               kind : {"none", "channel", "user", "test"}, ids : SUBSET People,
               mentioned : SUBSET People, out : SUBSET People, to : SUBSET People]
  /\ ever \in [F!Aspects -> SUBSET People] /\ always \in [F!Aspects -> SUBSET People]

\* What is so now was so once, and what always was so is so now.
Meanwhile ==
  \A a \in F!Aspects : always[a] \subseteq AreNow[a] /\ AreNow[a] \subseteq ever[a]

\* Where a send is: what is left to it has passed the reads behind it.
Left ==
  /\ send.step \in {"members", "quiet", "types"} => send.out = {}
  /\ send.kind # "channel" => send.mentioned = {}
  /\ send.kind = "none" => send.step = "end"
  /\ send.step \in {"members", "types"} => send.kind = "channel"
  /\ send.kind = "test" => send.step \in {"deliver", "end"}
  /\ send.step \in {"members", "end"} => send.ids = {}
  /\ \A u \in send.ids :
       /\ u \in send.to
       /\ send.kind = "channel" => u \in ever["member"]
       /\ send.kind # "test" /\ send.step \in {"types", "deliver"} =>
            u \in ever["awake"] \/ "quiet" \in lost
       /\ send.step = "deliver" /\ u \in send.mentioned /\ u \notin send.out =>
            u \in ever["willing"] \/ "types" \in lost

\* Who is entitled to it is still left, or has got it.
OnTheWay ==
  \A u \in People :
    F!Entitled(u, always, [r \in {"quiet", "types"} |-> FALSE]) =>
      /\ send.step \in {"quiet", "types"} => u \in send.ids
      /\ send.step = "deliver" => u \in pushed \/ (u \in send.ids /\ F!ShouldPush(u))
      /\ send.step = "end" /\ send.kind # "none" => u \in pushed \/ "members" \in lost

FanOutInv == FanOutTypes /\ Meanwhile /\ Left /\ F!OnlyEntitled /\ OnTheWay

LEMMA FanOutInit ==
  ASSUME F!Init, Day \in Nat \ {0}
  PROVE  FanOutInv
<1>1. FanOutTypes
  BY DEF F!Init, FanOutTypes, F!Times, F!NoSend, F!Aspects
<1>2. AreNow = [a \in F!Aspects |-> People]
  BY DEF F!Init, AreNow, F!Are, F!Off, F!Aspects
<1> QED
  BY <1>1, <1>2
  DEF F!Init, FanOutInv, Meanwhile, Left, OnTheWay, F!OnlyEntitled, F!NoSend, F!Aspects

LEMMA Entitlement == FanOutInv => F!PushesEntitled
  BY DEF FanOutInv, OnTheWay, F!PushesEntitled, F!AllEntitled

-----------------------------------------------------------------------------
\* Going round the day from one time, another one comes after so many steps.
After(s, t) == IF s <= t THEN t - s ELSE t - s + Day

LEMMA RoundTheDay ==
  ASSUME Day \in Nat \ {0}, NEW s \in F!Times, NEW t \in F!Times, NEW j \in F!Times
  PROVE  /\ After(s, t) \in F!Times
         /\ (s + j) % Day = t <=> j = After(s, t)
<1>1. (s + j) % Day = IF s + j < Day THEN s + j ELSE s + j - Day
  BY DEF F!Times
<1> QED
  BY <1>1 DEF F!Times, After

\* isInQuietHours is what was asked for: from the start on, as long as the end
\* has not come.
LEMMA QuietAsAsked ==
  ASSUME Day \in Nat \ {0}, NEW q \in F!Times \X F!Times, NEW t \in F!Times
  PROVE  F!InQuietHours(q, t) <=> t \in F!Asked(q)
<1>1. q[1] \in F!Times /\ q[2] \in F!Times /\ q # F!Off
  BY DEF F!Off
<1> DEFINE d == After(q[1], t)
           e == After(q[1], q[2])
<1>2. d \in F!Times /\ e \in F!Times
  BY <1>1, RoundTheDay
<1>3. F!InQuietHours(q, t) <=> d < e
  BY <1>1 DEF F!InQuietHours, After, F!Times
<1>4. \A j \in F!Times : /\ (q[1] + j) % Day = t <=> j = d
                         /\ (q[1] + j) % Day = q[2] <=> j = e
  BY <1>1, RoundTheDay
<1> HIDE DEF d, e
<1>5. ASSUME d < e
      PROVE  t \in F!Asked(q)
  <2>1. \A i \in 0 .. d : i \in F!Times /\ i # e
    BY <1>2, <1>5 DEF F!Times
  <2>2. \A i \in 0 .. d : (q[1] + i) % Day # q[2]
    BY <1>4, <2>1
  <2>3. (q[1] + d) % Day = t /\ (q[1] + d) % Day # q[2]
    BY <1>2, <1>4, <1>5 DEF F!Times
  <2> QED
    BY <1>2, <2>2, <2>3 DEF F!Asked
<1>6. ASSUME t \in F!Asked(q)
      PROVE  d < e
  <2>1. PICK j \in F!Times : /\ t = (q[1] + j) % Day
                             /\ \A i \in 0 .. j : (q[1] + i) % Day # q[2]
    BY <1>6 DEF F!Asked
  <2>2. j = d
    BY <1>4, <2>1
  <2>3. e \notin 0 .. d
    BY <1>2, <1>4, <2>1, <2>2
  <2> QED
    BY <1>2, <2>3 DEF F!Times
<1> QED
  BY <1>3, <1>5, <1>6

-----------------------------------------------------------------------------
\* Who is a member, awake and willing.
LEMMA AreThese ==
  ASSUME NEW ms \in SUBSET People, NEW qs, NEW ws \in SUBSET People, NEW at
  PROVE  LET is == F!Are(ms, qs, ws, at)
         IN  /\ is \in [F!Aspects -> SUBSET People]
             /\ is["member"] = ms /\ is["willing"] = ws
             /\ is["awake"] = {u \in People : qs[u] = F!Off \/ at \notin F!Asked(qs[u])}
  BY DEF F!Are, F!Aspects

LEMMA AreSo ==
  /\ AreNow["member"] = members /\ AreNow["willing"] = mentions
  /\ AreNow["awake"] =
       {u \in People : quiet[u] = F!Off \/ clock \notin F!Asked(quiet[u])}
  BY DEF AreNow, F!Are, F!Aspects

\* The send stays: whoever was entitled once still was, and who always was
\* has been until now.
LEMMA TimePasses ==
  ASSUME FanOutInv, NEW ms \in SUBSET People,
         NEW qs \in [People -> (F!Times \X F!Times) \cup {F!Off}],
         NEW ws \in SUBSET People, NEW at \in F!Times, F!Pass(ms, qs, ws, at)
  PROVE  FanOutInv'
<1> DEFINE is == F!Are(ms, qs, ws, at)
<1>1. is \in [F!Aspects -> SUBSET People] /\ AreNow' = is
  BY AreThese DEF F!Pass, AreNow
<1> HIDE DEF is
<1>2. /\ members' = ms /\ quiet' = qs /\ mentions' = ws /\ clock' = at
      /\ ever' = [a \in F!Aspects |-> ever[a] \cup is[a]]
      /\ always' = [a \in F!Aspects |-> always[a] \cap is[a]]
      /\ UNCHANGED <<send, pushed, lost>>
  BY DEF F!Pass, is
<1>3. FanOutTypes'
  BY <1>1, <1>2 DEF FanOutInv, FanOutTypes
<1>4. \A a \in F!Aspects : ever[a] \subseteq ever'[a] /\ always'[a] \subseteq always[a]
  BY <1>2
<1>5. Meanwhile'
  BY <1>1, <1>2 DEF Meanwhile
<1>6. "member" \in F!Aspects /\ "awake" \in F!Aspects /\ "willing" \in F!Aspects
  BY DEF F!Aspects
<1>7. Left'
  BY <1>2, <1>4, <1>6 DEF FanOutInv, Left
<1>8. F!OnlyEntitled'
  BY <1>2, <1>4, <1>6 DEF FanOutInv, F!OnlyEntitled, F!Entitled
<1>9. OnTheWay'
  <2>1. \A u \in People :
          F!Entitled(u, always, [r \in {"quiet", "types"} |-> FALSE])'
            => F!Entitled(u, always, [r \in {"quiet", "types"} |-> FALSE])
    BY <1>2, <1>4, <1>6 DEF F!Entitled
  <2>2. \A u : F!ShouldPush(u)' = F!ShouldPush(u)
    BY <1>2 DEF F!ShouldPush
  <2> QED
    BY <1>2, <2>1, <2>2 DEF FanOutInv, OnTheWay
<1> QED
  BY <1>3, <1>5, <1>7, <1>8, <1>9 DEF FanOutInv

\* What a send is, and how one is put together.
SendType == [step : {"members", "quiet", "types", "deliver", "end"},
             kind : {"none", "channel", "user", "test"}, ids : SUBSET People,
             mentioned : SUBSET People, out : SUBSET People, to : SUBSET People]

LEMMA SendToMany ==
  ASSUME NEW u, NEW ms, F!ToChannel(u, ms)
  PROVE  F!Begin([step |-> "members", kind |-> "channel", ids |-> {},
                  mentioned |-> ms, out |-> {}, to |-> People \ {u}])
<1> DEFINE c == F!NoSend
           e == [c EXCEPT !.step = "members", !.kind = "channel", !.mentioned = ms, !.to = People \ {u}]
<1>1. F!Begin(e)
  BY DEF F!ToChannel
<1>2. c \in SendType /\ c.ids = {} /\ c.mentioned = {} /\ c.out = {}
  BY DEF F!NoSend, SendType
<1> HIDE DEF c
<1>3. e = [x \in {"step", "kind", "ids", "mentioned", "out", "to"} |-> e[x]]
  BY <1>2 DEF SendType
<1>4. /\ e.step = "members" /\ e.kind = "channel" /\ e.ids = {}
      /\ e.mentioned = ms /\ e.out = {} /\ e.to = People \ {u}
  BY <1>2 DEF SendType
<1> HIDE DEF e
<1>5. e = [step |-> "members", kind |-> "channel", ids |-> {},
           mentioned |-> ms, out |-> {}, to |-> People \ {u}]
  BY <1>3, <1>4
<1> QED
  BY <1>1, <1>5

LEMMA SendToOne ==
  ASSUME NEW u, F!ToUser(u)
  PROVE  F!Begin([step |-> "quiet", kind |-> "user", ids |-> {u},
                  mentioned |-> {}, out |-> {}, to |-> {u}])
<1> DEFINE c == F!NoSend
           e == [c EXCEPT !.step = "quiet", !.kind = "user", !.ids = {u}, !.to = {u}]
<1>1. F!Begin(e)
  BY DEF F!ToUser
<1>2. c \in SendType /\ c.ids = {} /\ c.mentioned = {} /\ c.out = {}
  BY DEF F!NoSend, SendType
<1> HIDE DEF c
<1>3. e = [x \in {"step", "kind", "ids", "mentioned", "out", "to"} |-> e[x]]
  BY <1>2 DEF SendType
<1>4. /\ e.step = "quiet" /\ e.kind = "user" /\ e.ids = {u}
      /\ e.mentioned = {} /\ e.out = {} /\ e.to = {u}
  BY <1>2 DEF SendType
<1> HIDE DEF e
<1>5. e = [step |-> "quiet", kind |-> "user", ids |-> {u},
           mentioned |-> {}, out |-> {}, to |-> {u}]
  BY <1>3, <1>4
<1> QED
  BY <1>1, <1>5

LEMMA SendToSelf ==
  ASSUME NEW u, F!ToSelf(u)
  PROVE  F!Begin([step |-> "deliver", kind |-> "test", ids |-> {u},
                  mentioned |-> {}, out |-> {}, to |-> {u}])
<1> DEFINE c == F!NoSend
           e == [c EXCEPT !.step = "deliver", !.kind = "test", !.ids = {u}, !.to = {u}]
<1>1. F!Begin(e)
  BY DEF F!ToSelf
<1>2. c \in SendType /\ c.ids = {} /\ c.mentioned = {} /\ c.out = {}
  BY DEF F!NoSend, SendType
<1> HIDE DEF c
<1>3. e = [x \in {"step", "kind", "ids", "mentioned", "out", "to"} |-> e[x]]
  BY <1>2 DEF SendType
<1>4. /\ e.step = "deliver" /\ e.kind = "test" /\ e.ids = {u}
      /\ e.mentioned = {} /\ e.out = {} /\ e.to = {u}
  BY <1>2 DEF SendType
<1> HIDE DEF e
<1>5. e = [step |-> "deliver", kind |-> "test", ids |-> {u},
           mentioned |-> {}, out |-> {}, to |-> {u}]
  BY <1>3, <1>4
<1> QED
  BY <1>1, <1>5

\* A new send: nothing of it is left to be asked.
LEMMA SendBegins ==
  ASSUME FanOutInv, NEW s, F!Begin(s), s.out = {},
         s \in [step : {"members", "quiet", "deliver"},
                kind : {"channel", "user", "test"}, ids : SUBSET People,
                mentioned : SUBSET People, out : SUBSET People, to : SUBSET People],
         \/ s.kind = "channel" /\ s.step = "members" /\ s.ids = {}
         \/ /\ s.mentioned = {} /\ s.ids = s.to
            /\ \/ s.kind = "user" /\ s.step = "quiet"
               \/ s.kind = "test" /\ s.step = "deliver"
  PROVE  FanOutInv'
<1>1. /\ send' = s /\ pushed' = {} /\ lost' = {} /\ ever' = AreNow /\ always' = AreNow
      /\ UNCHANGED <<clock, members, quiet, mentions>>
  BY DEF F!Begin, F!state, AreNow
<1>2. AreNow' = AreNow
  BY <1>1 DEF AreNow
<1>3. AreNow \in [F!Aspects -> SUBSET People]
  BY AreThese DEF FanOutInv, FanOutTypes, AreNow
<1>4. FanOutTypes'
  BY <1>1, <1>3 DEF FanOutInv, FanOutTypes
<1>5. Meanwhile'
  BY <1>1, <1>2 DEF Meanwhile
<1>6. Left'
  BY <1>1 DEF Left
<1>7. OnTheWay'
  BY <1>1 DEF OnTheWay, F!Entitled, F!ShouldPush
<1> QED
  BY <1>1, <1>4, <1>5, <1>6, <1>7 DEF FanOutInv, F!OnlyEntitled

\* A send goes on: to the same users, with the same mentions.
Goes(st, is, opted) ==
  send' = [step |-> st, kind |-> send.kind, ids |-> is, mentioned |-> send.mentioned,
           out |-> opted, to |-> send.to]

LEMMA SendSteps ==
  ASSUME send \in SendType, NEW st, NEW is, NEW opted
  PROVE  /\ send' = [send EXCEPT !.step = st] => Goes(st, send.ids, send.out)
         /\ send' = [send EXCEPT !.ids = is] => Goes(send.step, is, send.out)
         /\ send' = [send EXCEPT !.step = st, !.ids = is] => Goes(st, is, send.out)
         /\ send' = [send EXCEPT !.step = st, !.out = opted] => Goes(st, send.ids, opted)
<1> DEFINE one == [send EXCEPT !.step = st]
<1>1. one = [step |-> st, kind |-> send.kind, ids |-> send.ids,
             mentioned |-> send.mentioned, out |-> send.out, to |-> send.to]
  BY DEF SendType
<1>2. /\ [send EXCEPT !.step = st, !.ids = is] = [one EXCEPT !.ids = is]
      /\ [send EXCEPT !.step = st, !.out = opted] = [one EXCEPT !.out = opted]
  OBVIOUS
<1>3. [send EXCEPT !.ids = is] =
        [step |-> send.step, kind |-> send.kind, ids |-> is,
         mentioned |-> send.mentioned, out |-> send.out, to |-> send.to]
  BY DEF SendType
<1> HIDE DEF one
<1>4. [one EXCEPT !.ids = is] =
        [step |-> st, kind |-> send.kind, ids |-> is,
         mentioned |-> send.mentioned, out |-> send.out, to |-> send.to]
  BY <1>1
<1>5. [one EXCEPT !.out = opted] =
        [step |-> st, kind |-> send.kind, ids |-> send.ids,
         mentioned |-> send.mentioned, out |-> opted, to |-> send.to]
  BY <1>1
<1> QED
  BY <1>1, <1>2, <1>3, <1>4, <1>5 DEF Goes, one

\* It has read something, or has not, and goes on with who is left.
LEMMA SendGoesOn ==
  ASSUME FanOutInv, NEW st \in {"quiet", "types", "deliver", "end"},
         NEW is \in SUBSET People, NEW opted \in SUBSET People, Goes(st, is, opted),
         lost \subseteq lost', UNCHANGED <<clock, members, quiet, mentions, pushed, ever, always>>,
         Left', OnTheWay'
  PROVE  FanOutInv'
<1>1. FanOutTypes'
  BY DEF FanOutInv, FanOutTypes, Goes
<1>2. Meanwhile'
  BY DEF FanOutInv, Meanwhile, AreNow
<1>3. F!OnlyEntitled'
  BY DEF FanOutInv, F!OnlyEntitled, F!Entitled, Goes
<1> QED
  BY <1>1, <1>2, <1>3 DEF FanOutInv

LEMMA ReadsMembers ==
  ASSUME FanOutInv, F!ReadMembers
  PROVE  FanOutInv'
<1>1. /\ send \in SendType /\ send.step = "members" /\ send.kind = "channel"
      /\ send.out = {} /\ send.ids = {}
      /\ UNCHANGED <<clock, members, quiet, mentions, pushed, ever, always>>
  BY DEF FanOutInv, FanOutTypes, Left, SendType, F!ReadMembers, F!state, F!sendHistory
<1>2. AreNow["member"] = members /\ "member" \in F!Aspects /\ members \in SUBSET People
  BY AreSo DEF FanOutInv, FanOutTypes, F!Aspects
<1>3. always["member"] \subseteq members /\ members \subseteq ever["member"]
  BY <1>2 DEF FanOutInv, Meanwhile
<1>4. CASE /\ send' = [send EXCEPT !.step = "quiet", !.ids = members \cap send.to]
           /\ lost' = lost
  <2>1. Goes("quiet", members \cap send.to, send.out)
    BY <1>1, <1>4, SendSteps
  <2>2. Left'
    BY <1>1, <1>3, <1>4, <2>1 DEF FanOutInv, Left, Goes
  <2>3. OnTheWay'
    BY <1>1, <1>3, <2>1 DEF OnTheWay, F!Entitled, Goes
  <2> QED
    BY <1>1, <1>2, <1>4, <2>1, <2>2, <2>3, SendGoesOn DEF SendType
<1>5. CASE send' = [send EXCEPT !.step = "end"] /\ lost' = lost \cup {"members"}
  <2>1. Goes("end", send.ids, send.out)
    BY <1>1, <1>5, SendSteps
  <2>2. Left'
    BY <1>1, <1>5, <2>1 DEF FanOutInv, Left, Goes
  <2>3. OnTheWay'
    BY <1>1, <1>5, <2>1 DEF OnTheWay, Goes
  <2> QED
    BY <1>1, <1>5, <2>1, <2>2, <2>3, SendGoesOn DEF SendType
<1> QED
  BY <1>4, <1>5 DEF F!ReadMembers

LEMMA ReadsQuiet ==
  ASSUME FanOutInv, Day \in Nat \ {0}, F!ReadQuiet
  PROVE  FanOutInv'
<1>1. /\ send \in SendType /\ send.step = "quiet" /\ send.kind \in {"channel", "user"}
      /\ send.out = {}
      /\ UNCHANGED <<clock, members, quiet, mentions, pushed, ever, always>>
  BY DEF FanOutInv, FanOutTypes, Left, SendType, F!ReadQuiet, F!state, F!sendHistory
<1> DEFINE st == F!AfterQuiet
<1>2. /\ st \in {"types", "deliver"}
      /\ st = "types" <=> send.kind = "channel"
  BY DEF F!AfterQuiet
<1>3. \A u \in People : u \in AreNow["awake"] <=> ~F!InQuietHours(quiet[u], clock)
  <2> TAKE u \in People
  <2>1. u \in AreNow["awake"] <=> quiet[u] = F!Off \/ clock \notin F!Asked(quiet[u])
    BY AreSo
  <2>2. quiet[u] = F!Off \/ quiet[u] \in F!Times \X F!Times
    BY DEF FanOutInv, FanOutTypes
  <2>3. clock \in F!Times
    BY DEF FanOutInv, FanOutTypes
  <2>4. quiet[u] = F!Off => ~F!InQuietHours(quiet[u], clock)
    BY DEF F!InQuietHours
  <2>5. quiet[u] \in F!Times \X F!Times =>
          (F!InQuietHours(quiet[u], clock) <=> clock \in F!Asked(quiet[u])) /\ quiet[u] # F!Off
    BY <2>3, QuietAsAsked DEF F!Off
  <2> QED
    BY <2>1, <2>2, <2>4, <2>5
<1>4. always["awake"] \subseteq AreNow["awake"] /\ AreNow["awake"] \subseteq ever["awake"]
  BY DEF FanOutInv, Meanwhile, F!Aspects
<1> HIDE DEF st
<1>5. CASE /\ send' = [send EXCEPT !.step = st,
                                   !.ids = {u \in @ : ~F!InQuietHours(quiet[u], clock)}]
           /\ lost' = lost
  <2> DEFINE is == {u \in send.ids : ~F!InQuietHours(quiet[u], clock)}
  <2>1. is \in SUBSET People /\ is = send.ids \cap AreNow["awake"]
    BY <1>1, <1>3 DEF SendType
  <2>2. send' = [send EXCEPT !.step = st, !.ids = is]
    BY <1>5
  <2> HIDE DEF is
  <2>3. Goes(st, is, send.out)
    BY <1>1, <2>2, SendSteps
  <2>4. Left'
    <3>1. \A u \in is : u \in send.ids /\ u \in ever["awake"]
      BY <1>4, <2>1
    <3>2. /\ send'.step = st /\ send'.kind = send.kind /\ send'.ids = is
          /\ send'.mentioned = send.mentioned /\ send'.out = {} /\ send'.to = send.to
      BY <1>1, <2>3 DEF Goes
    <3>3. Left
      BY DEF FanOutInv
    <3>4. \A u \in is :
            /\ u \in send.to
            /\ send.kind = "channel" => u \in ever["member"]
      BY <3>1, <3>3 DEF Left
    <3>5. st = "deliver" => send.mentioned = {}
      BY <1>1, <1>2, <3>3 DEF Left
    <3> QED
      BY <1>1, <1>2, <1>5, <3>1, <3>2, <3>4, <3>5, <3>3 DEF Left
  <2>5. OnTheWay'
    <3> SUFFICES ASSUME NEW u \in People,
                        F!Entitled(u, always, [r \in {"quiet", "types"} |-> FALSE])'
                 PROVE  u \in is /\ F!ShouldPush(u)'
      BY <1>1, <1>2, <2>3 DEF OnTheWay, Goes
    <3>1. F!Entitled(u, always, [r \in {"quiet", "types"} |-> FALSE])
      BY <1>1, <2>3 DEF F!Entitled, Goes
    <3>2. u \in send.ids
      BY <1>1, <3>1 DEF FanOutInv, OnTheWay
    <3>3. u \in always["awake"]
      BY <1>1, <3>1 DEF F!Entitled
    <3>4. send'.out = {}
      BY <1>1, <2>3 DEF Goes
    <3> QED
      BY <1>4, <2>1, <3>2, <3>3, <3>4 DEF F!ShouldPush
  <2> QED
    BY <1>1, <1>2, <1>5, <2>1, <2>3, <2>4, <2>5, SendGoesOn
<1>6. CASE send' = [send EXCEPT !.step = st] /\ lost' = lost \cup {"quiet"}
  <2>1. Goes(st, send.ids, send.out)
    BY <1>1, <1>6, SendSteps
  <2>2. Left'
    BY <1>1, <1>2, <1>6, <2>1 DEF FanOutInv, Left, Goes
  <2>3. OnTheWay'
    BY <1>1, <1>2, <2>1 DEF FanOutInv, OnTheWay, Goes, F!Entitled, F!ShouldPush
  <2> QED
    BY <1>1, <1>2, <1>6, <2>1, <2>2, <2>3, SendGoesOn DEF SendType
<1> QED
  BY <1>5, <1>6 DEF F!ReadQuiet, st

LEMMA ReadsTypes ==
  ASSUME FanOutInv, F!ReadTypes
  PROVE  FanOutInv'
<1>1. /\ send \in SendType /\ send.step = "types" /\ send.kind = "channel"
      /\ send.out = {}
      /\ UNCHANGED <<clock, members, quiet, mentions, pushed, ever, always>>
  BY DEF FanOutInv, FanOutTypes, Left, SendType, F!ReadTypes, F!state, F!sendHistory
<1>2. AreNow["willing"] = mentions /\ "willing" \in F!Aspects
  BY AreSo DEF FanOutInv, FanOutTypes, F!Aspects
<1>3. always["willing"] \subseteq mentions /\ mentions \subseteq ever["willing"]
  BY <1>2 DEF FanOutInv, Meanwhile
<1>4. CASE send' = [send EXCEPT !.step = "deliver", !.out = send.ids \ mentions] /\ lost' = lost
  <2>1. Goes("deliver", send.ids, send.ids \ mentions)
    BY <1>1, <1>4, SendSteps
  <2>2. Left'
    BY <1>1, <1>3, <1>4, <2>1 DEF FanOutInv, Left, Goes
  <2>3. OnTheWay'
    BY <1>1, <1>3, <2>1 DEF FanOutInv, OnTheWay, F!Entitled, Goes, F!ShouldPush
  <2> QED
    BY <1>1, <1>4, <2>1, <2>2, <2>3, SendGoesOn DEF SendType
<1>5. CASE send' = [send EXCEPT !.step = "deliver"] /\ lost' = lost \cup {"types"}
  <2>1. Goes("deliver", send.ids, send.out)
    BY <1>1, <1>5, SendSteps
  <2>2. Left'
    BY <1>1, <1>5, <2>1 DEF FanOutInv, Left, Goes
  <2>3. OnTheWay'
    BY <1>1, <2>1 DEF FanOutInv, OnTheWay, Goes, F!Entitled, F!ShouldPush
  <2> QED
    BY <1>1, <1>5, <2>1, <2>2, <2>3, SendGoesOn DEF SendType
<1> QED
  BY <1>4, <1>5 DEF F!ReadTypes

LEMMA Delivers ==
  ASSUME FanOutInv, NEW u \in People, F!Deliver(u)
  PROVE  FanOutInv'
<1>1. /\ send \in SendType /\ send.step = "deliver" /\ u \in send.ids
      /\ send' = [send EXCEPT !.ids = send.ids \ {u}]
      /\ pushed' = IF F!ShouldPush(u) THEN pushed \cup {u} ELSE pushed
      /\ UNCHANGED <<clock, members, quiet, mentions, lost, ever, always>>
  BY DEF FanOutInv, FanOutTypes, SendType, F!Deliver, F!state
<1>2. Goes("deliver", send.ids \ {u}, send.out)
  BY <1>1, SendSteps
<1>3. FanOutTypes'
  BY <1>1, <1>2 DEF FanOutInv, FanOutTypes, Goes, SendType
<1>4. Meanwhile'
  BY <1>1 DEF FanOutInv, Meanwhile, AreNow
<1>5. Left'
  BY <1>1, <1>2 DEF FanOutInv, Left, Goes
<1>6. F!OnlyEntitled'
  <2>1. F!ShouldPush(u) => F!Entitled(u, ever, [r \in {"quiet", "types"} |-> r \in lost])
    BY <1>1 DEF FanOutInv, Left, F!Entitled, F!ShouldPush
  <2>2. \A v \in pushed' : F!Entitled(v, ever, [r \in {"quiet", "types"} |-> r \in lost])
    BY <1>1, <2>1 DEF FanOutInv, F!OnlyEntitled
  <2> QED
    BY <1>1, <1>2, <2>2 DEF F!OnlyEntitled, F!Entitled, Goes
<1>7. OnTheWay'
  BY <1>1, <1>2 DEF FanOutInv, OnTheWay, F!Entitled, F!ShouldPush, Goes
<1> QED
  BY <1>3, <1>4, <1>5, <1>6, <1>7 DEF FanOutInv

LEMMA FanOutStep ==
  ASSUME FanOutInv, Day \in Nat \ {0}, [F!Next]_(F!fanoutVars)
  PROVE  FanOutInv'
<1>0. FanOutTypes
  BY DEF FanOutInv
<1>1. CASE F!Tick
  <2>1. (clock + 1) % Day \in F!Times
    BY <1>0 DEF FanOutTypes, F!Times
  <2> QED
    BY <1>0, <1>1, <2>1, TimePasses DEF F!Tick, FanOutTypes
<1>2. ASSUME NEW u \in People, F!JoinOrLeave(u) \/ F!SetMentions(u)
      PROVE  FanOutInv'
  BY <1>0, <1>2, TimePasses DEF F!JoinOrLeave, F!SetMentions, FanOutTypes
<1>3. ASSUME NEW u \in People, NEW q \in (F!Times \X F!Times) \cup {F!Off}, F!SetQuiet(u, q)
      PROVE  FanOutInv'
  <2>1. [quiet EXCEPT ![u] = q] \in [People -> (F!Times \X F!Times) \cup {F!Off}]
    BY <1>0 DEF FanOutTypes
  <2> QED
    BY <1>0, <1>3, <2>1, TimePasses DEF F!SetQuiet, FanOutTypes
<1>4. ASSUME NEW u \in People, NEW ms \in SUBSET People, F!ToChannel(u, ms)
      PROVE  FanOutInv'
  <2> DEFINE s == [step |-> "members", kind |-> "channel", ids |-> {}, mentioned |-> ms,
                   out |-> {}, to |-> People \ {u}]
  <2>1. F!Begin(s)
    BY <1>4, SendToMany
  <2> QED
    BY <2>1, SendBegins
<1>5. ASSUME NEW u \in People, F!ToUser(u)
      PROVE  FanOutInv'
  <2> DEFINE s == [step |-> "quiet", kind |-> "user", ids |-> {u}, mentioned |-> {},
                   out |-> {}, to |-> {u}]
  <2>1. F!Begin(s)
    BY <1>5, SendToOne
  <2> QED
    BY <2>1, SendBegins
<1>6. ASSUME NEW u \in People, F!ToSelf(u)
      PROVE  FanOutInv'
  <2> DEFINE s == [step |-> "deliver", kind |-> "test", ids |-> {u}, mentioned |-> {},
                   out |-> {}, to |-> {u}]
  <2>1. F!Begin(s)
    BY <1>6, SendToSelf
  <2> QED
    BY <2>1, SendBegins
<1>7. CASE F!Sent
  <2>1. /\ send \in SendType /\ send.step = "deliver" /\ send.ids = {}
        /\ send' = [send EXCEPT !.step = "end"]
        /\ UNCHANGED <<clock, members, quiet, mentions, lost, pushed, ever, always>>
    BY <1>0, <1>7 DEF FanOutTypes, SendType, F!Sent, F!state, F!sendHistory
  <2>2. Goes("end", send.ids, send.out)
    BY <2>1, SendSteps
  <2>3. Left'
    BY <2>1, <2>2 DEF FanOutInv, Left, Goes
  <2>4. OnTheWay'
    BY <2>1, <2>2 DEF FanOutInv, OnTheWay, Goes, F!Entitled
  <2> QED
    BY <2>1, <2>2, <2>3, <2>4, SendGoesOn DEF SendType
<1>8. CASE UNCHANGED F!fanoutVars
  BY <1>8 DEF F!fanoutVars, FanOutInv, FanOutTypes, Meanwhile, AreNow, Left, OnTheWay,
     F!OnlyEntitled, F!Entitled, F!ShouldPush
<1> QED
  BY <1>1, <1>2, <1>3, <1>4, <1>5, <1>6, <1>7, <1>8, ReadsMembers, ReadsQuiet, ReadsTypes,
     Delivers DEF F!Next

-----------------------------------------------------------------------------
(* The notification preferences.                                           *)

PageSettings == [P!Keys -> BOOLEAN]
Save == [page : Pages, vals : PageSettings, old : SUBSET P!Keys,
         st : {"sent", "stored", "failed"}]

PreferenceTypes ==
  /\ stored \in PageSettings /\ wanted \in PageSettings
  /\ opened \in [Pages -> {"closed", "loading", "open"}]
  /\ shown \in [Pages -> PageSettings]
  /\ putting \in Seq(Save)
  /\ touched \in [Pages -> SUBSET P!Keys] /\ lacks \in [Pages -> SUBSET P!Keys]
  /\ clicked \in [P!Keys -> 0 .. Len(putting)] /\ lastPut \in 0 .. Len(putting)

\* What is stored is what the request stored last had.
StoredLast ==
  /\ lastPut = 0 => stored = P!Defaults
  /\ lastPut # 0 => stored = putting[lastPut].vals

\* A request since the last choice of a setting carries it, or had not seen it.
Carried ==
  \A k \in P!Keys :
    /\ clicked[k] = 0 => wanted[k] = FALSE
    /\ \A n \in 1 .. Len(putting) : clicked[k] <= n => k \in putting[n].old \/ putting[n].vals[k] = wanted[k]

\* A page shows the last choice but for what it does not know or has not sent.
PageKnows ==
  \A d \in Pages :
    /\ opened[d] # "open" => touched[d] = {}
    /\ opened[d] = "open" =>
         \A k \in P!Keys \ (lacks[d] \cup touched[d]) : shown[d][k] = wanted[k]

PreferenceInv == PreferenceTypes /\ StoredLast /\ Carried /\ PageKnows

LEMMA PreferenceInit ==
  ASSUME P!Init
  PROVE  PreferenceInv
<1>1. P!Defaults \in PageSettings /\ \A k \in P!Keys : P!Defaults[k] = FALSE
  BY DEF P!Defaults, PageSettings
<1>2. putting = <<>> /\ putting \in Seq(Save) /\ Len(putting) = 0
  BY DEF P!Init
<1>3. PreferenceTypes
  BY <1>1, <1>2 DEF P!Init, PreferenceTypes
<1>4. StoredLast /\ Carried /\ PageKnows
  BY <1>1, <1>2 DEF P!Init, StoredLast, Carried, PageKnows
<1> QED
  BY <1>3, <1>4 DEF PreferenceInv

\* The choices are in the row, or one of the reasons why they are not applies.
LEMMA PreferencesReached == PreferenceInv => P!PreferencesKept
<1> SUFFICES ASSUME PreferenceInv
             PROVE  P!ChoicesKept /\ P!PageHonest
  BY DEF P!PreferencesKept
<1>1. ASSUME NEW k \in P!Keys, ~P!Excused(k)
      PROVE  stored[k] = wanted[k]
  <2>1. clicked[k] \in 0 .. Len(putting) /\ lastPut \in 0 .. Len(putting) /\ Len(putting) \in Nat
    BY DEF PreferenceInv, PreferenceTypes
  <2>2. clicked[k] <= lastPut
    BY <1>1, <2>1 DEF P!Excused
  <2>3. CASE lastPut = 0
    <3>1. clicked[k] = 0
      BY <2>1, <2>2, <2>3
    <3> QED
      BY <2>3, <3>1 DEF PreferenceInv, StoredLast, Carried, P!Defaults
  <2>4. CASE lastPut # 0
    <3>1. k \notin putting[lastPut].old
      BY <1>1, <2>1, <2>4 DEF P!Excused
    <3> QED
      BY <2>1, <2>2, <2>4, <3>1 DEF PreferenceInv, StoredLast, Carried
  <2> QED
    BY <2>3, <2>4
<1>2. P!ChoicesKept
  BY <1>1 DEF P!ChoicesKept
<1>3. P!PageHonest
  BY <1>1 DEF P!PageHonest, PreferenceInv, PageKnows
<1> QED
  BY <1>2, <1>3

\* A page that sends its settings: what it has touched is among its choices.
LEMMA PersistStep ==
  ASSUME PreferenceInv, NEW d \in Pages, NEW next \in PageSettings,
         NEW keys \in SUBSET P!Keys, P!Persist(d, next, keys),
         opened[d] = "open", touched[d] \subseteq keys,
         \A k \in P!Keys \ keys : next[k] = shown[d][k],
         shown' = [shown EXCEPT ![d] = next],
         UNCHANGED <<stored, opened, lastPut>>
  PROVE  PreferenceInv'
<1> DEFINE x == [page |-> d, vals |-> next, old |-> lacks[d] \ keys, st |-> "sent"]
<1>1. /\ putting' = Append(putting, x)
      /\ touched' = [touched EXCEPT ![d] = {}]
      /\ wanted' = [k \in P!Keys |-> IF k \in keys THEN next[k] ELSE wanted[k]]
      /\ clicked' = [k \in P!Keys |-> IF k \in keys THEN Len(putting) + 1 ELSE clicked[k]]
      /\ lacks' = [e \in Pages |-> IF e = d THEN lacks[d] \ keys ELSE lacks[e] \cup keys]
  BY DEF P!Persist
<1>2. x \in Save /\ x.vals = next /\ x.old = lacks[d] \ keys
  BY DEF PreferenceInv, PreferenceTypes, Save
<1> HIDE DEF x
<1>3. /\ putting' \in Seq(Save) /\ Len(putting) \in Nat /\ Len(putting') = Len(putting) + 1
      /\ putting'[Len(putting) + 1] = x /\ \A n \in 1 .. Len(putting) : putting'[n] = putting[n]
  BY <1>1, <1>2 DEF PreferenceInv, PreferenceTypes
<1>4. PreferenceTypes'
  <2>1. wanted' \in PageSettings
    BY <1>1 DEF PreferenceInv, PreferenceTypes, PageSettings
  <2>2. shown' \in [Pages -> PageSettings]
    BY DEF PreferenceInv, PreferenceTypes
  <2>3. touched' \in [Pages -> SUBSET P!Keys] /\ lacks' \in [Pages -> SUBSET P!Keys]
    BY <1>1 DEF PreferenceInv, PreferenceTypes
  <2>4. clicked' \in [P!Keys -> 0 .. Len(putting')] /\ lastPut' \in 0 .. Len(putting')
    BY <1>1, <1>3 DEF PreferenceInv, PreferenceTypes
  <2> QED
    BY <1>3, <2>1, <2>2, <2>3, <2>4 DEF PreferenceInv, PreferenceTypes
<1>5. StoredLast'
  BY <1>3 DEF PreferenceInv, PreferenceTypes, StoredLast
<1>6. \A k \in P!Keys : next[k] = wanted'[k] \/ k \in lacks[d] \ keys
  <2> TAKE k \in P!Keys
  <2>1. CASE k \in keys
    BY <1>1, <2>1
  <2>2. CASE k \notin keys
    BY <1>1, <2>2 DEF PreferenceInv, PageKnows
  <2> QED
    BY <2>1, <2>2
<1>7. Carried'
  <2> SUFFICES ASSUME NEW k \in P!Keys
               PROVE  /\ clicked'[k] = 0 => wanted'[k] = FALSE
                      /\ \A n \in 1 .. Len(putting') : clicked'[k] <= n =>
                           k \in putting'[n].old \/ putting'[n].vals[k] = wanted'[k]
    BY DEF Carried
  <2>1. CASE k \in keys
    <3>1. clicked'[k] = Len(putting) + 1
      BY <1>1, <2>1
    <3> QED
      BY <1>2, <1>3, <1>6, <3>1
  <2>2. CASE k \notin keys
    <3>1. clicked'[k] = clicked[k] /\ wanted'[k] = wanted[k]
      BY <1>1, <2>2
    <3>2. \A n \in 1 .. Len(putting) : clicked'[k] <= n =>
            k \in putting'[n].old \/ putting'[n].vals[k] = wanted'[k]
      BY <1>3, <3>1 DEF PreferenceInv, Carried
    <3>3. k \in putting'[Len(putting) + 1].old \/ putting'[Len(putting) + 1].vals[k] = wanted'[k]
      BY <1>2, <1>3, <1>6
    <3>4. \A n \in 1 .. Len(putting') : n \in 1 .. Len(putting) \/ n = Len(putting) + 1
      BY <1>3
    <3> QED
      BY <3>1, <3>2, <3>3, <3>4 DEF PreferenceInv, Carried
  <2> QED
    BY <2>1, <2>2
<1>8. PageKnows'
  <2> SUFFICES ASSUME NEW e \in Pages
               PROVE  /\ opened[e] # "open" => touched'[e] = {}
                      /\ opened[e] = "open" =>
                           \A k \in P!Keys \ (lacks'[e] \cup touched'[e]) : shown'[e][k] = wanted'[k]
    BY DEF PageKnows
  <2>1. CASE e = d
    <3>1. touched'[d] = {} /\ lacks'[d] = lacks[d] \ keys /\ shown'[d] = next
      BY <1>1 DEF PreferenceInv, PreferenceTypes
    <3> QED
      BY <1>6, <2>1, <3>1
  <2>2. CASE e # d
    <3>1. touched'[e] = touched[e] /\ lacks'[e] = lacks[e] \cup keys /\ shown'[e] = shown[e]
      BY <1>1, <2>2 DEF PreferenceInv, PreferenceTypes
    <3> QED
      BY <1>1, <3>1 DEF PreferenceInv, PageKnows
  <2> QED
    BY <2>1, <2>2
<1> QED
  BY <1>4, <1>5, <1>7, <1>8 DEF PreferenceInv

LEMMA ChooseStep ==
  ASSUME PreferenceInv, NEW d \in Pages, NEW k \in P!Keys, opened[d] = "open", P!Choose(d, k)
  PROVE  PreferenceInv'
<1> DEFINE next == [shown[d] EXCEPT ![k] = ~@]
<1>1. shown[d] \in PageSettings
  BY DEF PreferenceInv, PreferenceTypes
<1>2. next \in PageSettings /\ \A j \in P!Keys : j # k => next[j] = shown[d][j]
  BY <1>1 DEF PageSettings
<1>3. /\ P!Persist(d, next, touched[d] \cup {k}) /\ shown' = [shown EXCEPT ![d] = next]
      /\ UNCHANGED <<stored, opened, lastPut>>
  BY DEF P!Choose
<1> HIDE DEF next
<1>4. touched[d] \cup {k} \in SUBSET P!Keys /\ touched[d] \subseteq touched[d] \cup {k}
  BY DEF PreferenceInv, PreferenceTypes
<1>5. \A j \in P!Keys \ (touched[d] \cup {k}) : next[j] = shown[d][j]
  BY <1>2
<1> QED
  BY <1>2, <1>3, <1>4, <1>5, PersistStep

LEMMA MuteStep ==
  ASSUME PreferenceInv, NEW d \in Pages, P!MuteAll(d)
  PROVE  PreferenceInv'
<1> DEFINE next == [k \in P!Keys |-> IF k \in Switches THEN FALSE ELSE shown[d][k]]
<1>1. shown[d] \in PageSettings
  BY DEF PreferenceInv, PreferenceTypes
<1>2. next \in PageSettings /\ \A j \in P!Keys \ Switches : next[j] = shown[d][j]
  BY <1>1 DEF PageSettings
<1>3. /\ P!Persist(d, next, touched[d] \cup Switches) /\ shown' = [shown EXCEPT ![d] = next]
      /\ opened[d] = "open" /\ UNCHANGED <<stored, opened, lastPut>>
  BY DEF P!MuteAll
<1> HIDE DEF next
<1>4. touched[d] \cup Switches \in SUBSET P!Keys
  BY DEF PreferenceInv, PreferenceTypes, P!Keys
<1>5. \A j \in P!Keys \ (touched[d] \cup Switches) : next[j] = shown[d][j]
  BY <1>2
<1> QED
  BY <1>2, <1>3, <1>4, <1>5, PersistStep

LEMMA ButtonStep ==
  ASSUME PreferenceInv, NEW d \in Pages, P!SaveButton(d)
  PROVE  PreferenceInv'
<1>1. /\ P!Persist(d, shown[d], touched[d]) /\ opened[d] = "open"
      /\ UNCHANGED <<stored, opened, shown, lastPut>>
  BY DEF P!SaveButton
<1>2. shown[d] \in PageSettings /\ touched[d] \in SUBSET P!Keys
  BY DEF PreferenceInv, PreferenceTypes
<1>3. shown' = [shown EXCEPT ![d] = shown[d]]
  BY <1>1 DEF PreferenceInv, PreferenceTypes
<1> QED
  BY <1>1, <1>2, <1>3, PersistStep

\* What one page does by itself.
LEMMA PageStep ==
  ASSUME PreferenceInv, NEW d \in Pages,
         NEW o \in {"closed", "loading", "open"}, NEW s \in PageSettings,
         NEW t \in SUBSET P!Keys, NEW b \in SUBSET P!Keys,
         opened' = [opened EXCEPT ![d] = o], shown' = [shown EXCEPT ![d] = s],
         touched' = [touched EXCEPT ![d] = t], lacks' = [lacks EXCEPT ![d] = b],
         UNCHANGED <<stored, putting, wanted, clicked, lastPut>>,
         o # "open" => t = {},
         o = "open" => \A k \in P!Keys \ (b \cup t) : s[k] = wanted[k]
  PROVE  PreferenceInv'
<1>1. /\ opened'[d] = o /\ shown'[d] = s /\ touched'[d] = t /\ lacks'[d] = b
      /\ \A e \in Pages : e # d =>
           opened'[e] = opened[e] /\ shown'[e] = shown[e] /\ touched'[e] = touched[e]
             /\ lacks'[e] = lacks[e]
  BY DEF PreferenceInv, PreferenceTypes
<1>2. PreferenceTypes'
  BY DEF PreferenceInv, PreferenceTypes
<1>3. StoredLast' /\ Carried'
  BY DEF PreferenceInv, StoredLast, Carried
<1>4. PageKnows'
  BY <1>1 DEF PreferenceInv, PageKnows
<1> QED
  BY <1>2, <1>3, <1>4 DEF PreferenceInv

LEMMA LoadStep ==
  ASSUME PreferenceInv, NEW d \in Pages, NEW ok \in BOOLEAN, P!Loaded(d, ok)
  PROVE  PreferenceInv'
<1> DEFINE s == IF ok THEN stored ELSE P!Defaults
           b == {k \in P!Keys : s[k] # wanted[k]}
<1>1. s \in PageSettings /\ b \in SUBSET P!Keys
  BY DEF PreferenceInv, PreferenceTypes, P!Defaults, PageSettings
<1>2. /\ opened[d] = "loading" /\ opened' = [opened EXCEPT ![d] = "open"]
      /\ shown' = [shown EXCEPT ![d] = s]
      /\ lacks' = [lacks EXCEPT ![d] = {k \in P!Keys : shown'[d][k] # wanted[k]}]
      /\ UNCHANGED <<stored, putting, touched, wanted, clicked, lastPut>>
  BY DEF P!Loaded
<1>3. \A k \in P!Keys \ b : s[k] = wanted[k]
  OBVIOUS
<1> HIDE DEF s
<1>4. shown'[d] = s
  BY <1>2 DEF PreferenceInv, PreferenceTypes
<1>5. {k \in P!Keys : shown'[d][k] # wanted[k]} = b
  BY <1>4
<1>6. lacks' = [lacks EXCEPT ![d] = b]
  BY <1>2, <1>5
<1> HIDE DEF b
<1>7. touched[d] = {} /\ touched' = [touched EXCEPT ![d] = {}]
  BY <1>2 DEF PreferenceInv, PreferenceTypes, PageKnows
<1> QED
  BY <1>1, <1>2, <1>3, <1>6, <1>7, PageStep

LEMMA VisitStep ==
  ASSUME PreferenceInv, NEW d \in Pages, P!Open(d) \/ P!Close(d)
  PROVE  PreferenceInv'
<1>1. P!Defaults \in PageSettings /\ shown[d] \in PageSettings
      /\ touched[d] \in SUBSET P!Keys /\ lacks[d] \in SUBSET P!Keys
  BY DEF PreferenceInv, PreferenceTypes, P!Defaults, PageSettings
<1>2. CASE P!Open(d)
  <2>1. /\ opened[d] = "closed" /\ opened' = [opened EXCEPT ![d] = "loading"]
        /\ UNCHANGED <<stored, shown, putting, touched, wanted, clicked, lacks, lastPut>>
    BY <1>2 DEF P!Open
  <2>2. /\ shown' = [shown EXCEPT ![d] = shown[d]] /\ lacks' = [lacks EXCEPT ![d] = lacks[d]]
        /\ touched' = [touched EXCEPT ![d] = touched[d]] /\ touched[d] = {}
    BY <2>1 DEF PreferenceInv, PreferenceTypes, PageKnows
  <2> QED
    BY <1>1, <2>1, <2>2, PageStep
<1>3. CASE P!Close(d)
  <2>1. /\ opened' = [opened EXCEPT ![d] = "closed"] /\ shown' = [shown EXCEPT ![d] = P!Defaults]
        /\ touched' = [touched EXCEPT ![d] = {}] /\ lacks' = [lacks EXCEPT ![d] = {}]
        /\ UNCHANGED <<stored, putting, wanted, clicked, lastPut>>
    BY <1>3 DEF P!Close
  <2>2. {} \in SUBSET P!Keys
    OBVIOUS
  <2> QED
    BY <1>1, <2>1, <2>2, PageStep
<1> QED
  BY <1>2, <1>3

LEMMA SlideStep ==
  ASSUME PreferenceInv, NEW d \in Pages, NEW k, P!Slide(d, k)
  PROVE  PreferenceInv'
<1> DEFINE s == [shown[d] EXCEPT ![k] = ~@]
           t == touched[d] \cup {k}
<1>1. /\ k \in Pickers /\ opened[d] = "open" /\ shown' = [shown EXCEPT ![d] = s]
      /\ touched' = [touched EXCEPT ![d] = t]
      /\ UNCHANGED <<stored, opened, putting, wanted, clicked, lacks, lastPut>>
  BY DEF P!Slide
<1>2. shown[d] \in PageSettings /\ k \in P!Keys /\ lacks[d] \in SUBSET P!Keys
      /\ touched[d] \in SUBSET P!Keys
  BY <1>1 DEF PreferenceInv, PreferenceTypes, P!Keys
<1>3. s \in PageSettings /\ \A j \in P!Keys : j # k => s[j] = shown[d][j]
  BY <1>2 DEF PageSettings
<1> HIDE DEF s
<1>4. \A j \in P!Keys \ (lacks[d] \cup t) : s[j] = wanted[j]
  BY <1>1, <1>3 DEF PreferenceInv, PageKnows
<1>5. t \in SUBSET P!Keys
  BY <1>2
<1> HIDE DEF t
<1>6. lacks' = [lacks EXCEPT ![d] = lacks[d]] /\ opened' = [opened EXCEPT ![d] = "open"]
  BY <1>1 DEF PreferenceInv, PreferenceTypes
<1> QED
  BY <1>1, <1>2, <1>3, <1>4, <1>5, <1>6, PageStep

LEMMA StoreStep ==
  ASSUME PreferenceInv, NEW n \in P!Saves, NEW ok \in BOOLEAN, P!Store(n, ok)
  PROVE  PreferenceInv'
<1> DEFINE st == IF ok THEN "stored" ELSE "failed"
           c == putting[n]
           x == [page |-> c.page, vals |-> c.vals, old |-> c.old, st |-> st]
<1>1. /\ putting' = [putting EXCEPT ![n].st = st]
      /\ stored' = (IF ok THEN putting[n].vals ELSE stored)
      /\ lastPut' = (IF ok THEN n ELSE lastPut)
      /\ UNCHANGED <<opened, shown, touched, wanted, clicked, lacks>>
  BY DEF P!Store
<1>2. Len(putting) \in Nat /\ DOMAIN putting = 1 .. Len(putting) /\ n \in 1 .. Len(putting) /\ c \in Save
  BY DEF PreferenceInv, PreferenceTypes, P!Saves
<1>3. st \in {"sent", "stored", "failed"}
  OBVIOUS
<1> HIDE DEF st
<1>4. [c EXCEPT !.st = st] = x /\ x \in Save
  BY <1>2, <1>3 DEF Save
<1>5. putting' = [putting EXCEPT ![n] = x]
  BY <1>1, <1>4
<1>6. x.vals = c.vals /\ x.old = c.old
  OBVIOUS
<1> HIDE DEF x
<1>7. putting' \in Seq(Save) /\ Len(putting') = Len(putting)
  BY <1>2, <1>4, <1>5 DEF PreferenceInv, PreferenceTypes
<1>8. \A m \in 1 .. Len(putting) : putting'[m].vals = putting[m].vals /\ putting'[m].old = putting[m].old
  BY <1>2, <1>5, <1>6
<1>9. c.vals \in PageSettings
  BY <1>2 DEF Save
<1>10. PreferenceTypes'
  BY <1>1, <1>2, <1>7, <1>9 DEF PreferenceInv, PreferenceTypes
<1>11. StoredLast'
  BY <1>1, <1>2, <1>8 DEF PreferenceInv, PreferenceTypes, StoredLast
<1>12. Carried' /\ PageKnows'
  BY <1>1, <1>7, <1>8 DEF PreferenceInv, Carried, PageKnows
<1> QED
  BY <1>10, <1>11, <1>12 DEF PreferenceInv

LEMMA PreferenceStep ==
  ASSUME PreferenceInv, [P!Next]_(P!prefVars)
  PROVE  PreferenceInv'
<1>1. ASSUME NEW d \in Pages, NEW k \in P!Keys, P!Toggle(d, k) \/ P!PickValue(d, k)
      PROVE  PreferenceInv'
  <2>1. opened[d] = "open" /\ P!Choose(d, k)
    BY <1>1 DEF P!Toggle, P!PickValue
  <2> QED
    BY <2>1, ChooseStep
<1>2. ASSUME NEW d \in Pages, \/ P!Open(d) \/ P!Close(d) \/ P!MuteAll(d) \/ P!SaveButton(d)
                              \/ \E ok \in BOOLEAN : P!Loaded(d, ok)
                              \/ \E k : P!Slide(d, k)
      PROVE  PreferenceInv'
  BY <1>2, VisitStep, MuteStep, ButtonStep, LoadStep, SlideStep
<1>3. ASSUME NEW n \in P!Saves, NEW ok \in BOOLEAN, P!Store(n, ok)
      PROVE  PreferenceInv'
  BY <1>3, StoreStep
<1>4. CASE UNCHANGED (P!prefVars)
  <2>1. UNCHANGED <<stored, opened, shown, saving, putting, touched, wanted, clicked, lacks, lastPut>>
    BY <1>4 DEF P!prefVars
  <2> QED
    BY <2>1 DEF PreferenceInv, PreferenceTypes, StoredLast, Carried, PageKnows
<1> QED
  BY <1>1, <1>2, <1>3, <1>4 DEF P!Next, P!Keys

-----------------------------------------------------------------------------
(* The appearance.                                                         *)

Looks == Values \cup {Default}
Patch == [dev : Devices, val : Looks, old : BOOLEAN, st : {"sent", "stored", "failed"}]

AppearanceTypes ==
  /\ column \in Looks \cup {A!None} /\ liked \in Looks \cup {A!None}
  /\ local \in [Devices -> Looks] /\ synced \in [Devices -> BOOLEAN]
  /\ page \in [Devices -> {"closed", "open", "loading"}]
  /\ given \in [Devices -> Looks \cup {A!None}]
  /\ timer \in [Devices -> Looks \cup {A!None}]
  /\ patch \in Seq(Patch)
  /\ outdated \subseteq Devices /\ dropped \in BOOLEAN
  /\ carriers \subseteq 1 .. Len(patch) /\ lastPatch \in 0 .. Len(patch)

\* A timer runs on an open page that synchronises, with what the device has;
\* whoever synchronises has settings that were chosen so.
Timers ==
  \A d \in Devices :
    /\ timer[d] # A!None => page[d] = "open" /\ synced[d] /\ timer[d] = local[d]
    /\ synced[d] => liked # A!None

\* What the account has is what the request stored last had.
ColumnLast ==
  /\ lastPatch = 0 => \A n \in 1 .. Len(patch) : patch[n].st # "stored"
  /\ lastPatch # 0 => column = patch[lastPatch].val

\* The carriers have the settings chosen last; a request after one of them is
\* another one, or that of a device which did not have them.
CarriersCarry ==
  /\ \A n \in carriers : patch[n].val = liked
  /\ \A n \in 1 .. Len(patch) :
       n \notin carriers /\ ~patch[n].old => \A c \in carriers : n < c

\* What was chosen is under way, or was dropped.
ToSend ==
  liked # A!None /\ carriers = {} /\ ~dropped =>
    \E d \in Devices : d \notin outdated /\ timer[d] # A!None

AppearanceInv ==
  /\ AppearanceTypes /\ Timers /\ ColumnLast /\ CarriersCarry /\ ToSend
  /\ A!DeviceFollows

LEMMA AppearanceInit ==
  ASSUME A!Init
  PROVE  AppearanceInv
<1>1. patch = <<>> /\ patch \in Seq(Patch) /\ Len(patch) = 0
  BY DEF A!Init
<1>4. column = A!None /\ local = [d \in Devices |-> Default]
      /\ timer = [d \in Devices |-> A!None] /\ given = [d \in Devices |-> A!None]
      /\ synced = [d \in Devices |-> FALSE] /\ page = [d \in Devices |-> "closed"]
      /\ liked = A!None /\ outdated = {} /\ carriers = {} /\ dropped = FALSE /\ lastPatch = 0
  BY DEF A!Init
<1>5. local \in [Devices -> Looks] /\ synced \in [Devices -> BOOLEAN]
  BY <1>4 DEF Looks
<1>6. timer \in [Devices -> Looks \cup {A!None}] /\ given \in [Devices -> Looks \cup {A!None}]
  BY <1>4
<1>7. column \in Looks \cup {A!None} /\ liked \in Looks \cup {A!None}
      /\ page \in [Devices -> {"closed", "open", "loading"}]
      /\ outdated \subseteq Devices /\ dropped \in BOOLEAN
  BY <1>4
<1>8. carriers \subseteq 1 .. Len(patch) /\ lastPatch \in 0 .. Len(patch)
  BY <1>1, <1>4
<1>2. AppearanceTypes
  BY <1>1, <1>5, <1>6, <1>7, <1>8 DEF AppearanceTypes
<1>3. Timers /\ ColumnLast /\ CarriersCarry /\ ToSend /\ A!DeviceFollows
  BY <1>1 DEF A!Init, Timers, ColumnLast, CarriersCarry, ToSend, A!DeviceFollows
<1> QED
  BY <1>2, <1>3 DEF AppearanceInv

LEMMA AppearanceReached == AppearanceInv => A!AppearanceKept
<1> SUFFICES ASSUME AppearanceInv, A!Settled, liked # A!None
             PROVE  \/ column = liked
                    \/ carriers = {} /\ dropped
                    \/ carriers # {} /\ A!StoredCarriers = {}
                    \/ A!StoredCarriers # {} /\ lastPatch \notin carriers
                         /\ (patch[lastPatch].old \/ \E n \in A!StoredCarriers : lastPatch < n)
  BY DEF A!AppearanceKept, A!AccountFollows, AppearanceInv
<1>1. CASE carriers = {}
  BY <1>1 DEF AppearanceInv, ToSend, A!Settled
<1>2. CASE A!StoredCarriers # {}
  <2>1. PICK c \in carriers : patch[c].st = "stored" /\ c \in A!StoredCarriers
    BY <1>2 DEF A!StoredCarriers
  <2>2. lastPatch # 0 /\ lastPatch \in 1 .. Len(patch) /\ column = patch[lastPatch].val
    BY <2>1 DEF AppearanceInv, AppearanceTypes, ColumnLast
  <2>3. CASE lastPatch \in carriers
    BY <2>2, <2>3 DEF AppearanceInv, CarriersCarry
  <2>4. CASE lastPatch \notin carriers /\ ~patch[lastPatch].old
    BY <1>2, <2>1, <2>2, <2>4 DEF AppearanceInv, CarriersCarry
  <2> QED
    BY <1>2, <2>3, <2>4
<1> QED
  BY <1>1, <1>2 DEF A!StoredCarriers

\* The settings and the switch of a device are changed by its user.
LEMMA ChosenStep ==
  ASSUME AppearanceInv, NEW d \in Devices, NEW v \in Looks, v # A!None,
         A!Chosen(d, v), page[d] = "open",
         local' = [local EXCEPT ![d] = v], timer' = [timer EXCEPT ![d] = v],
         synced' = [synced EXCEPT ![d] = TRUE],
         UNCHANGED <<column, page, given, patch, lastPatch>>
  PROVE  AppearanceInv'
<1>1. liked' = v /\ outdated' = {e \in Devices : e # d} /\ carriers' = {} /\ dropped' = FALSE
  BY DEF A!Chosen
<1>2. /\ local'[d] = v /\ timer'[d] = v /\ synced'[d] = TRUE
      /\ \A e \in Devices : e # d =>
           local'[e] = local[e] /\ timer'[e] = timer[e] /\ synced'[e] = synced[e]
  BY DEF AppearanceInv, AppearanceTypes
<1>3. AppearanceTypes'
  BY <1>1 DEF AppearanceInv, AppearanceTypes
<1>4. Timers'
  BY <1>1, <1>2 DEF AppearanceInv, Timers, A!None
<1>5. ColumnLast' /\ CarriersCarry'
  BY <1>1 DEF AppearanceInv, ColumnLast, CarriersCarry
<1>6. ToSend' /\ A!DeviceFollows'
  BY <1>1, <1>2 DEF ToSend, A!DeviceFollows, A!None
<1> QED
  BY <1>3, <1>4, <1>5, <1>6 DEF AppearanceInv

\* The devices, and what is sent, so far as the types go.
Screens ==
  /\ local \in [Devices -> Looks] /\ synced \in [Devices -> BOOLEAN]
  /\ page \in [Devices -> {"closed", "open", "loading"}]
  /\ given \in [Devices -> Looks \cup {A!None}]
  /\ timer \in [Devices -> Looks \cup {A!None}]
  /\ outdated \subseteq Devices /\ dropped \in BOOLEAN

\* What a device does that sends nothing and chooses nothing for the others.
LEMMA DeviceGoesOn ==
  ASSUME AppearanceInv, NEW d \in Devices, Screens',
         UNCHANGED <<column, patch, liked, carriers, lastPatch>>,
         dropped => dropped',
         \A e \in Devices : e # d =>
           /\ local'[e] = local[e] /\ timer'[e] = timer[e] /\ synced'[e] = synced[e]
           /\ page'[e] = page[e] /\ (e \in outdated' <=> e \in outdated),
         timer'[d] # A!None => page'[d] = "open" /\ synced'[d] = TRUE /\ timer'[d] = local'[d],
         synced'[d] = TRUE => liked # A!None,
         liked # A!None /\ d \notin outdated' => local'[d] = liked,
         timer[d] # A!None /\ d \notin outdated /\ ~dropped' =>
           timer'[d] # A!None /\ d \notin outdated'
  PROVE  AppearanceInv'
<1>2. AppearanceTypes'
  BY DEF AppearanceInv, AppearanceTypes, Screens
<1>3. Timers'
  <2> SUFFICES ASSUME NEW e \in Devices
               PROVE  /\ timer'[e] # A!None => page'[e] = "open" /\ synced'[e] /\ timer'[e] = local'[e]
                      /\ synced'[e] => liked' # A!None
    BY DEF Timers, A!None
  <2>1. CASE e = d
    BY <2>1 DEF Screens
  <2>2. CASE e # d
    BY <2>2 DEF AppearanceInv, Timers
  <2> QED
    BY <2>1, <2>2
<1>4. ColumnLast' /\ CarriersCarry'
  BY DEF AppearanceInv, ColumnLast, CarriersCarry
<1>5. ToSend'
  <2> SUFFICES ASSUME liked' # A!None, carriers' = {}, ~dropped'
               PROVE  \E e \in Devices : e \notin outdated' /\ timer'[e] # A!None
    BY DEF ToSend, A!None
  <2>1. PICK e \in Devices : e \notin outdated /\ timer[e] # A!None
    BY DEF AppearanceInv, ToSend
  <2>2. e \notin outdated' /\ timer'[e] # A!None
    BY <2>1
  <2> QED
    BY <2>2
<1>6. A!DeviceFollows'
  BY DEF AppearanceInv, A!DeviceFollows, A!None
<1> QED
  BY <1>2, <1>3, <1>4, <1>5, <1>6 DEF AppearanceInv

\* What a device is, spelt out.
LEMMA DeviceHas ==
  ASSUME AppearanceInv, NEW d \in Devices
  PROVE  /\ Screens /\ column \in Looks \cup {A!None}
         /\ local[d] \in Looks /\ synced[d] \in BOOLEAN
         /\ timer[d] # A!None => page[d] = "open" /\ synced[d] = TRUE /\ timer[d] = local[d]
         /\ synced[d] = TRUE => liked # A!None
         /\ liked # A!None /\ d \notin outdated => local[d] = liked
  BY DEF AppearanceInv, AppearanceTypes, Timers, A!DeviceFollows, Screens

LEMMA VisitsPage ==
  ASSUME AppearanceInv, NEW d \in Devices, A!OpenPage(d) \/ A!ClosePage(d) \/ A!Reload(d)
  PROVE  AppearanceInv'
<1>1. CASE A!OpenPage(d)
  <2> DEFINE t == IF synced[d] THEN local[d] ELSE A!None
  <2>1. /\ page[d] = "closed" /\ page' = [page EXCEPT ![d] = "open"]
        /\ timer' = [timer EXCEPT ![d] = t]
        /\ UNCHANGED <<column, local, synced, given, patch, liked, outdated, carriers,
                       dropped, lastPatch>>
    BY <1>1 DEF A!OpenPage, A!Rearm
  <2>2. t \in Looks \cup {A!None} /\ (t # A!None => synced[d] = TRUE /\ t = local[d])
    BY DeviceHas
  <2> HIDE DEF t
  <2>3. timer[d] = A!None /\ Screens
    BY <2>1, DeviceHas
  <2>4. Screens'
    BY <2>1, <2>2, <2>3 DEF Screens
  <2>5. /\ timer'[d] = t /\ page'[d] = "open"
        /\ \A e \in Devices : e # d => timer'[e] = timer[e] /\ page'[e] = page[e]
    BY <2>1, <2>3 DEF Screens
  <2> QED
    BY <2>1, <2>2, <2>3, <2>4, <2>5, DeviceHas, DeviceGoesOn
<1>2. CASE A!ClosePage(d)
  <2>1. /\ page' = [page EXCEPT ![d] = "closed"] /\ timer' = [timer EXCEPT ![d] = A!None]
        /\ dropped' = (dropped \/ (timer[d] # A!None /\ d \notin outdated))
        /\ UNCHANGED <<column, local, synced, given, patch, liked, outdated, carriers,
                       lastPatch>>
    BY <1>2 DEF A!ClosePage
  <2>2. dropped' \in BOOLEAN /\ Screens
    BY <2>1, DeviceHas
  <2>3. Screens'
    BY <2>1, <2>2 DEF Screens
  <2>4. /\ timer'[d] = A!None
        /\ \A e \in Devices : e # d => timer'[e] = timer[e] /\ page'[e] = page[e]
    BY <2>1, <2>2 DEF Screens
  <2> QED
    BY <2>1, <2>2, <2>3, <2>4, DeviceHas, DeviceGoesOn
<1>3. CASE A!Reload(d)
  <2>1. /\ page[d] = "closed" /\ page' = [page EXCEPT ![d] = "loading"]
        /\ given' = [given EXCEPT ![d] = column]
        /\ UNCHANGED <<column, local, synced, timer, patch, liked, outdated, carriers,
                       dropped, lastPatch>>
    BY <1>3 DEF A!Reload
  <2>2. column \in Looks \cup {A!None} /\ timer[d] = A!None /\ Screens
    BY <2>1, DeviceHas
  <2>3. Screens'
    BY <2>1, <2>2 DEF Screens
  <2>4. \A e \in Devices : e # d => page'[e] = page[e]
    BY <2>1, <2>2 DEF Screens
  <2> QED
    BY <2>1, <2>2, <2>3, <2>4, DeviceHas, DeviceGoesOn
<1> QED
  BY <1>1, <1>2, <1>3

LEMMA ChangesLooks ==
  ASSUME AppearanceInv, NEW d \in Devices, NEW v \in Values, v # A!None, A!Change(d, v)
  PROVE  AppearanceInv'
<1>1. /\ page[d] = "open" /\ local' = [local EXCEPT ![d] = v]
      /\ timer' = [timer EXCEPT ![d] = IF synced[d] THEN v ELSE A!None]
      /\ UNCHANGED <<column, synced, page, given, patch, lastPatch>>
  BY DEF A!Change, A!Rearm
<1>2. v \in Looks /\ Screens /\ synced[d] \in BOOLEAN
  BY DeviceHas DEF Looks
<1>3. CASE synced[d] = TRUE
  <2>1. A!Chosen(d, v)
    BY <1>3 DEF A!Change
  <2>2. timer' = [timer EXCEPT ![d] = v]
    BY <1>1, <1>3
  <2>3. synced' = [synced EXCEPT ![d] = TRUE]
    BY <1>1, <1>2, <1>3 DEF Screens
  <2> QED
    BY <1>1, <1>2, <2>1, <2>2, <2>3, ChosenStep
<1>4. CASE synced[d] = FALSE
  <2>1. /\ outdated' = outdated \cup {d} /\ UNCHANGED <<liked, carriers, dropped>>
        /\ timer' = [timer EXCEPT ![d] = A!None]
    BY <1>1, <1>4 DEF A!Change
  <2>2. Screens'
    BY <1>1, <1>2, <2>1 DEF Screens
  <2>3. /\ timer'[d] = A!None /\ timer[d] = A!None
        /\ \A e \in Devices : e # d => timer'[e] = timer[e] /\ local'[e] = local[e]
    BY <1>1, <1>2, <1>4, <2>1, DeviceHas DEF Screens
  <2> QED
    BY <1>1, <1>4, <2>1, <2>2, <2>3, DeviceGoesOn
<1> QED
  BY <1>2, <1>3, <1>4

LEMMA SwitchesSync ==
  ASSUME AppearanceInv, NEW d \in Devices, A!None \notin Looks, A!SetSync(d)
  PROVE  AppearanceInv'
<1>1. /\ page[d] = "open" /\ synced' = [synced EXCEPT ![d] = ~@]
      /\ timer' = [timer EXCEPT ![d] = IF ~synced[d] THEN local[d] ELSE A!None]
      /\ UNCHANGED <<column, local, page, given, patch, lastPatch>>
  BY DEF A!SetSync, A!Rearm
<1>2. Screens /\ synced[d] \in BOOLEAN /\ local[d] \in Looks
  BY DeviceHas
<1>3. CASE synced[d] = TRUE
  <2>1. /\ dropped' = (dropped \/ (timer[d] # A!None /\ d \notin outdated))
        /\ UNCHANGED <<liked, outdated, carriers>>
    BY <1>3 DEF A!SetSync
  <2>2. timer' = [timer EXCEPT ![d] = A!None] /\ synced' = [synced EXCEPT ![d] = FALSE]
    BY <1>1, <1>3
  <2>3. dropped' \in BOOLEAN
    BY <2>1
  <2>4. Screens'
    BY <1>1, <1>2, <2>1, <2>2, <2>3 DEF Screens
  <2>5. /\ timer'[d] = A!None /\ synced'[d] = FALSE
        /\ \A e \in Devices : e # d => timer'[e] = timer[e] /\ synced'[e] = synced[e]
    BY <1>2, <2>2 DEF Screens
  <2> QED
    BY <1>1, <2>1, <2>4, <2>5, DeviceHas, DeviceGoesOn
<1>4. CASE synced[d] = FALSE
  <2>1. A!Chosen(d, local[d])
    BY <1>4 DEF A!SetSync
  <2>2. timer' = [timer EXCEPT ![d] = local[d]] /\ synced' = [synced EXCEPT ![d] = TRUE]
    BY <1>1, <1>4
  <2>3. local' = [local EXCEPT ![d] = local[d]] /\ local[d] # A!None
    BY <1>1, <1>2 DEF Screens
  <2> QED
    BY <1>1, <1>2, <2>1, <2>2, <2>3, ChosenStep
<1> QED
  BY <1>2, <1>3, <1>4

LEMMA ResetsLooks ==
  ASSUME AppearanceInv, NEW d \in Devices, A!ResetDefaults(d)
  PROVE  AppearanceInv'
<1>1. /\ local' = [local EXCEPT ![d] = Default] /\ synced' = [synced EXCEPT ![d] = FALSE]
      /\ timer' = [timer EXCEPT ![d] = A!None]
      /\ dropped' = (dropped \/ (timer[d] # A!None /\ d \notin outdated))
      /\ outdated' = outdated \cup {d}
      /\ UNCHANGED <<column, page, given, patch, liked, carriers, lastPatch>>
  BY DEF A!ResetDefaults
<1>2. Screens /\ Default \in Looks
  BY DeviceHas DEF Looks
<1>3. dropped' \in BOOLEAN
  BY <1>1
<1>4. Screens'
  BY <1>1, <1>2, <1>3 DEF Screens
<1>5. /\ timer'[d] = A!None /\ synced'[d] = FALSE
      /\ \A e \in Devices : e # d =>
           timer'[e] = timer[e] /\ synced'[e] = synced[e] /\ local'[e] = local[e]
  BY <1>1, <1>2 DEF Screens
<1> QED
  BY <1>1, <1>4, <1>5, DeviceGoesOn

\* A device sends what it has.
LEMMA SendStep ==
  ASSUME AppearanceInv, NEW d \in Devices, NEW v \in Looks, v = local[d], liked # A!None,
         A!Send(d, v), timer' \in {timer, [timer EXCEPT ![d] = A!None]},
         UNCHANGED <<column, local, synced, page, given, liked, outdated, dropped, lastPatch>>
  PROVE  AppearanceInv'
<1> DEFINE x == [dev |-> d, val |-> v, old |-> d \in outdated, st |-> "sent"]
<1>1. /\ patch' = Append(patch, x)
      /\ carriers' = IF d \in outdated THEN carriers ELSE carriers \cup {Len(patch) + 1}
  BY DEF A!Send
<1>2. x \in Patch /\ x.val = v /\ x.old = (d \in outdated) /\ x.st = "sent"
  BY DEF Patch
<1> HIDE DEF x
<1>3. /\ patch' \in Seq(Patch) /\ Len(patch) \in Nat /\ Len(patch') = Len(patch) + 1
      /\ patch'[Len(patch) + 1] = x /\ \A n \in 1 .. Len(patch) : patch'[n] = patch[n]
  BY <1>1, <1>2 DEF AppearanceInv, AppearanceTypes
<1>4. /\ timer' \in [Devices -> Looks \cup {A!None}]
      /\ timer'[d] \in {timer[d], A!None}
      /\ \A e \in Devices : e # d => timer'[e] = timer[e]
  BY DEF AppearanceInv, AppearanceTypes
<1>5. carriers' \subseteq 1 .. Len(patch') /\ lastPatch' \in 0 .. Len(patch')
  BY <1>1, <1>3 DEF AppearanceInv, AppearanceTypes
<1>6. AppearanceTypes'
  BY <1>3, <1>4, <1>5 DEF AppearanceInv, AppearanceTypes
<1>7. Timers' /\ A!DeviceFollows'
  BY <1>4 DEF AppearanceInv, Timers, A!DeviceFollows, A!None
<1>8. \A n \in 1 .. Len(patch') : n \in 1 .. Len(patch) \/ n = Len(patch) + 1
  BY <1>3
<1>9. ColumnLast'
  <2>1. ColumnLast /\ lastPatch' = lastPatch /\ column' = column
    BY DEF AppearanceInv
  <2>2. lastPatch \in 1 .. Len(patch) => patch'[lastPatch] = patch[lastPatch]
    BY <1>3
  <2> QED BY <2>1, <2>2, <1>2, <1>3, <1>8 DEF AppearanceInv, AppearanceTypes, ColumnLast
<1>10. d \notin outdated => v = liked
  BY DEF AppearanceInv, A!DeviceFollows
<1>11. CarriersCarry'
  <2>1. CASE d \in outdated
    <3>1. carriers' = carriers /\ x.old = TRUE
      BY <1>1, <1>2, <2>1
    <3>2. \A n \in carriers : n \in 1 .. Len(patch)
      BY DEF AppearanceInv, AppearanceTypes
    <3> QED
      BY <1>3, <1>8, <3>1, <3>2 DEF AppearanceInv, CarriersCarry
  <2>2. CASE d \notin outdated
    <3>1. carriers' = carriers \cup {Len(patch) + 1}
      BY <1>1, <2>2
    <3>2. \A n \in carriers : n \in 1 .. Len(patch)
      BY DEF AppearanceInv, AppearanceTypes
    <3>3. \A n \in carriers' : patch'[n].val = liked'
      BY <1>2, <1>3, <1>10, <2>2, <3>1, <3>2 DEF AppearanceInv, CarriersCarry
    <3>4. ASSUME NEW n \in 1 .. Len(patch'), n \notin carriers', ~patch'[n].old, NEW c \in carriers'
          PROVE  n < c
      <4>1. n \in 1 .. Len(patch) /\ patch'[n] = patch[n] /\ n \notin carriers
        BY <1>3, <1>8, <3>1, <3>4
      <4> QED
        BY <1>3, <3>1, <3>4, <4>1 DEF AppearanceInv, CarriersCarry
    <3> QED
      BY <3>3, <3>4 DEF CarriersCarry
  <2> QED
    BY <2>1, <2>2
<1>12. ToSend'
  <2> SUFFICES ASSUME carriers' = {}, ~dropped
               PROVE  \E e \in Devices : e \notin outdated /\ timer'[e] # A!None
    BY DEF ToSend, A!None
  <2>1. d \in outdated /\ carriers = {}
    BY <1>1
  <2> QED
    BY <1>4, <2>1 DEF AppearanceInv, ToSend
<1> QED
  BY <1>6, <1>7, <1>9, <1>11, <1>12 DEF AppearanceInv

LEMMA SendsLooks ==
  ASSUME AppearanceInv, NEW d \in Devices, A!Fire(d) \/ A!Save(d)
  PROVE  AppearanceInv'
<1>1. CASE A!Fire(d)
  <2>1. /\ timer[d] # A!None /\ A!Send(d, timer[d]) /\ timer' = [timer EXCEPT ![d] = A!None]
        /\ UNCHANGED <<column, local, synced, page, given, liked, outdated, dropped, lastPatch>>
    BY <1>1 DEF A!Fire
  <2>2. timer[d] = local[d] /\ local[d] \in Looks /\ liked # A!None
    BY <2>1, DeviceHas
  <2> QED
    BY <2>1, <2>2, SendStep
<1>2. CASE A!Save(d)
  <2>1. /\ synced[d] /\ A!Send(d, local[d])
        /\ UNCHANGED <<column, local, synced, page, given, timer, liked, outdated, dropped,
                       lastPatch>>
    BY <1>2 DEF A!Save
  <2>2. local[d] \in Looks /\ liked # A!None
    BY <2>1, DeviceHas
  <2> QED
    BY <2>1, <2>2, SendStep
<1> QED
  BY <1>1, <1>2

LEMMA StoresLooks ==
  ASSUME AppearanceInv, NEW n \in DOMAIN patch, NEW ok \in BOOLEAN, A!Store(n, ok)
  PROVE  AppearanceInv'
<1> DEFINE st == IF ok THEN "stored" ELSE "failed"
           c == patch[n]
           x == [dev |-> c.dev, val |-> c.val, old |-> c.old, st |-> st]
<1>1. /\ patch' = [patch EXCEPT ![n].st = st]
      /\ column' = (IF ok THEN patch[n].val ELSE column)
      /\ lastPatch' = (IF ok THEN n ELSE lastPatch)
      /\ UNCHANGED <<local, synced, page, given, timer, liked, outdated, carriers, dropped>>
  BY DEF A!Store
<1>2. Len(patch) \in Nat /\ DOMAIN patch = 1 .. Len(patch) /\ n \in 1 .. Len(patch) /\ c \in Patch
  BY DEF AppearanceInv, AppearanceTypes
<1>3. st \in {"sent", "stored", "failed"} /\ (st = "stored" => ok)
  OBVIOUS
<1> HIDE DEF st
<1>4. [c EXCEPT !.st = st] = x /\ x \in Patch
  BY <1>2, <1>3 DEF Patch
<1>5. patch' = [patch EXCEPT ![n] = x]
  BY <1>1, <1>4
<1>6. x.val = c.val /\ x.old = c.old /\ x.st = st
  OBVIOUS
<1> HIDE DEF x
<1>7. patch' \in Seq(Patch) /\ Len(patch') = Len(patch)
  BY <1>2, <1>4, <1>5 DEF AppearanceInv, AppearanceTypes
<1>8. /\ \A m \in 1 .. Len(patch) : patch'[m].val = patch[m].val /\ patch'[m].old = patch[m].old
      /\ \A m \in 1 .. Len(patch) : m # n => patch'[m].st = patch[m].st
      /\ patch'[n].st = st
  BY <1>2, <1>5, <1>6
<1>9. c.val \in Looks
  BY <1>2 DEF Patch
<1>10. column' \in Looks \cup {A!None} /\ lastPatch' \in 0 .. Len(patch')
  BY <1>1, <1>2, <1>7, <1>9 DEF AppearanceInv, AppearanceTypes
<1>11. AppearanceTypes'
  BY <1>1, <1>7, <1>10 DEF AppearanceInv, AppearanceTypes
<1>12. ColumnLast'
  <2>1. CASE ok = TRUE
    BY <1>1, <1>2, <1>8, <2>1 DEF ColumnLast
  <2>2. CASE ok = FALSE
    <3>1. column' = column /\ lastPatch' = lastPatch /\ st # "stored"
      BY <1>1, <1>3, <2>2
    <3> QED
      BY <1>2, <1>7, <1>8, <3>1 DEF AppearanceInv, AppearanceTypes, ColumnLast
  <2> QED
    BY <2>1, <2>2
<1>13. CarriersCarry'
  BY <1>1, <1>7, <1>8 DEF AppearanceInv, AppearanceTypes, CarriersCarry
<1>14. Timers' /\ ToSend' /\ A!DeviceFollows'
  BY <1>1 DEF AppearanceInv, Timers, ToSend, A!DeviceFollows, A!None
<1> QED
  BY <1>11, <1>12, <1>13, <1>14 DEF AppearanceInv

LEMMA TakesOver ==
  ASSUME AppearanceInv, NEW d \in Devices, A!Hydrate(d)
  PROVE  AppearanceInv'
<1> DEFINE takes == synced[d] /\ given[d] # A!None
<1>1. /\ page[d] = "loading" /\ page' = [page EXCEPT ![d] = "closed"]
      /\ given' = [given EXCEPT ![d] = A!None]
      /\ UNCHANGED <<column, synced, timer, patch, liked, carriers, dropped, lastPatch>>
  BY DEF A!Hydrate
<1>2. /\ local' = (IF takes THEN [local EXCEPT ![d] = given[d]] ELSE local)
      /\ ~takes => outdated' = outdated
      /\ takes => outdated' \in {outdated \ {d}, outdated \cup {d}}
      /\ takes /\ given[d] # liked => d \in outdated'
  <2>1. /\ local' = (IF takes THEN [local EXCEPT ![d] = given[d]] ELSE local)
        /\ outdated' = (CASE ~takes -> outdated
                          [] takes /\ given[d] = liked -> outdated \ {d}
                          [] takes /\ given[d] # liked -> outdated \cup {d})
    BY DEF A!Hydrate
  <2> HIDE DEF takes
  <2>2. CASE ~takes
    BY <2>1, <2>2
  <2>3. CASE takes /\ given[d] = liked
    BY <2>1, <2>3
  <2>4. CASE takes /\ given[d] # liked
    BY <2>1, <2>4
  <2> QED
    BY <2>2, <2>3, <2>4
<1>3. Screens /\ timer[d] = A!None /\ given[d] \in Looks \cup {A!None}
  BY <1>1, DeviceHas DEF Screens
<1>4. outdated' \subseteq Devices /\ \A e \in Devices : e # d => (e \in outdated' <=> e \in outdated)
  BY <1>2, <1>3 DEF Screens
<1>5. local' \in [Devices -> Looks] /\ \A e \in Devices : e # d => local'[e] = local[e]
  BY <1>2, <1>3 DEF Screens
<1>6. Screens' /\ \A e \in Devices : e # d => page'[e] = page[e]
  BY <1>1, <1>3, <1>4, <1>5 DEF Screens
<1>7. takes => local'[d] = given[d]
  BY <1>2, <1>3 DEF Screens
<1>8. liked # A!None /\ d \notin outdated' => local'[d] = liked
  BY <1>2, <1>7, DeviceHas
<1> HIDE DEF takes
<1> QED
  BY <1>1, <1>3, <1>4, <1>5, <1>6, <1>8, DeviceHas, DeviceGoesOn

LEMMA AppearanceStep ==
  ASSUME A!None \notin Values \cup {Default}, AppearanceInv, [A!Next]_(A!appearVars)
  PROVE  AppearanceInv'
<1>1. A!None \notin Looks
  BY DEF Looks
<1>2. ASSUME NEW d \in Devices,
             \/ A!OpenPage(d) \/ A!ClosePage(d) \/ A!SetSync(d) \/ A!ResetDefaults(d)
             \/ A!Fire(d) \/ A!Save(d) \/ A!Reload(d) \/ A!Hydrate(d)
      PROVE  AppearanceInv'
  BY <1>1, <1>2, VisitsPage, SwitchesSync, ResetsLooks, SendsLooks, TakesOver
<1>3. ASSUME NEW d \in Devices, NEW v \in Values, A!Change(d, v)
      PROVE  AppearanceInv'
  BY <1>3, ChangesLooks
<1>4. CASE UNCHANGED (A!appearVars)
  <2>1. UNCHANGED <<column, local, synced, page, given, timer, patch, liked, outdated,
                    carriers, dropped, lastPatch>>
    BY <1>4 DEF A!appearVars
  <2> QED
    BY <2>1 DEF AppearanceInv, AppearanceTypes, Timers, ColumnLast, CarriersCarry, ToSend,
                A!DeviceFollows, A!None
<1> QED
  BY <1>2, <1>3, <1>4, StoresLooks DEF A!Next

-----------------------------------------------------------------------------
(* The caches of the service worker.                                       *)

Accounts == People \cup {O!Nobody}
Fetching == [at : {"none", "out", "put"}, as : Accounts]

CacheTypes ==
  /\ browser \in Accounts /\ net \in BOOLEAN /\ active \in BOOLEAN
  /\ page \in [kind : {"closed", "login", "app"}, of : Accounts, ctrl : BOOLEAN, posted : BOOLEAN]
  /\ shell \in Accounts /\ api \in [of : Accounts, fresh : BOOLEAN]
  /\ fetch \in [Fetches -> Fetching] /\ count \in Fetching
  /\ clears \in BOOLEAN /\ badge \in Accounts /\ post \in Accounts
  /\ via \in BOOLEAN /\ late \in BOOLEAN /\ odd \in BOOLEAN

\* Only an answer that somebody got is put away.
EntriesOwned ==
  /\ api.of = O!Nobody => ~api.fresh
  /\ \A f \in Fetches : fetch[f].at = "put" => fetch[f].as # O!Nobody

\* From the clear that the login page has posted until the account that signs
\* in there is gone: an entry that is left is this account's, or was put away
\* late.
ClearedSince ==
  /\ page.posted => page.kind = "login" /\ browser = O!Nobody
  /\ via \/ page.posted =>
       clears \/ late \/ api = O!NoEntry \/ (api.of = browser /\ browser # O!Nobody)

\* A page that an active worker can hear has a count on its way, or the badge
\* is of its account, or was shown late.
BadgeTold ==
  /\ ~active => badge = O!Nobody /\ post = O!Nobody /\ count = O!NoFetch
  /\ browser # O!Nobody /\ page.of = browser /\ post = O!Nobody =>
       badge \in {browser, O!Nobody} \/ odd

CacheInv == CacheTypes /\ EntriesOwned /\ ClearedSince /\ BadgeTold

LEMMA CacheInit ==
  ASSUME O!Init
  PROVE  CacheInv
BY DEF O!Init, CacheInv, CacheTypes, EntriesOwned, ClearedSince, BadgeTold, Accounts, Fetching,
       O!NoEntry, O!NoFetch, O!Tab

LEMMA CacheReached == CacheInv => O!OfflineOwned
BY DEF CacheInv, CacheTypes, ClearedSince, BadgeTold, O!OfflineOwned, O!CacheOwned,
       O!BadgeOwned, O!NoEntry

\* What the login page and the app of an account leave.
LEMMA Mounting ==
  ASSUME CacheInv, NEW u \in Accounts, NEW ctrl \in BOOLEAN, O!Load(u, ctrl)
  PROVE  \/ /\ page' = [kind |-> "login", of |-> O!Nobody, ctrl |-> ctrl,
                        posted |-> ctrl /\ browser = O!Nobody]
            /\ clears' = (clears \/ ctrl) /\ post' = post
         \/ /\ page' = [kind |-> "app", of |-> u, ctrl |-> ctrl, posted |-> FALSE]
            /\ clears' = clears /\ post' = IF active THEN u ELSE post
            /\ u # O!Nobody
BY DEF O!Load, O!Landing, O!OnLoginPage, O!OnAppPage, O!Tab

LEMMA CacheStep ==
  ASSUME CacheInv, [O!Next]_(O!cacheVars)
  PROVE  CacheInv'
<1> USE DEF CacheInv, O!historyVars, O!workerVars, O!tabs
<1>1. ASSUME NEW ctrl \in BOOLEAN, O!Visit(ctrl)
      PROVE  CacheInv'
  <2>1. PICK u \in Accounts : O!Load(u, ctrl)
    BY <1>1 DEF O!Visit, CacheTypes
  <2> HIDE DEF CacheInv
  <2>2. UNCHANGED <<browser, net, active, api, fetch, badge, count, via, late, odd>>
    BY <1>1 DEF O!Visit
  <2>3. shell' \in Accounts /\ (ctrl => active)
    BY <1>1 DEF O!Visit, CacheInv, CacheTypes
  <2>4. CacheTypes' /\ EntriesOwned'
    <3>1. O!Nobody \in Accounts
      BY DEF Accounts
    <3> DEFINE b == ctrl /\ browser = O!Nobody
    <3>5. b \in BOOLEAN
      OBVIOUS
    <3>6. \/ page' = [kind |-> "login", of |-> O!Nobody, ctrl |-> ctrl, posted |-> b]
          \/ page' = [kind |-> "app", of |-> u, ctrl |-> ctrl, posted |-> FALSE]
      BY Mounting, <2>1
    <3> HIDE DEF b
    <3>3. page' \in [kind : {"closed", "login", "app"}, of : Accounts, ctrl : BOOLEAN, posted : BOOLEAN]
      <4>1. [kind |-> "login", of |-> O!Nobody, ctrl |-> ctrl, posted |-> b]
              \in [kind : {"closed", "login", "app"}, of : Accounts, ctrl : BOOLEAN, posted : BOOLEAN]
        BY <3>1, <3>5
      <4>2. [kind |-> "app", of |-> u, ctrl |-> ctrl, posted |-> FALSE]
              \in [kind : {"closed", "login", "app"}, of : Accounts, ctrl : BOOLEAN, posted : BOOLEAN]
        OBVIOUS
      <4> QED BY <3>6, <4>1, <4>2
    <3>4. clears' \in BOOLEAN /\ post' \in Accounts
      BY Mounting, <2>1 DEF CacheInv, CacheTypes
    <3> QED BY <2>2, <2>3, <3>3, <3>4 DEF CacheInv, CacheTypes, EntriesOwned
  <2>5. ClearedSince'
    BY Mounting, <2>1, <2>2 DEF CacheInv, CacheTypes, ClearedSince
  <2>6. BadgeTold'
    BY Mounting, <2>1, <2>2 DEF CacheInv, CacheTypes, BadgeTold, O!NoFetch
  <2> QED BY <2>4, <2>5, <2>6 DEF CacheInv
<1>2. ASSUME NEW u \in People, O!SignIn(u) \/ O!SignInByLink(u)
      PROVE  CacheInv'
  <2>1. /\ browser = O!Nobody /\ browser' = u /\ via' \in {FALSE, page.posted} /\ clears' = clears
        /\ page'.posted = FALSE /\ page'.of = u /\ post' = IF active THEN u ELSE post
        /\ UNCHANGED <<net, active, api, fetch, badge, count, late, odd>>
    <3>1. CASE O!SignIn(u)
      BY <3>1 DEF O!SignIn, O!OnAppPage, O!Tab
    <3>2. CASE O!SignInByLink(u)
      BY <3>2 DEF O!SignInByLink, O!OnAppPage, O!Tab
    <3> QED BY <1>2, <3>1, <3>2
  <2>2. /\ page' \in [kind : {"closed", "login", "app"}, of : Accounts, ctrl : BOOLEAN, posted : BOOLEAN]
        /\ shell' \in Accounts
    <3>1. u \in Accounts /\ page.ctrl \in BOOLEAN /\ active \in BOOLEAN /\ shell \in Accounts
      BY DEF Accounts, CacheTypes
    <3>2. \A c \in BOOLEAN : [kind |-> "app", of |-> u, ctrl |-> c, posted |-> FALSE]
            \in [kind : {"closed", "login", "app"}, of : Accounts, ctrl : BOOLEAN, posted : BOOLEAN]
      BY <3>1
    <3>3. CASE O!SignIn(u)
      BY <3>1, <3>2, <3>3 DEF O!SignIn, O!OnAppPage, O!Tab
    <3>4. CASE O!SignInByLink(u)
      BY <3>1, <3>2, <3>4 DEF O!SignInByLink, O!OnAppPage, O!Tab
    <3> QED BY <1>2, <3>3, <3>4
  <2>3. CacheTypes'
    BY <2>1, <2>2 DEF CacheTypes, Accounts
  <2> QED BY <2>1, <2>3 DEF CacheTypes, EntriesOwned, ClearedSince, BadgeTold, O!NoEntry
<1>3. CASE O!SignOut
  <2>1. CacheTypes'
    <3>1. O!Nobody \in Accounts
      BY DEF Accounts
    <3> QED BY <1>3, <3>1 DEF O!SignOut, CacheTypes
  <2>2. EntriesOwned' /\ BadgeTold'
    BY <1>3 DEF O!SignOut, EntriesOwned, BadgeTold
  <2> QED BY <1>3, <2>1, <2>2 DEF O!SignOut, ClearedSince
<1>4. CASE O!LeaveToLogin
  <2>1. /\ page' = [kind |-> "login", of |-> O!Nobody, ctrl |-> page.ctrl, posted |-> page.ctrl /\ browser = O!Nobody]
        /\ clears' = (clears \/ page.ctrl) /\ browser = O!Nobody
        /\ UNCHANGED <<browser, net, active, shell, post, api, fetch, badge, count, via, late, odd>>
    BY <1>4 DEF O!LeaveToLogin, O!OnLoginPage, O!Tab
  <2> QED BY <2>1 DEF CacheTypes, EntriesOwned, ClearedSince, BadgeTold, Accounts
<1>5. CASE O!Activate
  <2>1. /\ page' \in [kind : {"closed", "login", "app"}, of : Accounts, ctrl : BOOLEAN, posted : BOOLEAN]
        /\ page'.kind = page.kind /\ page'.of = page.of /\ page'.posted = page.posted
    BY <1>5 DEF O!Activate, CacheTypes
  <2> QED BY <1>5, <2>1 DEF O!Activate, CacheTypes, EntriesOwned, ClearedSince, BadgeTold
<1>6. CASE O!Network
  BY <1>6 DEF O!Network, CacheTypes, EntriesOwned, ClearedSince, BadgeTold
<1>7. ASSUME NEW f \in Fetches, O!Request(f) \/ O!Answer(f) \/ O!Put(f) \/ O!FromCache(f)
      PROVE  CacheInv'
  <2>1. /\ fetch' \in [Fetches -> Fetching]
        /\ \A g \in Fetches : g # f => fetch'[g] = fetch[g]
        /\ fetch'[f].at = "put" => fetch'[f].as # O!Nobody
    <3>1. O!NoFetch \in Fetching /\ O!NoFetch.at = "none"
      BY DEF O!NoFetch, Fetching, Accounts
    <3>2. fetch[f] \in Fetching
      BY DEF CacheTypes
    <3>3. \A z \in Fetching : [z EXCEPT !.at = "put"] \in Fetching /\ [z EXCEPT !.at = "put"].as = z.as
      BY DEF Fetching
    <3>4. [at |-> "out", as |-> browser] \in Fetching
      BY DEF CacheTypes, Fetching
    <3>5. PICK z \in Fetching : fetch' = [fetch EXCEPT ![f] = z] /\ (z.at = "put" => z.as # O!Nobody)
      <4>1. CASE O!Request(f)
        BY <3>4, <4>1 DEF O!Request
      <4>2. CASE O!Answer(f)
        <5>1. CASE fetch[f].as = O!Nobody
          BY <3>1, <4>2, <5>1 DEF O!Answer
        <5>2. CASE fetch[f].as # O!Nobody
          BY <3>2, <3>3, <4>2, <5>2 DEF O!Answer
        <5> QED BY <5>1, <5>2
      <4>3. CASE O!Put(f) \/ O!FromCache(f)
        BY <3>1, <4>3 DEF O!Put, O!FromCache
      <4> QED BY <1>7, <4>1, <4>2, <4>3
    <3> QED BY <3>5 DEF CacheTypes
  <2>2. /\ UNCHANGED <<browser, net, active, page, shell, clears, post, badge, count, via, odd>>
        /\ \/ UNCHANGED <<api, late>>
           \/ api' = O!NoEntry /\ late' = late
           \/ /\ api' = [of |-> fetch[f].as, fresh |-> TRUE] /\ fetch[f].at = "put"
              /\ late' = (late \/ fetch[f].as # browser)
    BY <1>7 DEF O!Request, O!Answer, O!Put, O!FromCache
  <2>3. fetch[f] \in Fetching /\ O!NoEntry \in [of : Accounts, fresh : BOOLEAN]
    BY DEF CacheTypes, O!NoEntry, Accounts
  <2>4. CacheTypes'
    <3>1. api' \in [of : Accounts, fresh : BOOLEAN] /\ late' \in BOOLEAN
      <4>1. (late \/ fetch[f].as # browser) \in BOOLEAN
        OBVIOUS
      <4>2. [of |-> fetch[f].as, fresh |-> TRUE] \in [of : Accounts, fresh : BOOLEAN]
        BY <2>3 DEF Fetching
      <4>3. api \in [of : Accounts, fresh : BOOLEAN] /\ late \in BOOLEAN
        BY DEF CacheTypes
      <4> HIDE DEF CacheInv
      <4> QED BY <2>2, <2>3, <4>1, <4>2, <4>3
    <3> QED BY <2>1, <2>2, <3>1 DEF CacheTypes
  <2> QED BY <2>1, <2>2, <2>3, <2>4 DEF CacheTypes, EntriesOwned, ClearedSince, BadgeTold, Fetching, O!NoEntry
<1>8. CASE O!Age
  <2>1. api' \in [of : Accounts, fresh : BOOLEAN] /\ api'.of = api.of /\ api'.fresh = FALSE
    BY <1>8 DEF O!Age, CacheTypes
  <2>2. api # O!NoEntry
    BY <1>8 DEF O!Age, O!NoEntry
  <2> QED BY <1>8, <2>1, <2>2 DEF O!Age, CacheTypes, EntriesOwned, ClearedSince, BadgeTold
<1>9. CASE O!Clear
  <2>1. CacheTypes'
    <3>1. O!NoEntry \in [of : Accounts, fresh : BOOLEAN]
      BY DEF Accounts, O!NoEntry
    <3> QED BY <1>9, <3>1 DEF O!Clear, CacheTypes
  <2>2. EntriesOwned' /\ BadgeTold'
    BY <1>9 DEF O!Clear, EntriesOwned, BadgeTold, O!NoEntry
  <2> QED BY <1>9, <2>1, <2>2 DEF O!Clear, ClearedSince
<1>10. CASE O!AskCount
  BY <1>10 DEF O!AskCount, CacheTypes, EntriesOwned, ClearedSince, BadgeTold, Fetching
<1>11. CASE O!TellCount
  BY <1>11 DEF O!TellCount, CacheTypes, EntriesOwned, ClearedSince, BadgeTold, Fetching, O!NoFetch, Accounts
<1>12. CASE O!ShowCount
  BY <1>12 DEF O!ShowCount, CacheTypes, EntriesOwned, ClearedSince, BadgeTold, Accounts
<1>13. CASE UNCHANGED (O!cacheVars)
  BY <1>13 DEF O!cacheVars, CacheTypes, EntriesOwned, ClearedSince, BadgeTold
<1> QED
  BY <1>1, <1>2, <1>3, <1>4, <1>5, <1>6, <1>7, <1>8, <1>9, <1>10, <1>11, <1>12, <1>13 DEF O!Next

-----------------------------------------------------------------------------
(* The tabs and their channel.                                             *)

Presences == {"online", "idle", "dnd", "invisible"}
Words == Presences \cup {"closing"}
Queues == [Windows -> [Windows -> Seq(Words)]]
Latest(q) == q[Len(q)]

TabTypes ==
  /\ up \in [Windows -> BOOLEAN] /\ auto \in [Windows -> BOOLEAN]
  /\ mood \in [Windows -> Moods \cup {"online"}]
  /\ status \in [Windows -> Presences]
  /\ others \in [Windows -> [Windows -> Presences \cup {B!None}]]
  /\ aggregate \in [Windows -> Presences \cup {B!None}]
  /\ queue \in Queues
  /\ blind \in SUBSET (Windows \X Windows)

\* What a tab has sent is the aggregate of what it knows.
SendsSeen == \A t \in Windows : up[t] => aggregate[t] = B!Seen(t, status[t], others[t])

\* The last word of a tab to another one is the status it has, or its farewell.
LastWord(u, t) ==
  queue[u][t] # <<>> =>
    /\ up[t] /\ u # t
    /\ up[u] => Latest(queue[u][t]) = status[u]
    /\ ~up[u] => Latest(queue[u][t]) = "closing" \/ <<t, u>> \in blind
    /\ \A n \in 1 .. Len(queue[u][t]) :
         queue[u][t][n] = "closing" => n = Len(queue[u][t]) /\ ~up[u]

\* A tab with nothing to hear from another one knows its status, or is unknown
\* to it and has a word on its way that gets a reply.
Abreast(t, u) ==
  up[t] /\ u # t /\ <<t, u>> \notin blind /\ queue[u][t] = <<>> =>
    /\ ~up[u] => others[t][u] = B!None
    /\ up[u] => \/ others[t][u] = status[u]
                \/ others[t][u] = B!None /\ others[u][t] = B!None /\ queue[t][u] # <<>>

TabInv ==
  /\ TabTypes /\ SendsSeen
  /\ \A u, t \in Windows : LastWord(u, t) /\ Abreast(u, t)

LEMMA TabInit ==
  ASSUME B!Init
  PROVE  TabInv
<1> USE DEF B!Init
<1>1. queue \in Queues
  BY DEF B!Pairs, Queues
<1>2. TabTypes
  BY <1>1 DEF TabTypes, Presences, B!Pairs
<1>3. \A t, u \in Windows : queue[u][t] = <<>> /\ ~up[t]
  BY DEF B!Pairs
<1> QED BY <1>2, <1>3 DEF TabInv, SendsSeen, LastWord, Abreast

\* The aggregate is one of the statuses.
LEMMA Aggregated == \A W : B!Aggregate(W) \in Presences
BY DEF B!Aggregate, Presences

LEMMA TabReached == TabInv => B!TabsAgree
<1> SUFFICES ASSUME TabInv, queue = B!Pairs(<<>>), NEW t \in Windows, up[t], B!Sighted(t) = blind
             PROVE  aggregate[t] = B!Aggregate({status[u] : u \in {v \in Windows : up[v]}})
  BY DEF B!TabsAgree
<1>1. \A u, v \in Windows : queue[u][v] = <<>>
  BY DEF B!Pairs
<1>2. \A u \in Windows : <<t, u>> \notin blind
  BY DEF B!Sighted
<1>3. \A u \in Windows \ {t} : others[t][u] = IF up[u] THEN status[u] ELSE B!None
  BY <1>1, <1>2 DEF TabInv, Abreast
<1>4. \A u \in Windows : status[u] # B!None
  BY DEF TabInv, TabTypes, Presences, B!None
<1>5. {status[t]} \cup ({others[t][u] : u \in Windows \ {t}} \ {B!None})
        = {status[u] : u \in {v \in Windows : up[v]}}
  BY <1>3, <1>4 DEF TabInv, TabTypes
<1>6. aggregate[t] = B!Seen(t, status[t], others[t])
  BY DEF TabInv, SendsSeen
<1> QED BY <1>5, <1>6 DEF B!Seen

\* A message behind the others is the last one.
LEMMA Tacked ==
  ASSUME NEW q \in Seq(Words), NEW ms \in Seq(Words), ms # <<>>
  PROVE  /\ q \o ms \in Seq(Words) /\ q \o ms # <<>>
         /\ Len(q \o ms) = Len(q) + Len(ms) /\ Len(ms) > 0
         /\ Latest(q \o ms) = Latest(ms)
         /\ \A n \in 1 .. Len(q) : (q \o ms)[n] = q[n]
         /\ \A n \in 1 .. Len(ms) : (q \o ms)[Len(q) + n] = ms[n]
         /\ \A n \in 1 .. Len(q \o ms) : n \in 1 .. Len(q) \/ \E k \in 1 .. Len(ms) : n = Len(q) + k
<1>1. Len(ms) > 0 /\ Len(ms) \in Nat /\ Len(q) \in Nat
  OBVIOUS
<1>2. Len(q \o ms) = Len(q) + Len(ms) /\ q \o ms \in Seq(Words)
  OBVIOUS
<1>3. \A n \in 1 .. Len(ms) : (q \o ms)[Len(q) + n] = ms[n]
  BY <1>1
<1>4. \A n \in 1 .. Len(q) : (q \o ms)[n] = q[n]
  OBVIOUS
<1>5. \A n \in 1 .. Len(q \o ms) : n \in 1 .. Len(q) \/ \E k \in 1 .. Len(ms) : n = Len(q) + k
  <2> TAKE n \in 1 .. Len(q \o ms)
  <2>1. CASE n > Len(q)
    <3>1. n - Len(q) \in 1 .. Len(ms) /\ n = Len(q) + (n - Len(q))
      BY <1>1, <1>2, <2>1
    <3> QED BY <3>1
  <2> QED BY <1>1, <2>1
<1>6. Latest(q \o ms) = Latest(ms)
  BY <1>1, <1>2, <1>3 DEF Latest
<1>7. q \o ms # <<>>
  BY <1>1, <1>2
<1> QED BY <1>1, <1>2, <1>3, <1>4, <1>5, <1>6, <1>7

\* Without a farewell in either, there is none in both.
LEMMA TackedOpen ==
  ASSUME NEW q \in Seq(Words), NEW ms \in Seq(Words), ms # <<>>,
         \A n \in 1 .. Len(q) : q[n] # "closing", \A n \in 1 .. Len(ms) : ms[n] # "closing"
  PROVE  \A n \in 1 .. Len(q \o ms) : (q \o ms)[n] # "closing"
<1> TAKE n \in 1 .. Len(q \o ms)
<1> DEFINE both == q \o ms
<1>1. /\ \A k \in 1 .. Len(q) : both[k] = q[k]
      /\ \A k \in 1 .. Len(ms) : both[Len(q) + k] = ms[k]
      /\ n \in 1 .. Len(q) \/ \E k \in 1 .. Len(ms) : n = Len(q) + k
  BY Tacked
<1> HIDE DEF both
<1>2. CASE n \in 1 .. Len(q)
  BY <1>1, <1>2 DEF both
<1>3. CASE n \notin 1 .. Len(q)
  <2>1. PICK k \in 1 .. Len(ms) : n = Len(q) + k
    BY <1>1, <1>3
  <2>2. both[n] = ms[k]
    BY <1>1, <2>1
  <2> QED BY <2>2 DEF both
<1> QED BY <1>2, <1>3

\* The row of the tab that posts, and the others.
LEMMA Posting ==
  ASSUME NEW q \in Queues, NEW t \in Windows, NEW ms \in Seq(Words)
  PROVE  /\ B!Posted(q, t, ms) \in Queues
         /\ \A w \in Windows : B!Posted(q, t, ms)[t][w] =
                                 IF w # t /\ up[w] THEN q[t][w] \o ms ELSE q[t][w]
         /\ \A v \in Windows \ {t} : B!Posted(q, t, ms)[v] = q[v]
<1> DEFINE posted == [w \in Windows |-> IF w # t /\ up[w] THEN q[t][w] \o ms ELSE q[t][w]]
<1>1. B!Posted(q, t, ms) = [q EXCEPT ![t] = posted]
  BY DEF B!Posted
<1>2. \A w \in Windows : q[t][w] \in Seq(Words) /\ q[t][w] \o ms \in Seq(Words)
  BY DEF Queues
<1>3. posted \in [Windows -> Seq(Words)]
  BY <1>2
<1>4. \A w \in Windows : posted[w] = IF w # t /\ up[w] THEN q[t][w] \o ms ELSE q[t][w]
  OBVIOUS
<1> HIDE DEF posted
<1> QED BY <1>1, <1>3, <1>4 DEF Queues

\* A tab takes another status and says so.
LEMMA SayStep ==
  ASSUME TabInv, NEW t \in Windows, up[t], NEW s \in Presences, NEW i \in BOOLEAN,
         B!SetTabStatus(t, s, i)
  PROVE  TabInv'
<1> DEFINE ms == <<s>>
<1>1. /\ ms \in Seq(Words) /\ ms # <<>> /\ Latest(ms) = s
      /\ \A k \in 1 .. Len(ms) : ms[k] # "closing"
  BY DEF Words, Presences, Latest
<1>2. queue \in Queues /\ \A u, w \in Windows : queue[u][w] \in Seq(Words)
  BY DEF TabInv, TabTypes, Queues
<1> HIDE DEF ms
<1>3. queue' = B!Posted(queue, t, ms)
  BY DEF B!SetTabStatus, ms
<1>4. /\ queue' \in Queues
      /\ \A w \in Windows : queue'[t][w] = IF w # t /\ up[w] THEN queue[t][w] \o ms ELSE queue[t][w]
      /\ \A v \in Windows \ {t} : queue'[v] = queue[v]
  BY <1>1, <1>2, <1>3, Posting
<1>5. /\ UNCHANGED <<up, mood, others, blind>>
      /\ status' \in [Windows -> Presences] /\ status'[t] = s
      /\ \A v \in Windows \ {t} : status'[v] = status[v]
  BY DEF B!SetTabStatus, TabInv, TabTypes
<1>6. B!Seen(t, s, others[t]) \in Presences
  BY Aggregated DEF B!Seen
<1>7. /\ aggregate' \in [Windows -> Presences \cup {B!None}]
      /\ aggregate'[t] = B!Seen(t, s, others[t])
      /\ \A v \in Windows \ {t} : aggregate'[v] = aggregate[v]
  BY <1>6 DEF B!SetTabStatus, TabInv, TabTypes
<1>8. TabTypes'
  BY <1>4, <1>5, <1>7 DEF B!SetTabStatus, TabInv, TabTypes
<1>9. SendsSeen'
  BY <1>5, <1>7 DEF TabInv, SendsSeen
<1>10. ASSUME NEW u \in Windows, NEW w \in Windows
       PROVE  LastWord(u, w)'
  <2>1. LastWord(u, w)
    BY DEF TabInv
  <2>2. CASE u = t /\ w # t /\ up[w]
    <3>1. /\ queue'[t][w] # <<>> /\ Latest(queue'[t][w]) = s
          /\ \A n \in 1 .. Len(queue'[t][w]) : queue'[t][w][n] # "closing"
      <4>1. queue'[t][w] = queue[t][w] \o ms
        BY <1>4, <2>2
      <4>2. \A n \in 1 .. Len(queue[t][w]) : queue[t][w][n] # "closing"
        BY <2>1, <2>2 DEF LastWord
      <4>3. queue[t][w] \in Seq(Words)
        BY <1>2
      <4>4. queue[t][w] \o ms # <<>> /\ Latest(queue[t][w] \o ms) = Latest(ms)
        BY <1>1, <4>3, Tacked
      <4>5. \A n \in 1 .. Len(queue[t][w] \o ms) : (queue[t][w] \o ms)[n] # "closing"
        BY <1>1, <4>2, <4>3, TackedOpen
      <4> QED BY <1>1, <4>1, <4>4, <4>5
    <3> QED BY <1>5, <2>2, <3>1 DEF LastWord
  <2>3. CASE ~(u = t /\ w # t /\ up[w])
    <3>1. queue'[u][w] = queue[u][w]
      BY <1>4, <2>3
    <3>2. u # t \/ queue[u][w] = <<>>
      BY <2>1, <2>3 DEF LastWord
    <3> QED BY <1>5, <2>1, <3>1, <3>2 DEF LastWord
  <2> QED BY <2>2, <2>3
<1>11. ASSUME NEW w \in Windows, NEW u \in Windows
       PROVE  Abreast(w, u)'
  <2>1. Abreast(w, u)
    BY DEF TabInv
  <2>2. \A v \in Windows : queue'[v][w] = <<>> => queue[v][w] = <<>>
    <3> SUFFICES ASSUME NEW v \in Windows, queue'[v][w] = <<>>
                 PROVE  queue[v][w] = <<>>
      OBVIOUS
    <3>1. queue[v][w] \o ms # <<>>
      BY <1>1, <1>2, Tacked
    <3> QED BY <1>4, <3>1
  <2>3. queue[w][u] # <<>> => queue'[w][u] # <<>>
    <3>1. queue[w][u] \o ms # <<>>
      BY <1>1, <1>2, Tacked
    <3> QED BY <1>4, <3>1
  <2>4. CASE u = t /\ w # t /\ up[w]
    <3>1. queue[t][w] \o ms # <<>>
      BY <1>1, <1>2, Tacked
    <3> QED BY <1>4, <2>4, <3>1 DEF Abreast
  <2>5. CASE u # t \/ ~up[w] \/ w = t
    BY <1>5, <2>1, <2>2, <2>3, <2>5 DEF Abreast
  <2> QED BY <2>4, <2>5
<1> QED BY <1>8, <1>9, <1>10, <1>11 DEF TabInv

\* The effect of a tab starts, for the first time or again.
LEMMA StartStep ==
  ASSUME TabInv, NEW t \in Windows, NEW s \in Moods, NEW own \in Presences,
         B!Start(t, s, own),
         \/ ~up[t] /\ (\A u \in Windows : B!Gone(t, u)) /\ blind' = blind
         \/ /\ up[t]
            /\ blind' = B!Sighted(t) \cup {<<t, u>> : u \in {v \in Windows \ {t} : up[v]}}
  PROVE  TabInv'
<1> DEFINE first == B!Initial(s)
           ms == <<own, first>>
<1>1. first \in Presences
  BY DEF B!Initial, Presences
<1> HIDE DEF first
<1>2. /\ ms \in Seq(Words) /\ ms # <<>> /\ Latest(ms) = first
      /\ \A k \in 1 .. Len(ms) : ms[k] # "closing"
  <2>1. own \in Words /\ first \in Words /\ own # "closing" /\ first # "closing"
    BY <1>1 DEF Words, Presences
  <2>2. Len(ms) = 2 /\ ms[1] = own /\ ms[2] = first
    OBVIOUS
  <2> QED BY <2>1, <2>2 DEF Latest
<1>3. queue \in Queues /\ \A u, w \in Windows : queue[u][w] \in Seq(Words)
  BY DEF TabInv, TabTypes, Queues
<1> HIDE DEF ms
<1>4. queue' = [u \in Windows |-> [B!Posted(queue, t, ms)[u] EXCEPT ![t] = <<>>]]
  BY DEF B!Start, ms, first
<1>5. /\ queue' \in Queues
      /\ \A v \in Windows : queue'[v][t] = <<>>
      /\ \A w \in Windows \ {t} :
           queue'[t][w] = IF up[w] THEN queue[t][w] \o ms ELSE queue[t][w]
      /\ \A v, w \in Windows \ {t} : queue'[v][w] = queue[v][w]
  <2>1. /\ B!Posted(queue, t, ms) \in Queues
        /\ \A w \in Windows : B!Posted(queue, t, ms)[t][w] =
                                IF w # t /\ up[w] THEN queue[t][w] \o ms ELSE queue[t][w]
        /\ \A v \in Windows \ {t} : B!Posted(queue, t, ms)[v] = queue[v]
    BY <1>2, <1>3, Posting
  <2> DEFINE p == B!Posted(queue, t, ms)
  <2> HIDE DEF p
  <2>2. queue' = [u \in Windows |-> [p[u] EXCEPT ![t] = <<>>]] /\ p \in Queues
    BY <1>4, <2>1 DEF p
  <2>3. \A v \in Windows : [p[v] EXCEPT ![t] = <<>>] \in [Windows -> Seq(Words)]
    BY <2>2 DEF Queues
  <2>4. queue' \in Queues
    BY <2>2, <2>3 DEF Queues
  <2>5. \A v \in Windows : queue'[v] = [p[v] EXCEPT ![t] = <<>>]
    BY <2>2
  <2>6. \A v \in Windows : queue'[v][t] = <<>> /\ \A w \in Windows \ {t} : queue'[v][w] = p[v][w]
    BY <2>2, <2>5 DEF Queues
  <2> QED BY <2>1, <2>4, <2>6 DEF p
<1>6. /\ up' \in [Windows -> BOOLEAN] /\ up'[t] = TRUE
      /\ \A v \in Windows \ {t} : up'[v] = up[v]
  BY DEF B!Start, TabInv, TabTypes
<1>7. /\ status' \in [Windows -> Presences] /\ status'[t] = first
      /\ \A v \in Windows \ {t} : status'[v] = status[v]
  BY <1>1 DEF B!Start, TabInv, TabTypes, first
<1>8. /\ others' \in [Windows -> [Windows -> Presences \cup {B!None}]]
      /\ others'[t] = [u \in Windows |-> B!None]
      /\ \A v \in Windows \ {t} : others'[v] = others[v]
  BY DEF B!Start, TabInv, TabTypes
<1>9. /\ aggregate' \in [Windows -> Presences \cup {B!None}] /\ aggregate'[t] = first
      /\ \A v \in Windows \ {t} : aggregate'[v] = aggregate[v]
  BY <1>1 DEF B!Start, TabInv, TabTypes, first
<1>10. blind' \in SUBSET (Windows \X Windows)
  BY DEF TabInv, TabTypes, B!Sighted
<1>11. mood' \in [Windows -> Moods \cup {"online"}] /\ auto' \in [Windows -> BOOLEAN]
  BY DEF B!Start, TabInv, TabTypes
<1>12. TabTypes'
  BY <1>5, <1>6, <1>7, <1>8, <1>9, <1>10, <1>11 DEF TabTypes
<1>13. SendsSeen'
  <2>1. B!Seen(t, first, others'[t]) = first
    <3>1. {first} \cup ({others'[t][u] : u \in Windows \ {t}} \ {B!None}) = {first}
      BY <1>8
    <3>2. B!Aggregate({first}) = first
      BY <1>1 DEF B!Aggregate, Presences
    <3> QED BY <3>1, <3>2 DEF B!Seen
  <2> QED BY <1>6, <1>7, <1>8, <1>9, <2>1 DEF TabInv, SendsSeen
<1>14. \A v, w \in Windows : w # t => (<<w, v>> \in blind <=> <<w, v>> \in blind')
  BY DEF TabInv, TabTypes, B!Sighted
<1>15. \A w \in Windows \ {t} : up[w] =>
         /\ queue'[t][w] # <<>> /\ Latest(queue'[t][w]) = first
         /\ \A n \in 1 .. Len(queue'[t][w]) : queue'[t][w][n] # "closing"
  <2> SUFFICES ASSUME NEW w \in Windows \ {t}, up[w]
               PROVE  /\ queue'[t][w] # <<>> /\ Latest(queue'[t][w]) = first
                      /\ \A n \in 1 .. Len(queue'[t][w]) : queue'[t][w][n] # "closing"
    OBVIOUS
  <2>1. queue'[t][w] = queue[t][w] \o ms
    BY <1>5
  <2>2. \A n \in 1 .. Len(queue[t][w]) : queue[t][w][n] # "closing"
    <3>1. CASE ~up[t]
      <4>1. queue[t][w] = <<>>
        BY <3>1 DEF B!Gone
      <4> QED BY <4>1
    <3>2. CASE up[t]
      <4>1. LastWord(t, w)
        BY DEF TabInv
      <4>2. queue[t][w] = <<>> => Len(queue[t][w]) = 0
        OBVIOUS
      <4> QED BY <3>2, <4>1, <4>2 DEF LastWord
    <3> QED BY <3>1, <3>2
  <2>3. queue[t][w] \in Seq(Words)
    BY <1>3
  <2>4. queue[t][w] \o ms # <<>> /\ Latest(queue[t][w] \o ms) = Latest(ms)
    BY <1>2, <2>3, Tacked
  <2>5. \A n \in 1 .. Len(queue[t][w] \o ms) : (queue[t][w] \o ms)[n] # "closing"
    BY <1>2, <2>2, <2>3, TackedOpen
  <2> QED BY <1>2, <2>1, <2>4, <2>5
<1>16. ASSUME NEW u \in Windows, NEW w \in Windows
       PROVE  LastWord(u, w)'
  <2>1. LastWord(u, w)
    BY DEF TabInv
  <2>2. CASE w = t
    BY <1>5, <2>2 DEF LastWord
  <2>3. CASE w # t /\ u = t
    <3>1. CASE up[w]
      BY <1>6, <1>7, <1>15, <2>3, <3>1 DEF LastWord
    <3>2. CASE ~up[w]
      BY <1>5, <2>1, <2>3, <3>2 DEF LastWord
    <3> QED BY <3>1, <3>2
  <2>4. CASE w # t /\ u # t
    BY <1>5, <1>6, <1>7, <1>14, <2>1, <2>4 DEF LastWord
  <2> QED BY <2>2, <2>3, <2>4
<1>17. ASSUME NEW w \in Windows, NEW u \in Windows
       PROVE  Abreast(w, u)'
  <2>1. Abreast(w, u)
    BY DEF TabInv
  <2>2. CASE w = t
    <3> SUFFICES ASSUME u # t, <<t, u>> \notin blind', up[u]
                 PROVE  /\ others'[t][u] = B!None /\ others'[u][t] = B!None
                        /\ queue'[t][u] # <<>>
      BY <1>6, <1>8, <2>2 DEF Abreast
    <3>1. others[u][t] = B!None
      BY DEF B!Gone
    <3> QED BY <1>8, <1>15, <3>1
  <2>3. CASE w # t /\ u = t
    BY <1>6, <1>15, <2>3 DEF Abreast
  <2>4. CASE w # t /\ u # t
    BY <1>5, <1>6, <1>7, <1>8, <1>14, <2>1, <2>4 DEF Abreast
  <2> QED BY <2>2, <2>3, <2>4
<1> QED BY <1>12, <1>13, <1>16, <1>17 DEF TabInv

\* The page of a tab ends, with a farewell or without.
LEMMA EndStep ==
  ASSUME TabInv, NEW t \in Windows, B!Close(t) \/ B!Vanish(t)
  PROVE  TabInv'
<1>1. PICK ms \in Seq(Words) :
        /\ B!End(t, ms)
        /\ \/ /\ ms # <<>> /\ Latest(ms) = "closing" /\ Len(ms) = 1
              /\ blind' = B!Sighted(t)
           \/ /\ ms = <<>>
              /\ blind' = B!Sighted(t) \cup {<<u, t>> : u \in {v \in Windows \ {t} : up[v]}}
  <2>1. <<"closing">> \in Seq(Words) /\ <<>> \in Seq(Words)
    BY DEF Words
  <2>2. <<"closing">> # <<>> /\ Latest(<<"closing">>) = "closing" /\ Len(<<"closing">>) = 1
    BY DEF Latest
  <2>3. CASE B!Close(t)
    BY <2>1, <2>2, <2>3 DEF B!Close
  <2>4. CASE B!Vanish(t)
    BY <2>1, <2>4 DEF B!Vanish
  <2> QED BY <2>3, <2>4
<1>2. queue \in Queues /\ \A u, w \in Windows : queue[u][w] \in Seq(Words)
  BY DEF TabInv, TabTypes, Queues
<1>3. queue' = [u \in Windows |-> [B!Posted(queue, t, ms)[u] EXCEPT ![t] = <<>>]] /\ up[t]
  BY <1>1 DEF B!End
<1>4. /\ queue' \in Queues
      /\ \A v \in Windows : queue'[v][t] = <<>>
      /\ \A w \in Windows \ {t} :
           queue'[t][w] = IF up[w] THEN queue[t][w] \o ms ELSE queue[t][w]
      /\ \A v, w \in Windows \ {t} : queue'[v][w] = queue[v][w]
  <2>1. /\ B!Posted(queue, t, ms) \in Queues
        /\ \A w \in Windows : B!Posted(queue, t, ms)[t][w] =
                                IF w # t /\ up[w] THEN queue[t][w] \o ms ELSE queue[t][w]
        /\ \A v \in Windows \ {t} : B!Posted(queue, t, ms)[v] = queue[v]
    BY <1>2, Posting
  <2> DEFINE p == B!Posted(queue, t, ms)
  <2> HIDE DEF p
  <2>2. queue' = [u \in Windows |-> [p[u] EXCEPT ![t] = <<>>]] /\ p \in Queues
    BY <1>3, <2>1 DEF p
  <2>3. \A v \in Windows : [p[v] EXCEPT ![t] = <<>>] \in [Windows -> Seq(Words)]
    BY <2>2 DEF Queues
  <2>4. queue' \in Queues
    BY <2>2, <2>3 DEF Queues
  <2>5. \A v \in Windows : queue'[v] = [p[v] EXCEPT ![t] = <<>>]
    BY <2>2
  <2>6. \A v \in Windows : queue'[v][t] = <<>> /\ \A w \in Windows \ {t} : queue'[v][w] = p[v][w]
    BY <2>2, <2>5 DEF Queues
  <2> QED BY <2>1, <2>4, <2>6 DEF p
<1>5. /\ up' \in [Windows -> BOOLEAN] /\ up'[t] = FALSE
      /\ \A v \in Windows \ {t} : up'[v] = up[v]
  BY <1>1 DEF B!End, TabInv, TabTypes
<1>6. /\ status' \in [Windows -> Presences]
      /\ \A v \in Windows \ {t} : status'[v] = status[v]
  BY <1>1 DEF B!End, TabInv, TabTypes, Presences
<1>7. /\ others' \in [Windows -> [Windows -> Presences \cup {B!None}]]
      /\ \A v \in Windows \ {t} : others'[v] = others[v]
  BY <1>1 DEF B!End, TabInv, TabTypes
<1>8. /\ aggregate' \in [Windows -> Presences \cup {B!None}]
      /\ \A v \in Windows \ {t} : aggregate'[v] = aggregate[v]
  BY <1>1 DEF B!End, TabInv, TabTypes
<1>9. blind' \in SUBSET (Windows \X Windows)
  BY <1>1 DEF TabInv, TabTypes, B!Sighted
<1>10. mood' \in [Windows -> Moods \cup {"online"}] /\ auto' \in [Windows -> BOOLEAN]
  BY <1>1 DEF B!End, TabInv, TabTypes
<1>11. TabTypes'
  BY <1>4, <1>5, <1>6, <1>7, <1>8, <1>9, <1>10 DEF TabTypes
<1>12. SendsSeen'
  BY <1>5, <1>6, <1>7, <1>8 DEF TabInv, SendsSeen
<1>13. \A v, w \in Windows : w # t /\ v # t => (<<w, v>> \in blind <=> <<w, v>> \in blind')
  BY <1>1 DEF TabInv, TabTypes, B!Sighted
<1>14. ASSUME NEW w \in Windows \ {t}, up[w]
       PROVE  \/ /\ queue'[t][w] # <<>> /\ Latest(queue'[t][w]) = "closing"
                 /\ \A n \in 1 .. Len(queue'[t][w]) :
                      queue'[t][w][n] = "closing" => n = Len(queue'[t][w])
              \/ /\ <<w, t>> \in blind'
                 /\ \A n \in 1 .. Len(queue'[t][w]) : queue'[t][w][n] # "closing"
  <2>1. queue'[t][w] = queue[t][w] \o ms
    BY <1>4, <1>14
  <2>2. \A n \in 1 .. Len(queue[t][w]) : queue[t][w][n] # "closing"
    <3>1. LastWord(t, w)
      BY DEF TabInv
    <3>2. queue[t][w] = <<>> => Len(queue[t][w]) = 0
      OBVIOUS
    <3> QED BY <1>3, <3>1, <3>2 DEF LastWord
  <2>3. CASE ms # <<>>
    <3>1. Len(ms) = 1 /\ Latest(ms) = "closing"
      BY <1>1, <2>3
    <3>2. queue'[t][w] # <<>> /\ Latest(queue'[t][w]) = "closing"
      BY <1>2, <2>1, <2>3, <3>1, Tacked
    <3>3. \A n \in 1 .. Len(queue'[t][w]) :
            \/ n \in 1 .. Len(queue[t][w]) /\ queue'[t][w][n] = queue[t][w][n]
            \/ n = Len(queue'[t][w])
      <4>1. /\ Len(queue'[t][w]) = Len(queue[t][w]) + 1
            /\ \A n \in 1 .. Len(queue[t][w]) : queue'[t][w][n] = queue[t][w][n]
        <5>1. queue[t][w] \in Seq(Words) /\ ms \in Seq(Words)
          BY <1>2
        <5>2. /\ Len(queue[t][w] \o ms) = Len(queue[t][w]) + Len(ms)
              /\ \A n \in 1 .. Len(queue[t][w]) : (queue[t][w] \o ms)[n] = queue[t][w][n]
          BY <2>3, <5>1, Tacked
        <5> QED BY <2>1, <3>1, <5>2
      <4>2. Len(queue[t][w]) \in Nat
        BY <1>2
      <4> QED BY <4>1, <4>2
    <3> QED BY <2>2, <3>2, <3>3
  <2>4. CASE ms = <<>>
    <3>1. queue'[t][w] = queue[t][w]
      BY <1>2, <2>1, <2>4
    <3>2. <<w, t>> \in blind'
      BY <1>1, <1>14, <2>4
    <3> QED BY <2>2, <3>1, <3>2
  <2> QED BY <2>3, <2>4
<1>15. ASSUME NEW u \in Windows, NEW w \in Windows
       PROVE  LastWord(u, w)'
  <2>1. LastWord(u, w)
    BY DEF TabInv
  <2>2. CASE w = t
    BY <1>4, <2>2 DEF LastWord
  <2>3. CASE w # t /\ u = t
    <3>1. CASE up[w]
      BY <1>5, <1>14, <2>3, <3>1 DEF LastWord
    <3>2. CASE ~up[w]
      BY <1>4, <2>1, <2>3, <3>2 DEF LastWord
    <3> QED BY <3>1, <3>2
  <2>4. CASE w # t /\ u # t
    BY <1>4, <1>5, <1>6, <1>13, <2>1, <2>4 DEF LastWord
  <2> QED BY <2>2, <2>3, <2>4
<1>16. ASSUME NEW w \in Windows, NEW u \in Windows
       PROVE  Abreast(w, u)'
  <2>1. Abreast(w, u)
    BY DEF TabInv
  <2>2. CASE w = t
    BY <1>5, <2>2 DEF Abreast
  <2>3. CASE w # t /\ u = t
    BY <1>5, <1>14, <2>3 DEF Abreast
  <2>4. CASE w # t /\ u # t
    BY <1>4, <1>5, <1>6, <1>7, <1>13, <2>1, <2>4 DEF Abreast
  <2> QED BY <2>2, <2>3, <2>4
<1> QED BY <1>11, <1>12, <1>15, <1>16 DEF TabInv

\* A tab hears another one.
LEMMA ReceiveStep ==
  ASSUME TabInv, NEW t \in Windows, NEW u \in Windows, B!Receive(u, t)
  PROVE  TabInv'
<1> DEFINE q == queue[u][t]
           m == Head(q)
           new == m # "closing" /\ others[t][u] = B!None
           ms == IF new THEN <<status[t]>> ELSE <<>>
           rest == [queue EXCEPT ![u][t] = Tail(@)]
           heard == [others[t] EXCEPT ![u] = IF m = "closing" THEN B!None ELSE m]
<1>1. queue \in Queues /\ \A v, w \in Windows : queue[v][w] \in Seq(Words)
  BY DEF TabInv, TabTypes, Queues
<1>2. /\ q \in Seq(Words) /\ q # <<>> /\ m \in Words /\ m = q[1]
      /\ Len(q) \in Nat /\ Len(q) > 0
      /\ Tail(q) \in Seq(Words) /\ Len(Tail(q)) = Len(q) - 1
      /\ \A n \in 1 .. Len(q) - 1 : Tail(q)[n] = q[n + 1]
  BY <1>1 DEF B!Receive
<1>3. /\ up[t] /\ u # t
      /\ up[u] => Latest(q) = status[u]
      /\ ~up[u] => Latest(q) = "closing" \/ <<t, u>> \in blind
      /\ \A n \in 1 .. Len(q) : q[n] = "closing" => n = Len(q) /\ ~up[u]
  BY <1>2 DEF TabInv, LastWord
<1>4. /\ status[t] \in Presences /\ status[t] # "closing" /\ status[u] \in Presences
      /\ others[t] \in [Windows -> Presences \cup {B!None}]
  BY DEF TabInv, TabTypes, Presences
<1>5. /\ UNCHANGED <<up, mood, status, auto>>
      /\ others' = [others EXCEPT ![t] = heard]
      /\ aggregate' = [aggregate EXCEPT ![t] = B!Seen(t, status[t], heard)]
      /\ blind' = IF up[u] \/ m = "closing" THEN blind \ {<<t, u>>} ELSE blind
      /\ queue' = IF new THEN B!Posted(rest, t, <<status[t]>>) ELSE rest
  BY DEF B!Receive
<1>6. m = "closing" \/ m \in Presences
  BY <1>2 DEF Words
<1>7. /\ heard \in [Windows -> Presences \cup {B!None}]
      /\ heard[u] = IF m = "closing" THEN B!None ELSE m
      /\ \A w \in Windows \ {u} : heard[w] = others[t][w]
  BY <1>4, <1>6
<1>8. /\ rest \in Queues
      /\ rest[u][t] = Tail(q)
      /\ \A v, w \in Windows : v # u \/ w # t => rest[v][w] = queue[v][w]
  <2>1. Tail(q) \in Seq(Words)
    BY <1>2
  <2> DEFINE posted == [queue[u] EXCEPT ![t] = Tail(q)]
  <2>2. posted \in [Windows -> Seq(Words)] /\ posted[t] = Tail(q)
        /\ \A w \in Windows \ {t} : posted[w] = queue[u][w]
    BY <1>1, <2>1 DEF Queues
  <2>3. rest = [queue EXCEPT ![u] = posted]
    OBVIOUS
  <2> HIDE DEF posted, rest, q
  <2>4. rest \in Queues /\ rest[u] = posted /\ \A v \in Windows \ {u} : rest[v] = queue[v]
    BY <1>1, <2>2, <2>3 DEF Queues
  <2> QED BY <2>2, <2>4
<1> HIDE DEF q, m, new, rest, heard
<1>9. ms \in Seq(Words) /\ \A k \in 1 .. Len(ms) : ms[k] # "closing"
  <2>1. /\ <<status[t]>> \in Seq(Words)
        /\ \A k \in 1 .. Len(<<status[t]>>) : <<status[t]>>[k] # "closing"
    BY <1>4 DEF Words
  <2>2. <<>> \in Seq(Words) /\ 1 .. Len(<<>>) = {}
    OBVIOUS
  <2> QED BY <2>1, <2>2
<1>10. ms # <<>> => Latest(ms) = status[t]
  BY DEF Latest
<1>11. new <=> ms # <<>>
  OBVIOUS
<1> HIDE DEF ms
<1>12. /\ queue' \in Queues
       /\ queue'[u][t] = Tail(q)
       /\ \A w \in Windows \ {t} : queue'[t][w] = IF up[w] THEN queue[t][w] \o ms ELSE queue[t][w]
       /\ \A v, w \in Windows : v # t /\ (v # u \/ w # t) => queue'[v][w] = queue[v][w]
       /\ queue'[t][t] = queue[t][t]
  <2>1. CASE new
    <3>1. queue' = B!Posted(rest, t, ms)
      BY <1>5, <2>1 DEF ms
    <3>2. /\ B!Posted(rest, t, ms) \in Queues
          /\ \A w \in Windows : B!Posted(rest, t, ms)[t][w] =
                                  IF w # t /\ up[w] THEN rest[t][w] \o ms ELSE rest[t][w]
          /\ \A v \in Windows \ {t} : B!Posted(rest, t, ms)[v] = rest[v]
      BY <1>8, <1>9, Posting
    <3> QED BY <1>3, <1>8, <3>1, <3>2
  <2>2. CASE ~new
    <3>1. queue' = rest /\ ms = <<>>
      BY <1>5, <1>11, <2>2
    <3>2. \A w \in Windows : queue[t][w] \o ms = queue[t][w]
      BY <1>1, <3>1
    <3> QED BY <1>3, <1>8, <3>1, <3>2
  <2> QED BY <2>1, <2>2
<1>13. \A v, w \in Windows : w # t \/ v # u => (<<w, v>> \in blind <=> <<w, v>> \in blind')
  BY <1>5
<1>14. /\ others' \in [Windows -> [Windows -> Presences \cup {B!None}]]
       /\ others'[t] = heard
       /\ \A v \in Windows \ {t} : others'[v] = others[v]
  BY <1>5, <1>7 DEF TabInv, TabTypes
<1>15. /\ aggregate' \in [Windows -> Presences \cup {B!None}]
       /\ aggregate'[t] = B!Seen(t, status[t], heard)
       /\ \A v \in Windows \ {t} : aggregate'[v] = aggregate[v]
  <2>1. B!Seen(t, status[t], heard) \in Presences
    BY Aggregated DEF B!Seen
  <2> QED BY <1>5, <2>1 DEF TabInv, TabTypes
<1>16. TabTypes'
  <2>1. blind' \in SUBSET (Windows \X Windows)
    BY <1>5 DEF TabInv, TabTypes
  <2> QED BY <1>5, <1>12, <1>14, <1>15, <2>1 DEF TabInv, TabTypes
<1>17. SendsSeen'
  BY <1>5, <1>14, <1>15 DEF TabInv, SendsSeen
<1>18. \A w \in Windows : queue[t][w] # <<>> => queue'[t][w] # <<>>
  <2> SUFFICES ASSUME NEW w \in Windows, queue[t][w] # <<>>
               PROVE  queue'[t][w] # <<>>
    OBVIOUS
  <2>1. ms # <<>> => queue[t][w] \o ms # <<>>
    BY <1>1, <1>9, Tacked
  <2>2. ms = <<>> => queue[t][w] \o ms = queue[t][w]
    BY <1>1
  <2> QED BY <1>12, <2>1, <2>2
<1>19. \A w \in Windows \ {t} : up[w] /\ ms # <<>> => queue'[t][w] # <<>>
  <2> SUFFICES ASSUME NEW w \in Windows \ {t}, up[w], ms # <<>>
               PROVE  queue'[t][w] # <<>>
    OBVIOUS
  <2>1. queue[t][w] \o ms # <<>>
    BY <1>1, <1>9, Tacked
  <2> QED BY <1>12, <2>1
<1>20. ASSUME NEW v \in Windows, NEW w \in Windows
       PROVE  LastWord(v, w)'
  <2>1. LastWord(v, w)
    BY DEF TabInv
  <2>2. CASE v = u /\ w = t
    <3> SUFFICES ASSUME Tail(q) # <<>>
                 PROVE  LastWord(u, t)'
      BY <1>12, <2>2 DEF LastWord
    <3>1. Len(q) > 1
      BY <1>2
    <3>2. Latest(Tail(q)) = Latest(q)
      BY <1>2, <3>1 DEF Latest
    <3>3. m # "closing"
      <4>1. 1 \in 1 .. Len(q) /\ 1 # Len(q)
        BY <1>2, <3>1
      <4> QED BY <1>2, <1>3, <4>1
    <3>4. \A n \in 1 .. Len(Tail(q)) : Tail(q)[n] = "closing" => n = Len(Tail(q)) /\ ~up[u]
      <4> SUFFICES ASSUME NEW n \in 1 .. Len(Tail(q)), Tail(q)[n] = "closing"
                   PROVE  n = Len(Tail(q)) /\ ~up[u]
        OBVIOUS
      <4>1. n \in 1 .. Len(q) - 1 /\ n + 1 \in 1 .. Len(q)
        BY <1>2
      <4>2. q[n + 1] = "closing"
        BY <1>2, <4>1
      <4> DEFINE k == n + 1
      <4>3. k \in 1 .. Len(q) /\ q[k] = "closing"
        BY <4>1, <4>2
      <4> HIDE DEF k
      <4>4. k = Len(q) /\ ~up[u]
        BY <1>3, <4>3
      <4>5. Len(Tail(q)) = Len(q) - 1 /\ Len(q) \in Nat
        BY <1>2
      <4>6. n \in Nat
        BY <4>1, <4>5
      <4>7. n = Len(q) - 1
        BY <4>4, <4>5, <4>6 DEF k
      <4> QED BY <4>4, <4>5, <4>7
    <3>5. <<t, u>> \in blind /\ ~up[u] => <<t, u>> \in blind'
      BY <1>5, <3>3
    <3> QED BY <1>3, <1>5, <1>12, <3>2, <3>4, <3>5 DEF LastWord
  <2>3. CASE v = t /\ w # t /\ up[w] /\ ms # <<>>
    <3>1. queue'[t][w] = queue[t][w] \o ms
      BY <1>12, <2>3
    <3>2. \A n \in 1 .. Len(queue[t][w]) : queue[t][w][n] # "closing"
      <4>1. queue[t][w] = <<>> => Len(queue[t][w]) = 0
        OBVIOUS
      <4> QED BY <1>3, <2>1, <2>3, <4>1 DEF LastWord
    <3>3. /\ queue'[t][w] # <<>> /\ Latest(queue'[t][w]) = status[t]
          /\ \A n \in 1 .. Len(queue'[t][w]) : queue'[t][w][n] # "closing"
      <4>1. queue[t][w] \in Seq(Words)
        BY <1>1
      <4>2. queue[t][w] \o ms # <<>> /\ Latest(queue[t][w] \o ms) = Latest(ms)
        BY <1>9, <2>3, <4>1, Tacked
      <4>3. \A n \in 1 .. Len(queue[t][w] \o ms) : (queue[t][w] \o ms)[n] # "closing"
        BY <1>9, <2>3, <3>2, <4>1, TackedOpen
      <4> QED BY <1>10, <2>3, <3>1, <4>2, <4>3
    <3> QED BY <1>3, <1>5, <2>3, <3>3 DEF LastWord
  <2>4. CASE ~(v = u /\ w = t) /\ ~(v = t /\ w # t /\ up[w] /\ ms # <<>>)
    <3>1. queue'[v][w] = queue[v][w]
      <4>1. ms = <<>> => \A x \in Windows : queue[t][x] \o ms = queue[t][x]
        BY <1>1
      <4> QED BY <1>12, <2>4, <4>1
    <3> QED BY <1>5, <1>13, <2>1, <2>4, <3>1 DEF LastWord
  <2> QED BY <2>2, <2>3, <2>4
<1>21. ASSUME NEW w \in Windows, NEW v \in Windows
       PROVE  Abreast(w, v)'
  <2>1. Abreast(w, v)
    BY DEF TabInv
  <2>2. CASE w = t /\ v = u
    <3> SUFFICES ASSUME Tail(q) = <<>>, <<t, u>> \notin blind'
                 PROVE  others'[t][u] = IF up[u] THEN status[u] ELSE B!None
      BY <1>5, <1>12, <2>2 DEF Abreast
    <3>1. Len(q) = 1 /\ Latest(q) = m
      BY <1>2 DEF Latest
    <3>2. CASE up[u]
      BY <1>3, <1>4, <1>7, <1>14, <3>1, <3>2 DEF Presences
    <3>3. CASE ~up[u]
      BY <1>3, <1>5, <1>7, <1>14, <3>1, <3>3
    <3> QED BY <3>2, <3>3
  <2>3. CASE w = t /\ v # u /\ v # t
    BY <1>5, <1>7, <1>12, <1>13, <1>14, <1>18, <2>1, <2>3 DEF Abreast
  <2>4. CASE w = u /\ v = t
    <3> SUFFICES ASSUME up[u], <<u, t>> \notin blind', queue'[t][u] = <<>>
                 PROVE  others'[u][t] = status[t]
      BY <1>3, <1>5, <2>4 DEF Abreast
    <3>1. queue[t][u] = <<>> /\ ~new
      BY <1>3, <1>11, <1>18, <1>19
    <3>2. m # "closing"
      BY <1>2, <1>3
    <3>3. others[t][u] # B!None
      BY <3>1, <3>2 DEF new
    <3> QED BY <1>3, <1>13, <1>14, <2>1, <2>4, <3>1, <3>3 DEF Abreast
  <2>5. CASE w # t /\ v = t /\ w # u
    BY <1>3, <1>5, <1>7, <1>12, <1>13, <1>14, <1>18, <2>1, <2>5 DEF Abreast
  <2>6. CASE w # t /\ v # t
    BY <1>3, <1>5, <1>12, <1>13, <1>14, <2>1, <2>6 DEF Abreast
  <2>7. CASE w = v
    BY <2>7 DEF Abreast
  <2> QED BY <2>2, <2>3, <2>4, <2>5, <2>6, <2>7
<1> QED BY <1>16, <1>17, <1>20, <1>21 DEF TabInv

LEMMA TabStep ==
  ASSUME TabInv, [B!Next]_(B!tabVars)
  PROVE  TabInv'
<1>1. ASSUME NEW t \in Windows, NEW s \in Moods, B!Open(t, s) \/ B!Restart(t, s)
      PROVE  TabInv'
  <2>1. PICK own \in Presences : B!Start(t, s, own)
    <3>1. B!Initial(s) \in Presences /\ status[t] \in Presences
      BY DEF B!Initial, Presences, TabInv, TabTypes
    <3>2. s \in {"dnd", "invisible"} => s \in Presences
      BY DEF Presences
    <3> QED BY <1>1, <3>1, <3>2 DEF B!Open, B!Restart
  <2>2. \/ ~up[t] /\ (\A u \in Windows : B!Gone(t, u)) /\ blind' = blind
        \/ /\ up[t]
           /\ blind' = B!Sighted(t) \cup {<<t, u>> : u \in {v \in Windows \ {t} : up[v]}}
    BY <1>1 DEF B!Open, B!Restart
  <2> QED BY <2>1, <2>2, StartStep
<1>2. ASSUME NEW t \in Windows, B!Close(t) \/ B!Vanish(t)
      PROVE  TabInv'
  BY <1>2, EndStep
<1>3. ASSUME NEW t \in Windows, B!CheckIdle(t) \/ B!Activity(t) \/ B!Hide(t) \/ B!Show(t)
      PROVE  TabInv'
  <2>1. PICK s \in Presences, i \in BOOLEAN : up[t] /\ B!SetTabStatus(t, s, i)
    BY <1>3 DEF B!CheckIdle, B!Activity, B!Hide, B!Show, B!Explicit, Presences
  <2> QED BY <2>1, SayStep
<1>4. ASSUME NEW t \in Windows, NEW u \in Windows, B!Receive(u, t)
      PROVE  TabInv'
  BY <1>4, ReceiveStep
<1>5. CASE UNCHANGED (B!tabVars)
  BY <1>5 DEF B!tabVars, TabInv, TabTypes, SendsSeen, LastWord, Abreast, B!Seen
<1> QED BY <1>1, <1>2, <1>3, <1>4, <1>5 DEF B!Next

-----------------------------------------------------------------------------
(* The banner.                                                             *)

BannerTypes ==
  /\ onLine \in BOOLEAN /\ socket \in BOOLEAN /\ grace \in BOOLEAN /\ retry \in BOOLEAN
  /\ bannered \in BOOLEAN /\ everMet \in BOOLEAN /\ missed \in BOOLEAN /\ blip \in BOOLEAN

\* Good news is shown at once and stops the timers; anything else is shown once
\* its while is over.
ShowsState ==
  /\ internal = "connected" => visible = "connected" /\ ~retry /\ ~grace
  /\ ~missed /\ ~grace => visible = internal

\* What the banner knows, if it has heard of everything.
KnowsSocket ==
  everMet /\ ~missed /\ ~blip =>
    /\ internal = "connected" <=> socket
    /\ internal = "offline" => ~onLine
    /\ bannered /\ ~onLine /\ ~socket /\ ~retry => internal = "offline"

BannerInv == BannerTypes /\ ShowsState /\ KnowsSocket

LEMMA BannerInit ==
  ASSUME N!Init
  PROVE  BannerInv
BY DEF N!Init, BannerInv, BannerTypes, ShowsState, KnowsSocket

LEMMA BannerReached == BannerInv => N!BannerExplained
BY DEF BannerInv, BannerTypes, ShowsState, KnowsSocket, N!BannerExplained

LEMMA BannerStep ==
  ASSUME BannerInv, [N!Next]_(N!statusVars)
  PROVE  BannerInv'
<1> USE DEF BannerInv, BannerTypes, ShowsState, KnowsSocket
<1>1. CASE N!Connect
  BY <1>1 DEF N!Connect, N!SetState, N!Unheard
<1>2. CASE N!Disconnect
  BY <1>2 DEF N!Disconnect, N!Schedule, N!SetState, N!Unheard
<1>3. CASE N!Online
  BY <1>3 DEF N!Online, N!SetState, N!Unheard
<1>4. CASE N!Offline
  BY <1>4 DEF N!Offline, N!SetState, N!Unheard
<1>5. CASE N!Retry
  BY <1>5 DEF N!Retry, N!CanRetry, N!SetState
<1>6. CASE N!GraceOver
  BY <1>6 DEF N!GraceOver
<1>7. CASE N!RetryTimer
  BY <1>7 DEF N!RetryTimer, N!SetState
<1>8. CASE N!Mount
  BY <1>8 DEF N!Mount, N!SetState
<1>9. CASE N!Unmount
  BY <1>9 DEF N!Unmount
<1>10. CASE UNCHANGED (N!statusVars)
  BY <1>10 DEF N!statusVars
<1> QED
  BY <1>1, <1>2, <1>3, <1>4, <1>5, <1>6, <1>7, <1>8, <1>9, <1>10 DEF N!Next

-----------------------------------------------------------------------------
(* The chosen status.                                                      *)

\* The request of the last choice.
LastRequest(how, at) ==
  [id |-> choices - 1, view |-> lastChoice.view, how |-> how, status |-> lastChoice.status,
   at |-> at, heard |-> TRUE]

\* As long as nothing gets in its way, the request of the last choice is the only
\* one, or it was answered.
ChoiceUnderWay ==
  \E how, at : /\ at \in {"sent", "written"} /\ reqs = {LastRequest(how, at)}
               /\ at = "written" => standing = lastChoice.status

ChoiceDone ==
  reqs = {} /\ standing = lastChoice.status /\ store[lastChoice.view] = lastChoice.status

ChoiceInv ==
  /\ clean \in BOOLEAN /\ choices \in Nat /\ DOMAIN store = Views
  /\ clean => lastChoice.view \in Views /\ (ChoiceUnderWay \/ ChoiceDone)

LEMMA ChoiceInit ==
  ASSUME H!Init
  PROVE  ChoiceInv
BY DEF H!Init, ChoiceInv

LEMMA ChoiceReached == ChoiceInv => H!StatusKept
<1> SUFFICES ASSUME ChoiceInv, clean, reqs = {}
             PROVE  /\ standing = lastChoice.status
                    /\ standing \in H!Options =>
                         /\ H!Shown(lastChoice.view) = standing
                         /\ \A s \in H!Options : H!Pressed(lastChoice.view, s) <=> s = standing
  BY DEF H!StatusKept
<1>1. ChoiceDone
  BY DEF ChoiceInv, ChoiceUnderWay
<1> QED
  BY <1>1 DEF ChoiceDone, H!Shown, H!Pressed

\* A choice of the user.
LEMMA ChooseStatus ==
  ASSUME ChoiceInv, NEW v \in Views, NEW how, NEW s,
         H!Send(v, how, s), lastChoice' = [view |-> v, status |-> s], clean' = (reqs = {})
  PROVE  ChoiceInv'
<1>1. /\ choices' = choices + 1 /\ UNCHANGED <<standing, store>>
      /\ reqs = {} => reqs' = {H!Request(v, how, s)}
  BY DEF H!Send
<1>2. choices' \in Nat /\ choices' - 1 = choices
  BY <1>1 DEF ChoiceInv
<1>3. lastChoice'.view = v /\ lastChoice'.status = s
  OBVIOUS
<1>6. H!Request(v, how, s) = LastRequest(how, "sent")'
  BY <1>2, <1>3 DEF LastRequest, H!Request
<1>4. reqs = {} => ChoiceUnderWay'
  BY <1>1, <1>6 DEF ChoiceUnderWay
<1>5. DOMAIN store' = Views
  BY <1>1 DEF ChoiceInv
<1> QED
  BY <1>2, <1>3, <1>4, <1>5 DEF ChoiceInv

\* A request in flight, if nothing is in its way, is that of the last choice.
LEMMA OneRequest ==
  ASSUME ChoiceInv, clean, NEW r \in reqs
  PROVE  /\ lastChoice.view \in Views
         /\ \E how, at : /\ at \in {"sent", "written"} /\ r = LastRequest(how, at)
                         /\ reqs = {LastRequest(how, at)}
                         /\ at = "written" => standing = lastChoice.status
  BY DEF ChoiceInv, ChoiceUnderWay, ChoiceDone

LEMMA WritesStatus ==
  ASSUME ChoiceInv, NEW r \in reqs, H!PostPresence(r) \/ H!PatchProfile(r)
  PROVE  ChoiceInv'
<1>1. /\ r.at = "sent" /\ standing' = r.status /\ reqs' = H!Turned(r, "written")
      /\ UNCHANGED <<store, choices, lastChoice, clean>>
  BY DEF H!PostPresence, H!PatchProfile, H!Waiting
<1>2. ASSUME clean
      PROVE  lastChoice.view \in Views /\ ChoiceUnderWay'
  <2>1. PICK how, at : r = LastRequest(how, at) /\ reqs = {r}
    BY <1>2, OneRequest
  <2> DEFINE e == [r EXCEPT !.at = "written"]
             Fields == {"id", "view", "how", "status", "at", "heard"}
  <2>5. /\ DOMAIN r = Fields /\ r.id = choices - 1 /\ r.view = lastChoice.view /\ r.how = how
        /\ r.status = lastChoice.status /\ r.heard = TRUE
    BY <2>1 DEF LastRequest
  <2>6. /\ e = [x \in Fields |-> e[x]] /\ e.id = r.id /\ e.view = r.view /\ e.how = r.how
        /\ e.status = r.status /\ e.at = "written" /\ e.heard = r.heard
    BY <2>5
  <2> HIDE DEF e
  <2>7. e = LastRequest(how, "written")
    BY <2>5, <2>6 DEF LastRequest
  <2>2. [r EXCEPT !.at = "written"] = LastRequest(how, "written") /\ r.status = lastChoice.status
    BY <2>5, <2>7 DEF e
  <2>3. reqs' = {LastRequest(how, "written")}
    BY <1>1, <2>1, <2>2 DEF H!Turned
  <2>4. LastRequest(how, "written")' = LastRequest(how, "written")
    BY <1>1 DEF LastRequest
  <2> QED
    BY <1>1, <1>2, <2>2, <2>3, <2>4, OneRequest DEF ChoiceUnderWay
<1> QED
  BY <1>1, <1>2 DEF ChoiceInv

LEMMA RequestEnds ==
  ASSUME ChoiceInv, NEW r \in reqs, H!Refuse(r) \/ H!Answered(r)
  PROVE  ChoiceInv'
<1>1. CASE H!Refuse(r)
  <2>1. /\ clean' = (clean /\ r.id # choices - 1) /\ UNCHANGED <<store, choices>>
    BY <1>1 DEF H!Refuse
  <2>2. clean => r.id = choices - 1
    BY OneRequest DEF LastRequest
  <2> QED
    BY <2>1, <2>2 DEF ChoiceInv
<1>2. CASE H!Answered(r)
  <2>1. /\ r.at = "written" /\ reqs' = reqs \ {r}
        /\ store' = (IF r.heard THEN [store EXCEPT ![r.view] = r.status] ELSE store)
        /\ UNCHANGED <<standing, choices, lastChoice, clean>>
    BY <1>2 DEF H!Answered
  <2>2. DOMAIN store' = Views
    BY <2>1 DEF ChoiceInv
  <2>3. ASSUME clean
        PROVE  lastChoice.view \in Views /\ ChoiceDone'
    <3>1. PICK how, at : /\ r = LastRequest(how, at) /\ reqs = {r}
                         /\ (at = "written" => standing = lastChoice.status)
      BY <2>3, OneRequest
    <3>2. /\ r.view = lastChoice.view /\ r.status = lastChoice.status /\ r.heard = TRUE
          /\ at = "written"
      BY <2>1, <3>1 DEF LastRequest
    <3>3. store' = [store EXCEPT ![lastChoice.view] = lastChoice.status]
      BY <2>1, <3>2
    <3>4. lastChoice.view \in Views /\ DOMAIN store = Views
      BY <2>3, OneRequest DEF ChoiceInv
    <3>5. store'[lastChoice.view] = lastChoice.status
      BY <3>3, <3>4
    <3> QED
      BY <2>1, <3>1, <3>2, <3>4, <3>5 DEF ChoiceDone
  <2> QED
    BY <2>1, <2>2, <2>3 DEF ChoiceInv
<1> QED
  BY <1>1, <1>2

\* A page is rendered with the row, or a cleanup goes on.
LEMMA RowTaken ==
  ASSUME ChoiceInv, UNCHANGED <<reqs, choices, lastChoice>>, clean' \in BOOLEAN,
         clean' => clean /\ standing' = standing,
         store' = store \/ \E v : store' = [store EXCEPT ![v] = standing]
  PROVE  ChoiceInv'
<1>1. DOMAIN store' = Views
  BY DEF ChoiceInv
<1>2. \A h, a : LastRequest(h, a)' = LastRequest(h, a)
  BY DEF LastRequest
<1>3. ASSUME clean'
      PROVE  lastChoice'.view \in Views /\ (ChoiceUnderWay' \/ ChoiceDone')
  <2>1. clean /\ standing' = standing
    BY <1>3
  <2>2. CASE ChoiceUnderWay
    BY <1>2, <2>1, <2>2 DEF ChoiceInv, ChoiceUnderWay
  <2>3. CASE ChoiceDone
    BY <2>1, <2>3 DEF ChoiceInv, ChoiceDone
  <2> QED
    BY <2>1, <2>2, <2>3 DEF ChoiceInv
<1> QED
  BY <1>1, <1>3 DEF ChoiceInv

LEMMA ChoiceStep ==
  ASSUME ChoiceInv, [H!Next]_(H!choiceVars)
  PROVE  ChoiceInv'
<1>1. ASSUME NEW v \in Views, NEW how, NEW s, H!Choose(v, how, s) \/ H!SaveForm(v)
      PROVE  ChoiceInv'
  <2>1. \E h, t : /\ H!Send(v, h, t) /\ lastChoice' = [view |-> v, status |-> t]
                  /\ clean' = (reqs = {})
    BY <1>1 DEF H!Choose, H!SaveForm
  <2> QED
    BY <2>1, ChooseStatus
<1>2. ASSUME \/ H!GoStale \/ UNCHANGED (H!choiceVars)
             \/ \E v : H!OpenForm(v) \/ H!CloseForm(v) \/ H!Render(v)
             \/ \E v, s : H!PickInForm(v, s)
             \/ \E w : H!SweepSelect(w) \/ H!SweepFails(w)
      PROVE  ChoiceInv'
  <2>1. /\ UNCHANGED <<standing, reqs, choices, lastChoice, clean>>
        /\ store' = store \/ \E v : store' = [store EXCEPT ![v] = standing]
    BY <1>2 DEF H!GoStale, H!choiceVars, H!OpenForm, H!CloseForm, H!Render, H!PickInForm,
                H!SweepSelect, H!SweepFails
  <2>2. clean \in BOOLEAN
    BY DEF ChoiceInv
  <2> QED
    BY <2>1, <2>2, RowTaken
<1>3. ASSUME NEW w, H!SweepUpdate(w)
      PROVE  ChoiceInv'
  <2>1. /\ UNCHANGED <<store, reqs, choices, lastChoice>>
        /\ clean' = (clean /\ sweep[w] = "beaten")
        /\ standing' = (IF sweep[w] = "picked" THEN "offline" ELSE standing)
    BY <1>3 DEF H!SweepUpdate
  <2>2. clean' \in BOOLEAN /\ (clean' => clean /\ standing' = standing)
    BY <2>1
  <2> QED
    BY <2>1, <2>2, RowTaken
<1> QED
  BY <1>1, <1>2, <1>3, WritesStatus, RequestEnds DEF H!Next

-----------------------------------------------------------------------------
(* The media picker.                                                       *)

Texts == Queries \cup Named \cup {Trending}

\* A request is for a text, or for none.
IsRequest(c) == DOMAIN c = {"of", "reply"} /\ c.of \in Texts \cup {G!None}

PickerTypes ==
  /\ popped \in BOOLEAN /\ timer \subseteq G!Feeds /\ loading \subseteq G!Searches
  /\ query \in [G!Searches -> Texts]
  /\ DOMAIN flight = G!Feeds /\ \A f \in G!Feeds : IsRequest(flight[f])
  /\ DOMAIN results = G!Feeds

\* A search is due, or under way, for the text in the field of a tab that is open.
Searching ==
  \A f \in G!Feeds :
    /\ f \in timer => popped /\ tab = G!TabOf(f)
    /\ flight[f] # G!NoRequest => popped /\ tab = G!TabOf(f) /\ flight[f].of = G!QueryOf(f)
    /\ flight[f].of = G!None => flight[f] = G!NoRequest
    /\ f \in loading => flight[f] # G!NoRequest

\* A tab without one shows what was found for it.
FoundIt ==
  \A s \in G!Searches :
    popped /\ tab = s /\ s \notin timer /\ flight[s] = G!NoRequest => results[s].of = query[s]

PickerInv == PickerTypes /\ Searching /\ FoundIt

LEMMA PickerInit ==
  ASSUME G!Init
  PROVE  PickerInv
<1>1. query \in [G!Searches -> Texts]
  BY DEF G!Init, Texts
<1>2. /\ popped = FALSE /\ timer = {} /\ loading = {} /\ flight = [f \in G!Feeds |-> G!NoRequest]
      /\ DOMAIN results = G!Feeds
  BY DEF G!Init
<1>3. PickerTypes
  BY <1>1, <1>2 DEF PickerTypes, IsRequest, G!NoRequest
<1>4. Searching /\ FoundIt
  BY <1>2 DEF Searching, FoundIt
<1> QED
  BY <1>3, <1>4 DEF PickerInv

LEMMA PickerReached == PickerInv => G!ResultsAgree
<1> SUFFICES ASSUME PickerInv
             PROVE  G!ResultsAgree
  OBVIOUS
<1>1. G!Searches \subseteq G!Feeds /\ \A s \in G!Searches : G!QueryOf(s) = query[s] /\ G!TabOf(s) = s
  BY DEF G!Searches, G!Feeds, G!QueryOf, G!TabOf
<1> QED
  BY <1>1 DEF PickerInv, PickerTypes, Searching, FoundIt, G!ResultsAgree

\* Whatever the picker is to show: the feeds that it concerns start again.
LEMMA ShowStep ==
  ASSUME PickerInv, NEW o \in BOOLEAN, NEW t, NEW qs \in [G!Searches -> Texts], G!Show(o, t, qs)
  PROVE  PickerInv'
<1> DEFINE D1 == {f \in G!Feeds : o # popped \/ t # tab
       \/ (IF f = "sticker" THEN qs["sticker"] # query["sticker"] ELSE qs["gif"] # query["gif"])}
<1>1. popped' = o /\ tab' = t /\ query' = qs /\ G!Effects(o, t, qs, D1)
  BY DEF G!Show
<1>2. /\ D1 \subseteq G!Feeds
      /\ \A f \in G!Feeds \ D1 : o = popped /\ t = tab /\ G!QueryOf(f)' = G!QueryOf(f)
  BY <1>1 DEF G!QueryOf
<1> HIDE DEF D1
<1>3. /\ timer' = (timer \ D1) \cup {f \in D1 : G!Wanted(f, o, t, qs)}
      /\ flight' = [f \in G!Feeds |-> IF f \in D1 THEN G!NoRequest ELSE flight[f]]
      /\ loading' = {f \in loading : f \notin D1}
      /\ DOMAIN results' = G!Feeds
      /\ \A s \in G!Searches : results'[s] = results[s]
  BY <1>1 DEF G!Effects, G!Searches, G!Feeds
<1>4. IsRequest(G!NoRequest)
  BY DEF IsRequest, G!NoRequest
<1>5. PickerTypes'
  BY <1>1, <1>2, <1>3, <1>4 DEF PickerInv, PickerTypes
<1>6. ASSUME NEW f \in G!Feeds
      PROVE  /\ f \in timer' => popped' /\ tab' = G!TabOf(f)
             /\ flight'[f] # G!NoRequest =>
                  popped' /\ tab' = G!TabOf(f) /\ flight'[f].of = G!QueryOf(f)'
             /\ flight'[f].of = G!None => flight'[f] = G!NoRequest
             /\ f \in loading' => flight'[f] # G!NoRequest
  <2>1. CASE f \in D1
    BY <1>1, <1>3, <2>1 DEF G!Wanted
  <2>2. CASE f \notin D1
    BY <1>1, <1>2, <1>3, <2>2 DEF PickerInv, PickerTypes, Searching
  <2> QED
    BY <2>1, <2>2
<1>7. Searching'
  BY <1>6 DEF Searching, G!TabOf, G!NoRequest, G!None
<1>8. FoundIt'
  <2> SUFFICES ASSUME NEW s \in G!Searches, o, t = s, s \notin timer', flight'[s] = G!NoRequest
               PROVE  results'[s].of = qs[s]
    BY <1>1 DEF FoundIt, G!NoRequest, G!None
  <2>1. s \in G!Feeds /\ G!QueryOf(s) = query[s] /\ G!QueryOf(s)' = qs[s]
    BY <1>1 DEF G!Searches, G!Feeds, G!QueryOf
  <2>2. s \notin D1
    BY <1>3 DEF G!Wanted, G!TabOf, G!Searches
  <2>3. s \notin timer /\ flight[s] = G!NoRequest /\ popped /\ tab = s /\ qs[s] = query[s]
    BY <1>2, <1>3, <2>1, <2>2
  <2> QED
    BY <1>3, <2>3 DEF PickerInv, FoundIt
<1> QED
  BY <1>5, <1>7, <1>8 DEF PickerInv

\* One feed goes on: it starts its search, its answer is made, or it ends.
LEMMA FeedGoesOn ==
  ASSUME PickerInv, NEW f \in G!Feeds, NEW x, IsRequest(x),
         flight' = [flight EXCEPT ![f] = x],
         UNCHANGED <<popped, tab, query>>,
         timer' \subseteq timer, loading' \subseteq loading \cup {f}, loading' \subseteq G!Searches,
         DOMAIN results' = G!Feeds,
         \A g \in G!Feeds : g # f => results'[g] = results[g] /\ (g \in timer => g \in timer'),
         f \notin timer => timer' = timer,
         x # G!NoRequest => /\ x.of # G!None /\ x.of = G!QueryOf(f)
                            /\ popped /\ tab = G!TabOf(f),
         x = G!NoRequest => f \notin loading' /\ timer' = timer
                              /\ (f \in G!Searches => results'[f].of = G!QueryOf(f))
  PROVE  PickerInv'
<1>1. flight'[f] = x /\ \A g \in G!Feeds : g # f => flight'[g] = flight[g]
  BY DEF PickerInv, PickerTypes
<1>2. PickerTypes'
  <2>1. DOMAIN flight' = G!Feeds /\ \A g \in G!Feeds : IsRequest(flight'[g])
    BY <1>1 DEF PickerInv, PickerTypes
  <2>2. /\ popped' \in BOOLEAN /\ timer' \subseteq G!Feeds /\ loading' \subseteq G!Searches
        /\ query' \in [G!Searches -> Texts] /\ DOMAIN results' = G!Feeds
    BY DEF PickerInv, PickerTypes
  <2> QED
    BY <2>1, <2>2 DEF PickerTypes, IsRequest, G!None
<1>3. \A g \in G!Feeds : G!QueryOf(g)' = G!QueryOf(g)
  BY DEF G!QueryOf
<1>4. Searching'
  <2> SUFFICES ASSUME NEW g \in G!Feeds
               PROVE  /\ g \in timer' => popped /\ tab = G!TabOf(g)
                      /\ flight'[g] # G!NoRequest =>
                           popped /\ tab = G!TabOf(g) /\ flight'[g].of = G!QueryOf(g)
                      /\ flight'[g].of = G!None => flight'[g] = G!NoRequest
                      /\ g \in loading' => flight'[g] # G!NoRequest
    BY <1>3 DEF Searching, G!TabOf, G!NoRequest, G!None
  <2>1. CASE g = f
    BY <1>1, <2>1 DEF PickerInv, Searching
  <2>2. CASE g # f
    BY <1>1, <2>2 DEF PickerInv, Searching
  <2> QED
    BY <2>1, <2>2
<1>5. FoundIt'
  <2> SUFFICES ASSUME NEW s \in G!Searches, popped, tab = s, s \notin timer',
                      flight'[s] = G!NoRequest
               PROVE  results'[s].of = query[s]
    BY DEF FoundIt, G!NoRequest, G!None
  <2>1. s \in G!Feeds /\ G!QueryOf(s) = query[s]
    BY DEF G!Searches, G!Feeds, G!QueryOf
  <2>2. CASE s = f
    BY <1>1, <2>1, <2>2
  <2>3. CASE s # f
    BY <1>1, <2>1, <2>3 DEF PickerInv, FoundIt
  <2> QED
    BY <2>2, <2>3
<1> QED
  BY <1>2, <1>4, <1>5 DEF PickerInv

LEMMA DueStep ==
  ASSUME PickerInv, NEW f \in G!Feeds, G!None \notin Texts, G!Due(f)
  PROVE  PickerInv'
<1> DEFINE x == [of |-> G!QueryOf(f), reply |-> G!None]
<1>1. /\ f \in timer /\ timer' = timer \ {f} /\ flight' = [flight EXCEPT ![f] = x]
      /\ loading' = loading \cup ({f} \cap G!Searches)
      /\ UNCHANGED <<popped, tab, query, results>>
  BY DEF G!Due
<1>2. G!QueryOf(f) \in Texts
  BY DEF G!QueryOf, G!Searches, PickerInv, PickerTypes
<1>3. IsRequest(x) /\ x.of = G!QueryOf(f) /\ x.of # G!None /\ x # G!NoRequest
  BY <1>2 DEF IsRequest, G!NoRequest
<1> HIDE DEF x
<1>4. popped /\ tab = G!TabOf(f) /\ DOMAIN results' = G!Feeds /\ loading' \subseteq G!Searches
  BY <1>1 DEF PickerInv, PickerTypes, Searching
<1> QED
  BY <1>1, <1>3, <1>4, FeedGoesOn

\* What a request under way is.
LEMMA UnderWay ==
  ASSUME PickerInv, NEW f \in G!Feeds, flight[f].of # G!None
  PROVE  /\ IsRequest(flight[f]) /\ flight[f] # G!NoRequest
         /\ popped /\ tab = G!TabOf(f) /\ flight[f].of = G!QueryOf(f)
         /\ loading \subseteq G!Searches /\ DOMAIN results = G!Feeds
<1>1. G!NoRequest.of = G!None
  BY DEF G!NoRequest
<1>2. flight[f] # G!NoRequest
  BY <1>1
<1> QED
  BY <1>2 DEF PickerInv, PickerTypes, Searching

LEMMA ReplyStep ==
  ASSUME PickerInv, NEW f \in G!Feeds, flight[f].of # G!None, NEW r, G!Reply(f, r),
         UNCHANGED <<popped, tab, query, timer, loading, results>>
  PROVE  PickerInv'
<1> DEFINE c == flight[f]
           x == [c EXCEPT !.reply = r]
<1>1. IsRequest(c)
  BY UnderWay
<1>2. IsRequest(x) /\ x.of = c.of
  BY <1>1 DEF IsRequest
<1>3. flight' = [flight EXCEPT ![f] = x]
  BY DEF G!Reply
<1>4. x # G!NoRequest
  BY <1>2 DEF G!NoRequest
<1> HIDE DEF x
<1> QED
  BY <1>2, <1>3, <1>4, UnderWay, FeedGoesOn

LEMMA FeedEnds ==
  ASSUME PickerInv, NEW f \in G!Feeds, G!Answer(f) \/ G!Lose(f)
  PROVE  PickerInv'
<1>1. /\ flight[f].of # G!None /\ flight' = [flight EXCEPT ![f] = G!NoRequest]
      /\ loading' = loading \ {f} /\ UNCHANGED <<popped, tab, query, timer>>
  BY DEF G!Answer, G!Lose
<1>2. /\ DOMAIN results' = G!Feeds
      /\ \A g \in G!Feeds : g # f => results'[g] = results[g]
      /\ f \in G!Searches => results'[f].of = flight[f].of
  <2> DEFINE a == [of |-> flight[f].of, what |-> flight[f].reply]
             b == [of |-> flight[f].of, what |-> "nothing"]
  <2>1. DOMAIN results = G!Feeds
    BY <1>1, UnderWay
  <2>2. \/ results' = [results EXCEPT ![f] = a]
        \/ results' = [results EXCEPT ![f] = b]
        \/ results' = results /\ f = "suggest"
    BY DEF G!Answer, G!Lose
  <2>3. a.of = flight[f].of /\ b.of = flight[f].of
    OBVIOUS
  <2>4. "suggest" \notin G!Searches
    BY DEF G!Searches
  <2> HIDE DEF a, b
  <2> QED
    BY <2>1, <2>2, <2>3, <2>4
<1>3. IsRequest(G!NoRequest)
  BY DEF G!NoRequest, IsRequest
<1> QED
  BY <1>1, <1>2, <1>3, UnderWay, FeedGoesOn

LEMMA PickerStep ==
  ASSUME G!None \notin Texts, PickerInv, [G!Next]_(G!pickVars)
  PROVE  PickerInv'
<1> DEFINE Same == UNCHANGED <<popped, tab, query, timer, flight, loading, results>>
<1>1. Same => PickerInv'
  BY DEF PickerInv, PickerTypes, IsRequest, Searching, FoundIt, G!TabOf, G!QueryOf,
         G!NoRequest, G!None
<1>2. popped \in BOOLEAN /\ query \in [G!Searches -> Texts]
  BY DEF PickerInv, PickerTypes
<1>3. ASSUME G!Toggle \/ G!Dismiss \/ G!TakeEmoji \/ (\E t : G!PickTab(t)) \/ (\E s : G!Take(s))
      PROVE  PickerInv'
  <2>1. \E o \in BOOLEAN : \E t : G!Show(o, t, query)
    BY <1>2, <1>3 DEF G!Toggle, G!Dismiss, G!TakeEmoji, G!PickTab, G!Take
  <2> QED
    BY <1>2, <2>1, ShowStep
<1>4. ASSUME NEW s \in G!Searches, NEW q \in G!TextsOf(s), G!Search(s, q) \/ G!Command(s, q)
      PROVE  PickerInv'
  <2> DEFINE qs == [query EXCEPT ![s] = q]
  <2>1. q \in Texts
    BY DEF G!TextsOf, Texts
  <2>2. qs \in [G!Searches -> Texts]
    BY <1>2, <2>1
  <2>3. G!Show(TRUE, s, qs)
    BY <1>4 DEF G!Search, G!Command
  <2> HIDE DEF qs
  <2> QED
    BY <2>2, <2>3, ShowStep
<1>5. ASSUME NEW q \in Queries, G!TakeSuggestion(q)
      PROVE  PickerInv'
  <2>1. "gif" \in G!Searches /\ q \in G!TextsOf("gif") /\ G!Search("gif", q)
    BY <1>5 DEF G!TakeSuggestion, G!Searches, G!TextsOf
  <2> QED
    BY <1>4, <2>1
<1>6. ASSUME NEW f \in G!Feeds, NEW ok \in BOOLEAN, G!Serve(f, ok) \/ G!Refuse(f)
      PROVE  PickerInv'
  <2>1. /\ flight[f].of # G!None /\ \E r : G!Reply(f, r)
        /\ UNCHANGED <<popped, tab, query, timer, loading, results>>
    BY <1>6 DEF G!Serve, G!Refuse
  <2> QED
    BY <2>1, ReplyStep
<1>7. ASSUME NEW f \in G!Feeds, G!Due(f) \/ G!Answer(f) \/ G!Lose(f)
      PROVE  PickerInv'
  BY <1>7, DueStep, FeedEnds
<1>8. CASE G!Sent \/ UNCHANGED (G!pickVars) \/ \E f, q : G!Expire(f, q)
  BY <1>1, <1>8 DEF G!Sent, G!pickVars, G!Expire
<1> QED
  BY <1>3, <1>4, <1>5, <1>6, <1>7, <1>8 DEF G!Next

-----------------------------------------------------------------------------
(* The parts together.                                                     *)

\* A step of MCAccounts is one of the part that runs.
LEMMA PartsStep ==
  ASSUME [Next]_vars
  PROVE  /\ part' = part
         /\ part = "registration" => [R!Next]_(R!regVars)
         /\ part = "sign-in" => /\ [S!Next]_(S!signVars)
                                /\ UNCHANGED S!signVars => UNCHANGED vars
         /\ part = "step-up" => [U!Next]_(U!stepVars)
         /\ part = "connections" => [C!Next]_(C!linkVars)
         /\ part = "limits" => [L!Next]_(L!limitVars)
         /\ part = "avatar" => [V!Next]_(V!avatarVars)
         /\ part = "pins" => [I!Next]_(I!pinVars)
         /\ part = "migration" => [M!Next]_(M!migrationVars)
         /\ part = "devices" => [D!Next]_(D!pushVars)
         /\ part = "topic" => [T!Next]_(T!ntfyVars)
         /\ part = "fan-out" => [F!Next]_(F!fanoutVars)
         /\ part = "preferences" => [P!Next]_(P!prefVars)
         /\ part = "appearance" => [A!Next]_(A!appearVars)
         /\ part = "offline" => [O!Next]_(O!cacheVars)
         /\ part = "tabs" => [B!Next]_(B!tabVars)
         /\ part = "banner" => [N!Next]_(N!statusVars)
         /\ part = "status" => [H!Next]_(H!choiceVars)
         /\ part = "picker" => [G!Next]_(G!pickVars)
<1>1. CASE UNCHANGED vars
  BY <1>1 DEF vars, R!regVars, S!signVars, U!stepVars, C!linkVars, L!limitVars,
              V!avatarVars, I!pinVars, M!migrationVars, D!pushVars, T!ntfyVars, F!fanoutVars,
              P!prefVars, A!appearVars, O!cacheVars, B!tabVars, N!statusVars, H!choiceVars,
              G!pickVars
<1>2. CASE Next
  <2>1. CASE part = "registration"
    BY <1>2, <2>1 DEF Next
  <2>2. CASE part = "sign-in"
    <3>1. S!Next /\ UNCHANGED after9 /\ UNCHANGED part
      BY <1>2, <2>2 DEF Next
    <3>2. UNCHANGED S!signVars => UNCHANGED vars
      BY <3>1 DEF vars, S!signVars, after9, after10, after11, after12, after13
    <3> QED
      BY <2>2, <3>1, <3>2
  <2>3. CASE part = "step-up"
    BY <1>2, <2>3 DEF Next
  <2>4. CASE part = "connections"
    BY <1>2, <2>4 DEF Next
  <2>5. CASE part = "limits"
    BY <1>2, <2>5 DEF Next
  <2>6. CASE part \in {"avatar", "pins", "migration", "devices", "topic", "fan-out"}
    BY <1>2, <2>6 DEF Next
  <2>7. CASE part \in {"preferences", "appearance", "offline", "tabs"}
    BY <1>2, <2>7 DEF Next
  <2>8. CASE part \in {"banner", "status", "picker"}
    BY <1>2, <2>8 DEF Next
  <2> QED
    BY <1>2, <2>1, <2>2, <2>3, <2>4, <2>5, <2>6, <2>7, <2>8 DEF Next
<1> QED
  BY <1>1, <1>2

\* One re-authentication (POST /api/auth/step-up) pays for one change, made by
\* its own user, and no click of requireStepUp is left without an answer: for
\* any number of people, buttons and proofs, but for the overlaps it names.
THEOREM StepUpAccounted ==
  ASSUME "none" \notin Buttons
  PROVE  Spec => []ProofsAccounted
<1> DEFINE Inv == part = "step-up" => StepUpInv
<1>1. Init => Inv
  BY StepUpInit DEF Init
<1>2. Inv /\ [Next]_vars => Inv'
  BY PartsStep, StepUpStep
<1>3. Inv => ProofsAccounted
  BY DEF ProofsAccounted, StepUpInv, Owned, Spent, Answered, U!ProofsAccounted,
         U!ProofIsOwn
<1> QED
  BY <1>1, <1>2, <1>3, PTL DEF Spec

\* The callbacks of Steam and YouTube write a connection for the user who set
\* out to make it, for any number of people, browsers and flows, unless the
\* browser changed hands while the flow was under way.
THEOREM ConnectionsByStarter == Spec => []LinkedByStarter
<1> DEFINE Inv == part = "connections" => ConnectionInv
<1>1. Init => Inv
  BY ConnectionInit DEF Init
<1>2. Inv /\ [Next]_vars => Inv'
  BY PartsStep, ConnectionStep
<1>3. Inv => LinkedByStarter
  BY DEF LinkedByStarter, ConnectionInv, C!LinkedByStarter
<1> QED
  BY <1>1, <1>2, <1>3, PTL DEF Spec

\* The lockout of /sign-in/email is read before the password is compared and
\* written after: for any number of clients, each of them gets at most one
\* guess beyond the limit.  checkLimit lets no more in within its window than
\* its limit, for any number of callers, clocks that far apart and ages of its
\* memory, unless it forgot: a restart, or a change of where it counts.
THEOREM LockoutBounds ==
  ASSUME IsFiniteSet(Clients), Clients # {}, MaxAttempts \in Nat, LimitNumbers
  PROVE  Spec => []GuessesBounded
<1> DEFINE Inv == /\ part = "sign-in" => SignInInv
                  /\ part = "limits" => LimitInv
<1>1. Init => Inv
  BY SignInInit, LimitInit DEF Init
<1>2. Inv /\ [Next]_vars => Inv'
  BY PartsStep, SignInStep, LimitStep
<1>3. Inv => GuessesBounded
  BY WindowCounted DEF GuessesBounded, SignInInv
<1> QED
  BY <1>1, <1>2, <1>3, PTL DEF Spec

\* enforceLoginRisk, at the password and again at the second factor: whoever
\* was refused for the risk of their place neither gets a session there nor
\* becomes the baseline by trying again, in whatever way, unless it was for
\* lack of a second factor that the account has by now.  And whoever
\* checkLimit refuses is refused with reason, and told a time at which there
\* is room.
THEOREM RefusalsHold ==
  ASSUME IsFiniteSet(Clients), Clients # {}, MaxAttempts \in Nat, LimitNumbers
  PROVE  Spec => RefusalHolds
<1> DEFINE Inv == /\ part = "sign-in" => SignInInv
                  /\ part = "limits" => LimitInv
           Holds == /\ part = "sign-in" => S!NoRefusedSession
                    /\ part = "limits" => L!RefusalsJust
<1>1. Init => Inv
  BY SignInInit, LimitInit DEF Init
<1>2. Inv /\ [Next]_vars => Inv' /\ [Holds]_vars
  BY PartsStep, SignInStep, LimitStep
<1> QED
  BY <1>1, <1>2, PTL DEF Spec, RefusalHolds

\* consumeInviteCode runs outside the INSERT's transaction: for any number of
\* sign-ups, identities, codes and uses, a code admits no more accounts than
\* it has uses, it loses a use only to a sign-up that raced another one for
\* its identity or was cut short, and whoever needs no invite was past the
\* hook before the first account existed.
THEOREM Admissions ==
  ASSUME "none" \notin Codes, "founder" \notin Codes, MaxUses \in Nat
  PROVE  Spec => []AdmissionsAccounted
<1> DEFINE Inv == part = "registration" => RegistrationInv
<1>1. Init => Inv
  BY RegistrationInit DEF Init
<1>2. Inv /\ [Next]_vars => Inv'
  BY PartsStep, RegistrationStep
<1>3. Inv => AdmissionsAccounted
  BY AdmissionsCounted DEF AdmissionsAccounted
<1> QED
  BY <1>1, <1>2, <1>3, PTL DEF Spec

\* /api/users/avatar prunes and writes in two steps, and /api/users/pinned counts
\* and inserts in two: for any number of pages, pictures and pins, the picture
\* that the row names is there outside the moment between the two, but for two
\* uploads at once, one that failed while it pruned, and a page that saved an
\* address it was opened with; no more than the limit is pinned and one for
\* each page that had counted before another one inserted; and a page at rest
\* lists what is pinned unless another page has changed it since.
THEOREM ProfileStays ==
  ASSUME IsFiniteSet(Pages), MaxPins \in Nat
  PROVE  Spec => []ProfileKept
<1> DEFINE Inv == /\ part = "avatar" => PictureInv
                  /\ part = "pins" => PinInv
<1>1. Init => Inv
  BY PictureInit, PinInit DEF Init
<1>2. Inv /\ [Next]_vars => Inv'
  BY PartsStep, PictureStep, PinStep
<1>3. Inv => ProfileKept
  BY PinsKept DEF ProfileKept, PictureInv
<1> QED
  BY <1>1, <1>2, <1>3, PTL DEF Spec

\* The scripts of packages/db/src/migration, run beside the live application,
\* stopped by any error and killed at any step: for any number of users,
\* writes and scripts, a pipeline that ended with "Migration complete." has
\* lost no write that its snapshot could see, a target that is there was
\* loaded to its end unless an import was killed or could not clean up, every
\* row refers to one that is there, and nobody has a credential twice or a file that is missing,
\* unless the secrets were imported again.
THEOREM MigrationHolds ==
  ASSUME MaxWrites \in Nat
  PROVE  Spec => []MigrationAccounted
<1> DEFINE Inv == part = "migration" => MoveInv
<1>1. Init => Inv
  BY MoveInit DEF Init
<1>2. Inv /\ [Next]_vars => Inv'
  BY PartsStep, MoveStep
<1>3. Inv => MigrationAccounted
  BY MoveCounted DEF MigrationAccounted
<1> QED
  BY <1>1, <1>2, <1>3, PTL DEF Spec

\* use-push-notifications and the worker (sw.src.js), /api/push/ntfy, and the
\* sends of lib/push.ts: for any number of accounts, calls, endpoints, pages,
\* topics and users, once the pages and the worker of a browser are at rest its
\* endpoint has a row for the account signed in, unless a page failed to
\* register it; what a settings page shows of the topic is so, unless it has
\* missed a change, and what is sent to a topic goes to the one there is unless
\* it was read before a rotation; and a push goes to nobody who has not been
\* entitled to it since it set out, and to everybody who has been so all along,
\* unless a read of it failed.
THEOREM DeliveriesHold ==
  ASSUME Day \in Nat \ {0}
  PROVE  Spec => []DeliveriesKept
<1> DEFINE Inv == /\ part = "devices" => DeviceInv
                  /\ part = "topic" => TopicInv
                  /\ part = "fan-out" => FanOutInv
<1>1. Init => Inv
  BY DeviceInit, TopicInit, FanOutInit DEF Init
<1>2. Inv /\ [Next]_vars => Inv'
  BY PartsStep, DeviceStep, TopicStep, FanOutStep
<1>3. Inv => DeliveriesKept
  BY DeviceReached, TopicShown, Entitlement DEF DeliveriesKept
<1> QED
  BY <1>1, <1>2, <1>3, PTL DEF Spec

\* ChatPreferences and use-appearance-sync with the routes they save to: for any
\* number of pages, devices, users and requests, what a user has changed last is
\* what the row and the page at rest have, and the look that he has chosen last
\* is in the column once every device has been heard, and on a device that has
\* synced, but for the ways of losing it that PreferencesKept and AppearanceKept
\* name.
THEOREM SettingsHold ==
  ASSUME A!None \notin Values \cup {Default}
  PROVE  Spec => []SettingsKept
<1> DEFINE Inv == /\ part = "preferences" => PreferenceInv
                  /\ part = "appearance" => AppearanceInv
<1>1. Init => Inv
  BY PreferenceInit, AppearanceInit DEF Init
<1>2. Inv /\ [Next]_vars => Inv'
  BY PartsStep, PreferenceStep, AppearanceStep
<1>3. Inv => SettingsKept
  BY PreferencesReached, AppearanceReached DEF SettingsKept
<1> QED
  BY <1>1, <1>2, <1>3, PTL DEF Spec

\* The caches of the worker, the tabs of a browser, the banner, the status menu
\* and the media picker: for any number of accounts, requests, tabs and
\* searches, what the page of an account is given from a cache or a badge is
\* its own, unless it came late or the account came past the login page; tabs
\* that have heard each other have sent the same aggregate; the banner says
\* what the socket and the network are; a chosen status is in the row and in
\* the store; and the picker shows the answer to the search it shows.
THEOREM PagesHold ==
  ASSUME G!None \notin Texts
  PROVE  Spec => []PagesAgree
<1> DEFINE Inv == /\ part = "offline" => CacheInv
                  /\ part = "tabs" => TabInv
                  /\ part = "banner" => BannerInv
                  /\ part = "status" => ChoiceInv
                  /\ part = "picker" => PickerInv
<1>1. Init => Inv
  BY CacheInit, TabInit, BannerInit, ChoiceInit, PickerInit DEF Init
<1>2. Inv /\ [Next]_vars => Inv'
  BY PartsStep, CacheStep, TabStep, BannerStep, ChoiceStep, PickerStep
<1>3. Inv => PagesAgree
  BY CacheReached, TabReached, BannerReached, ChoiceReached, PickerReached DEF PagesAgree
<1> QED
  BY <1>1, <1>2, <1>3, PTL DEF Spec
=============================================================================
