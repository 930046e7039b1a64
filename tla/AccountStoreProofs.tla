-------------------------- MODULE AccountStoreProofs --------------------------
(***************************************************************************)
(* Theorems about AccountStore, for any accounts, passwords and number of  *)
(* requests that overlap.                                                  *)
(***************************************************************************)
EXTENDS AccountStore, FiniteSetTheorems, SequenceTheorems, TLAPS

-----------------------------------------------------------------------------
(* The inductive invariant: the kinds of the variables and of what an       *)
(* operation keeps between its calls, and the queue of the lock.            *)

Key == Password \X Nat
KeyOrNone == Key \cup {None}
Stored == Seq(Key)
Table == [Email -> Stored \cup {None}]

\* What an operation keeps between two database calls.
Reencrypting == {"set_salt", "set_hash", "set_sessions", "set_accounts"}
Call ==
    {Idle}
    \cup [call : {"unlock_salt"}, password : Password]
    \cup [call : {"unlock_hash"}, password : Password, salt_b64 : Nat \cup {None}]
    \cup [call : {"set_read"}, new_password : Password \cup {None}, old_key : KeyOrNone]
    \cup [call : Reencrypting, old_key : KeyOrNone, was_encrypted : BOOLEAN, new_key : KeyOrNone]
    \cup [call : {"set_upsert"}, old_key : KeyOrNone, was_encrypted : BOOLEAN, new_key : KeyOrNone,
          stored : Stored, accounts : Table, email : Email]
    \cup [call : {"login_read", "delete"}, email : Email]
    \cup [call : {"login_upsert"}, stored : Stored, email : Email]

\* Why a change may have left the keys apart.
Reasons == {"cut", "locked", "raised", "deleted"}

TypeOK ==
    /\ salt \in Nat \cup {None} /\ hash \in KeyOrNone /\ master_key \in KeyOrNone
    /\ row \in Table
    /\ op \in [Op -> Call]
    /\ lock_queue \in Seq(Op)
    /\ salts \in Nat
    /\ serial \in BOOLEAN /\ disturbed \subseteq Reasons

\* The lock's queue holds each operation under way once.
Queued(o) == \E i \in 1..Len(lock_queue) : lock_queue[i] = o
QueueOK ==
    /\ \A o \in Op : Queued(o) <=> op[o].call # "none"
    /\ \A i, j \in 1..Len(lock_queue) : lock_queue[i] = lock_queue[j] => i = j
    /\ serial => Len(lock_queue) <= 1

-----------------------------------------------------------------------------
(* Lemmas on operations and the queue.                                      *)

ChangeLocals ==
    [call : Reencrypting, old_key : KeyOrNone, was_encrypted : BOOLEAN, new_key : KeyOrNone]
UpsertLocals ==
    [call : {"set_upsert"}, old_key : KeyOrNone, was_encrypted : BOOLEAN, new_key : KeyOrNone,
     stored : Stored, accounts : Table, email : Email]

\* Which locals an operation has at each of its calls.
LEMMA CallFields ==
    ASSUME NEW c \in Call
    PROVE  /\ c.call = "unlock_salt" => c.password \in Password
           /\ c.call = "unlock_hash" => c.password \in Password /\ c.salt_b64 \in Nat \cup {None}
           /\ c.call = "set_read" => c.new_password \in Password \cup {None} /\ c.old_key \in KeyOrNone
           /\ c.call \in Reencrypting => c \in ChangeLocals
           /\ c.call = "set_upsert" => c \in UpsertLocals
           /\ c.call \in {"login_read", "delete"} => c.email \in Email
           /\ c.call = "login_upsert" => c.stored \in Stored /\ c.email \in Email
<1>1. c = Idle => c.call = "none"
  BY DEF Idle
<1>2. \/ c = Idle
      \/ c \in [call : {"unlock_salt"}, password : Password]
      \/ c \in [call : {"unlock_hash"}, password : Password, salt_b64 : Nat \cup {None}]
      \/ c \in [call : {"set_read"}, new_password : Password \cup {None}, old_key : KeyOrNone]
      \/ c \in ChangeLocals
      \/ c \in UpsertLocals
      \/ c \in [call : {"login_read", "delete"}, email : Email]
      \/ c \in [call : {"login_upsert"}, stored : Stored, email : Email]
  BY DEF Call, ChangeLocals, UpsertLocals
<1>3. /\ c \in ChangeLocals => c.call \in Reencrypting
      /\ c \in UpsertLocals => c.call = "set_upsert"
  BY DEF ChangeLocals, UpsertLocals
<1> QED
  BY <1>1, <1>2, <1>3 DEF Reencrypting

Others(o) == Op \ {o}

Before(a, b) ==
    \E i, j \in 1..Len(lock_queue) : i < j /\ lock_queue[i] = a /\ lock_queue[j] = b

\* Whoever gets the lock is at the head of its queue.
LEMMA TurnIsHead ==
    ASSUME TypeOK, NEW o \in Op, NEW call, At(o, call)
    PROVE  /\ Len(lock_queue) \in Nat \ {0} /\ lock_queue[1] = o
           /\ Rest(o) = Tail(lock_queue)
           /\ Rest(o) \in Seq(Op) /\ Len(Rest(o)) = Len(lock_queue) - 1
           /\ \A i \in 1..Len(Rest(o)) : Rest(o)[i] = lock_queue[i + 1]
<1>1. lock_queue \in Seq(Op) /\ Len(lock_queue) \in Nat /\ DOMAIN lock_queue = 1..Len(lock_queue)
  BY LenProperties DEF TypeOK
<1>2. Turn \subseteq {1} /\ \E i \in Turn : lock_queue[i] = o
  BY DEF At, Turn
<1>3. 1 \in DOMAIN lock_queue /\ lock_queue[1] = o /\ (CHOOSE i \in Turn : lock_queue[i] = o) = 1
  BY <1>2 DEF Turn
<1>4. Len(lock_queue) \in Nat \ {0} /\ lock_queue # <<>>
  BY <1>1, <1>3, EmptySeq
<1>5. Rest(o) = SubSeq(lock_queue, 1, 0) \o SubSeq(lock_queue, 2, Len(lock_queue))
  <2>1. Rest(o) = Dequeued(1)
    BY <1>3 DEF Rest
  <2>2. 1 - 1 = 0 /\ 1 + 1 = 2
    OBVIOUS
  <2> QED
    BY <2>1, <2>2 DEF Dequeued
<1>6. Tail(lock_queue) = SubSeq(lock_queue, 2, Len(lock_queue)) /\ Tail(lock_queue) \in Seq(Op)
  BY <1>1, <1>4, TailIsSubSeq, HeadTailProperties
<1>7. Rest(o) = Tail(lock_queue)
  BY <1>5, <1>6, SubSeqEmpty, ConcatEmptySeq
<1> QED
  BY <1>1, <1>3, <1>4, <1>7, HeadTailProperties

\* What goes on to its next call queues up behind all others.
LEMMA GoesOn ==
    ASSUME TypeOK, QueueOK, NEW o \in Op, NEW call, At(o, call),
           NEW l \in Call, l.call # "none", Continue(o, l), serial' = serial
    PROVE  /\ op' \in [Op -> Call] /\ lock_queue' \in Seq(Op) /\ QueueOK'
           /\ op'[o] = l /\ \A a \in Others(o) : op'[a] = op[a]
           /\ \A a, b \in Others(o) : Before(a, b) => Before(a, b)'
           /\ \A a \in Others(o) : op[a].call # "none" => Before(a, o)'
           /\ \A a \in Op : ~Before(a, o)
<1> DEFINE n == Len(lock_queue)
<1>1. /\ n \in Nat \ {0} /\ lock_queue[1] = o /\ lock_queue \in Seq(Op)
      /\ \A i \in 1..n : lock_queue[i] \in Op
  BY TurnIsHead, LenProperties DEF TypeOK
<1>2. /\ lock_queue' \in Seq(Op) /\ Len(lock_queue') = n
      /\ \A i \in 1..(n - 1) : lock_queue'[i] = lock_queue[i + 1]
      /\ lock_queue'[n] = o
  BY <1>1, TurnIsHead, AppendProperties DEF Continue
<1>3. op' \in [Op -> Call] /\ op'[o] = l /\ \A a \in Others(o) : op'[a] = op[a]
  BY DEF Continue, TypeOK, Others
<1>4. \A i \in 2..n : i - 1 \in 1..(n - 1) /\ lock_queue'[i - 1] = lock_queue[i]
  BY <1>1, <1>2
<1>5. \A i \in 1..n : lock_queue[i] = o <=> i = 1
  BY <1>1 DEF QueueOK
<1>6. \A a \in Others(o) : (\E i \in 1..n : lock_queue[i] = a) <=> (\E i \in 1..(n - 1) : lock_queue'[i] = a)
  <2> TAKE a \in Others(o)
  <2>1. \A i \in 1..n : lock_queue[i] = a => i - 1 \in 1..(n - 1) /\ lock_queue'[i - 1] = a
    BY <1>1, <1>4 DEF Others
  <2>2. \A i \in 1..(n - 1) : lock_queue'[i] = a => i + 1 \in 1..n /\ lock_queue[i + 1] = a
    BY <1>1, <1>2
  <2> QED
    BY <2>1, <2>2
<1>7. QueueOK'
  <2>1. \A a \in Op : Queued(a)' <=> op'[a].call # "none"
    <3> TAKE a \in Op
    <3>1. CASE a = o
      BY <1>1, <1>2, <1>3, <3>1 DEF Queued
    <3>2. CASE a \in Others(o)
      <4>1. Queued(a)' <=> Queued(a)
        BY <1>1, <1>2, <1>6, <3>2 DEF Queued, Others
      <4> QED
        BY <4>1, <1>3, <3>2 DEF QueueOK
    <3> QED
      BY <3>1, <3>2 DEF Others
  <2>2. \A i, j \in 1..n : lock_queue'[i] = lock_queue'[j] => i = j
    <3>1. \A i \in 1..(n - 1) : i + 1 \in 1..n /\ lock_queue'[i] = lock_queue[i + 1] /\ lock_queue'[i] # o
      BY <1>1, <1>2, <1>5
    <3>2. \A i, j \in 1..n : lock_queue[i] = lock_queue[j] => i = j
      BY DEF QueueOK
    <3>3. \A i, j \in 1..(n - 1) : lock_queue'[i] = lock_queue'[j] => i = j
      <4> TAKE i, j \in 1..(n - 1)
      <4> HAVE lock_queue'[i] = lock_queue'[j]
      <4>1. i + 1 = j + 1
        BY <3>1, <3>2
      <4> QED
        BY <4>1, <1>1
    <3> QED
      BY <1>1, <1>2, <3>1, <3>3
  <2> QED
    BY <1>2, <2>1, <2>2 DEF QueueOK
<1>8. \A a, b \in Others(o) : Before(a, b) => Before(a, b)'
  <2> TAKE a, b \in Others(o)
  <2> HAVE Before(a, b)
  <2>1. PICK i, j \in 1..n : i < j /\ lock_queue[i] = a /\ lock_queue[j] = b
    BY DEF Before
  <2>2. i \in 2..n /\ j \in 2..n
    BY <1>1, <2>1 DEF Others
  <2>3. i - 1 \in 1..n /\ j - 1 \in 1..n /\ i - 1 < j - 1
    BY <1>1, <2>1, <2>2
  <2> QED
    BY <1>2, <1>4, <2>1, <2>2, <2>3 DEF Before
<1>9. \A a \in Others(o) : op[a].call # "none" => Before(a, o)'
  <2> TAKE a \in Others(o)
  <2> HAVE op[a].call # "none"
  <2>1. PICK i \in 1..(n - 1) : lock_queue'[i] = a
    BY <1>6 DEF QueueOK, Queued, Others
  <2> QED
    BY <1>1, <1>2, <2>1 DEF Before
<1>10. \A a \in Op : ~Before(a, o)
  BY <1>1, <1>5 DEF Before
<1> QED
  BY <1>2, <1>3, <1>7, <1>8, <1>9, <1>10

\* What returns leaves the order of the others as it is.
LEMMA GoesAway ==
    ASSUME TypeOK, QueueOK, NEW o \in Op, NEW call, At(o, call),
           Finish(o), serial' = serial
    PROVE  /\ op' \in [Op -> Call] /\ lock_queue' \in Seq(Op) /\ QueueOK'
           /\ op'[o] = Idle /\ \A a \in Others(o) : op'[a] = op[a]
           /\ \A a, b \in Others(o) : Before(a, b) => Before(a, b)'
           /\ \A a \in Op : ~Before(a, o)
<1> DEFINE n == Len(lock_queue)
<1>1. /\ n \in Nat \ {0} /\ lock_queue[1] = o /\ lock_queue \in Seq(Op)
      /\ \A i \in 1..n : lock_queue[i] \in Op
  BY TurnIsHead, LenProperties DEF TypeOK
<1>2. /\ lock_queue' \in Seq(Op) /\ Len(lock_queue') = n - 1
      /\ \A i \in 1..(n - 1) : lock_queue'[i] = lock_queue[i + 1]
  BY <1>1, TurnIsHead DEF Finish
<1>3. op' \in [Op -> Call] /\ op'[o] = Idle /\ \A a \in Others(o) : op'[a] = op[a]
  BY DEF Finish, TypeOK, Others, Call
<1>4. \A i \in 2..n : i - 1 \in 1..(n - 1) /\ lock_queue'[i - 1] = lock_queue[i]
  BY <1>1, <1>2
<1>5. \A i \in 1..n : lock_queue[i] = o <=> i = 1
  BY <1>1 DEF QueueOK
<1>6. \A i \in 1..(n - 1) : i + 1 \in 1..n /\ lock_queue'[i] = lock_queue[i + 1] /\ lock_queue'[i] # o
  BY <1>1, <1>2, <1>5
<1>7. QueueOK'
  <2>1. \A a \in Op : Queued(a)' <=> op'[a].call # "none"
    <3> TAKE a \in Op
    <3>1. CASE a = o
      <4>1. ~Queued(a)'
        BY <1>1, <1>2, <1>6, <3>1 DEF Queued
      <4> QED
        BY <1>3, <3>1, <4>1 DEF Idle
    <3>2. CASE a \in Others(o)
      <4>1. Queued(a)' => Queued(a)
        BY <1>1, <1>2, <1>6 DEF Queued
      <4>2. ASSUME Queued(a) PROVE Queued(a)'
        <5>1. PICK i \in 1..n : lock_queue[i] = a
          BY <4>2 DEF Queued
        <5>2. i \in 2..n
          BY <1>1, <5>1, <3>2 DEF Others
        <5> QED
          BY <1>1, <1>2, <1>4, <5>1, <5>2 DEF Queued
      <4> QED
        BY <4>1, <4>2, <1>3, <3>2 DEF QueueOK
    <3> QED
      BY <3>1, <3>2 DEF Others
  <2>2. \A i, j \in 1..(n - 1) : lock_queue'[i] = lock_queue'[j] => i = j
    <3> TAKE i, j \in 1..(n - 1)
    <3> HAVE lock_queue'[i] = lock_queue'[j]
    <3>1. i + 1 = j + 1
      BY <1>6 DEF QueueOK
    <3> QED
      BY <3>1, <1>1
  <2> QED
    BY <1>1, <1>2, <2>1, <2>2 DEF QueueOK
<1>8. \A a, b \in Others(o) : Before(a, b) => Before(a, b)'
  <2> TAKE a, b \in Others(o)
  <2> HAVE Before(a, b)
  <2>1. PICK i, j \in 1..n : i < j /\ lock_queue[i] = a /\ lock_queue[j] = b
    BY DEF Before
  <2>2. i \in 2..n /\ j \in 2..n
    BY <1>1, <2>1 DEF Others
  <2>3. i - 1 \in 1..(n - 1) /\ j - 1 \in 1..(n - 1) /\ i - 1 < j - 1
    BY <1>1, <2>1, <2>2
  <2> QED
    BY <1>2, <1>4, <2>1, <2>2, <2>3 DEF Before
<1>9. \A a \in Op : ~Before(a, o)
  BY <1>1, <1>5 DEF Before
<1> QED
  BY <1>2, <1>3, <1>7, <1>8, <1>9

\* A new request queues up last.
LEMMA Joins ==
    ASSUME TypeOK, QueueOK, NEW o \in Op, NEW l \in Call, l.call # "none", Request(o, l)
    PROVE  /\ op' \in [Op -> Call] /\ lock_queue' \in Seq(Op) /\ QueueOK'
           /\ op'[o] = l /\ \A a \in Others(o) : op'[a] = op[a]
           /\ \A a, b \in Others(o) : Before(a, b) => Before(a, b)'
<1> DEFINE n == Len(lock_queue)
<1>1. /\ n \in Nat /\ lock_queue \in Seq(Op) /\ \A i \in 1..n : lock_queue[i] \in Op
      /\ op[o].call = "none" /\ serial' = serial
  BY LenProperties DEF TypeOK, Request
<1>2. /\ lock_queue' \in Seq(Op) /\ Len(lock_queue') = n + 1
      /\ \A i \in 1..n : lock_queue'[i] = lock_queue[i]
      /\ lock_queue'[n + 1] = o
  BY <1>1, AppendProperties DEF Request
<1>3. op' \in [Op -> Call] /\ op'[o] = l /\ \A a \in Others(o) : op'[a] = op[a]
  BY DEF Request, TypeOK, Others
<1>4. \A i \in 1..n : lock_queue[i] # o
  BY <1>1 DEF QueueOK, Queued
<1>5. QueueOK'
  <2>1. \A a \in Op : Queued(a)' <=> op'[a].call # "none"
    <3> TAKE a \in Op
    <3>1. CASE a = o
      BY <1>1, <1>2, <1>3, <3>1 DEF Queued
    <3>2. CASE a \in Others(o)
      <4>1. Queued(a)' <=> Queued(a)
        BY <1>1, <1>2, <3>2 DEF Queued, Others
      <4> QED
        BY <4>1, <1>3, <3>2 DEF QueueOK
    <3> QED
      BY <3>1, <3>2 DEF Others
  <2>2. \A i, j \in 1..(n + 1) : lock_queue'[i] = lock_queue'[j] => i = j
    BY <1>1, <1>2, <1>4 DEF QueueOK
  <2>3. serial => n = 0
    BY EmptySeq DEF Request
  <2> QED
    BY <1>1, <1>2, <2>1, <2>2, <2>3 DEF QueueOK
<1>6. \A a, b \in Others(o) : Before(a, b) => Before(a, b)'
  <2> TAKE a, b \in Others(o)
  <2> HAVE Before(a, b)
  <2>1. PICK i, j \in 1..n : i < j /\ lock_queue[i] = a /\ lock_queue[j] = b
    BY DEF Before
  <2> QED
    BY <1>1, <1>2, <2>1 DEF Before
<1> QED
  BY <1>2, <1>3, <1>5, <1>6

-----------------------------------------------------------------------------
(* Every step keeps the kinds and the queue.                                *)

Basics == TypeOK /\ QueueOK

LEMMA Kinds ==
    /\ None \notin Key /\ None \notin Nat /\ None \notin Password /\ None \notin Stored
    /\ \A key \in KeyOrNone : Under(key) \in Stored
    /\ \A p \in Password, n \in Nat : derive_master_key(p, n) \in Key
    /\ \A key \in Key : key[2] \in Nat
<1>1. \A key \in KeyOrNone : Under(key) \in Stored
  <2>1. \A key \in Key : <<key>> \in Seq(Key)
    OBVIOUS
  <2>2. <<>> \in Seq(Key)
    OBVIOUS
  <2> QED
    BY <2>1, <2>2 DEF Under, KeyOrNone, Stored
<1> QED
  BY <1>1, StoreAssumption DEF Key, Stored, derive_master_key

\* A reading of stored credentials, and their new form.
LEMMA NewForm ==
    ASSUME NEW locals, locals.new_key \in KeyOrNone, NEW stored \in Stored
    PROVE  Reencrypted(locals, stored) \in Stored
<1>1. SubSeq(stored, 1, Len(stored) - 1) \in Seq(Key)
  <2>1. Len(stored) \in Nat /\ \A i \in 1..(Len(stored) - 1) : stored[i] \in Key
    BY DEF Stored
  <2> QED
    BY <2>1, SubSeqProperties
<1>2. Under(locals.new_key) \in Seq(Key)
  BY Kinds DEF Stored
<1> QED
  BY <1>1, <1>2, ConcatProperties DEF Reencrypted, Stored

\* The next account of a change, if there is one that can be decrypted.
NextLocals(o, accounts, e) ==
    [call |-> "set_upsert", old_key |-> op[o].old_key, was_encrypted |-> op[o].was_encrypted,
     new_key |-> op[o].new_key, stored |-> Reencrypted(op[o], accounts[e]),
     accounts |-> [accounts EXCEPT ![e] = None], email |-> e]

LEMMA NextLocalsKind ==
    ASSUME NEW o \in Op, NEW accounts \in Table, NEW e \in Email, accounts[e] # None,
           op[o].old_key \in KeyOrNone, op[o].was_encrypted \in BOOLEAN, op[o].new_key \in KeyOrNone
    PROVE  NextLocals(o, accounts, e) \in Call /\ NextLocals(o, accounts, e) \in UpsertLocals
<1>1. accounts[e] \in Stored /\ [accounts EXCEPT ![e] = None] \in Table
  BY DEF Table
<1>2. Reencrypted(op[o], accounts[e]) \in Stored
  BY <1>1, NewForm
<1>3. NextLocals(o, accounts, e) \in UpsertLocals
  BY <1>1, <1>2 DEF NextLocals, UpsertLocals
<1> QED
  BY <1>3 DEF Call, UpsertLocals

\* What the loop of set_master_password may do next.
LEMMA NextAccountCases ==
    ASSUME NEW o \in Op, NEW accounts, NextAccount(o, accounts)
    PROVE  \/ /\ \A e \in Email : accounts[e] = None
              /\ master_key' = op[o].new_key /\ Finish(o) /\ disturbed' = disturbed
           \/ /\ \E e \in Email : accounts[e] # None /\ Undecryptable(op[o], accounts[e])
              /\ Finish(o) /\ disturbed' = disturbed \cup {"raised"} /\ master_key' = master_key
           \/ \E e \in Email :
                /\ accounts[e] # None /\ ~Undecryptable(op[o], accounts[e])
                /\ Continue(o, NextLocals(o, accounts, e))
                /\ master_key' = master_key /\ disturbed' = disturbed
BY DEF NextAccount, NextLocals, KeyAfter

LEMMA SameBasics ==
    ASSUME Basics, UNCHANGED storeVars
    PROVE  Basics'
BY DEF Basics, TypeOK, QueueOK, Queued, storeVars, settingVars, countVars, Table, Call

LEMMA RequestBasics ==
    ASSUME Basics, NEW o \in Op, NEW l \in Call, l.call # "none", Request(o, l)
    PROVE  Basics'
<1>1. op' \in [Op -> Call] /\ lock_queue' \in Seq(Op) /\ QueueOK'
  BY Joins DEF Basics
<1> QED
  BY <1>1 DEF Basics, TypeOK, Request, settingVars

LEMMA RequestKinds ==
    ASSUME Basics, NEW o \in Op, Unlock(o) \/ SetMasterPassword(o) \/ Login(o) \/ Delete(o)
    PROVE  \E l \in Call :
             /\ Request(o, l)
             /\ l.call \in {"unlock_salt", "set_read", "login_read", "delete"}
             /\ l.call = "set_read" => l.old_key = master_key
<1>1. CASE Unlock(o)
  <2>1. PICK p \in Password : Request(o, [call |-> "unlock_salt", password |-> p])
    BY <1>1 DEF Unlock
  <2>2. [call |-> "unlock_salt", password |-> p] \in Call
    BY DEF Call
  <2> QED
    BY <2>1, <2>2
<1>2. CASE SetMasterPassword(o)
  <2> DEFINE l(p) == [call |-> "set_read", new_password |-> p, old_key |-> master_key]
  <2>1. PICK p \in Password \cup {None} : Request(o, l(p))
    BY <1>2 DEF SetMasterPassword
  <2>2. l(p) \in Call
    BY DEF Call, Basics, TypeOK
  <2>3. l(p).call = "set_read" /\ l(p).old_key = master_key
    OBVIOUS
  <2> QED
    BY <2>1, <2>2, <2>3
<1>3. CASE Login(o)
  <2>1. PICK e \in Email : Request(o, [call |-> "login_read", email |-> e])
    BY <1>3 DEF Login
  <2>2. [call |-> "login_read", email |-> e] \in Call
    BY DEF Call
  <2> QED
    BY <2>1, <2>2
<1>4. CASE Delete(o)
  <2>1. PICK e \in Email : Request(o, [call |-> "delete", email |-> e])
    BY <1>4 DEF Delete
  <2>2. [call |-> "delete", email |-> e] \in Call
    BY DEF Call
  <2> QED
    BY <2>1, <2>2
<1> QED
  BY <1>1, <1>2, <1>3, <1>4

\* The locals of whoever has the lock.
LEMMA TurnFields ==
    ASSUME Basics, NEW o \in Op, NEW call, At(o, call)
    PROVE  op[o] \in Call /\ op[o].call = call /\ op[o].call # "none"
<1>1. 1 \in 1..Len(lock_queue) /\ lock_queue[1] = o
  BY TurnIsHead DEF Basics
<1> QED
  BY <1>1 DEF Basics, TypeOK, QueueOK, Queued, At

\* A step that goes on, or returns, and leaves the rest well kinded.
LEMMA GoesOnBasics ==
    ASSUME Basics, NEW o \in Op, NEW call, At(o, call),
           Finish(o) \/ \E l \in Call : l.call # "none" /\ Continue(o, l),
           salt' \in Nat \cup {None}, hash' \in KeyOrNone, master_key' \in KeyOrNone,
           row' \in Table, salts' \in Nat, serial' = serial, disturbed' \subseteq Reasons
    PROVE  Basics'
<1>1. op' \in [Op -> Call] /\ lock_queue' \in Seq(Op) /\ QueueOK'
  BY GoesOn, GoesAway DEF Basics
<1> QED
  BY <1>1 DEF Basics, TypeOK

LEMMA NextAccountBasics ==
    ASSUME Basics, NEW o \in Op, NEW call, At(o, call), NEW accounts \in Table,
           op[o].old_key \in KeyOrNone, op[o].was_encrypted \in BOOLEAN, op[o].new_key \in KeyOrNone,
           NextAccount(o, accounts), row' \in Table, UNCHANGED <<settingVars, countVars>>
    PROVE  Basics'
<1>1. /\ Finish(o) \/ \E l \in Call : l.call # "none" /\ Continue(o, l)
      /\ master_key' \in KeyOrNone /\ disturbed' \subseteq Reasons
  <2>1. CASE \E e \in Email :
               /\ accounts[e] # None /\ ~Undecryptable(op[o], accounts[e])
               /\ Continue(o, NextLocals(o, accounts, e))
               /\ master_key' = master_key /\ disturbed' = disturbed
    <3>1. PICK e \in Email :
               /\ accounts[e] # None /\ Continue(o, NextLocals(o, accounts, e))
               /\ master_key' = master_key /\ disturbed' = disturbed
      BY <2>1
    <3>2. NextLocals(o, accounts, e) \in Call
      BY <3>1, NextLocalsKind
    <3>3. NextLocals(o, accounts, e).call # "none"
      BY DEF NextLocals
    <3> QED
      BY <3>1, <3>2, <3>3 DEF Basics, TypeOK
  <2> QED
    BY <2>1, NextAccountCases DEF Basics, TypeOK, Reasons
<1> QED
  BY <1>1, GoesOnBasics DEF Basics, TypeOK, settingVars, countVars

LEMMA StepBasics ==
    ASSUME Basics, NEW o \in Op, Step(o)
    PROVE  Basics'
<1> USE DEF settingVars, countVars
<1>1. CASE UnlockReadSalt(o)
  <2>1. At(o, "unlock_salt") /\ op[o].password \in Password
    BY <1>1, TurnFields, CallFields DEF UnlockReadSalt
  <2> DEFINE l == [call |-> "unlock_hash", password |-> op[o].password, salt_b64 |-> salt]
  <2>2. l \in Call /\ l.call # "none"
    BY <2>1 DEF Call, Basics, TypeOK
  <2>3. Continue(o, l)
    BY <1>1 DEF UnlockReadSalt
  <2> HIDE DEF l
  <2> QED
    BY <1>1, <2>1, <2>2, <2>3, GoesOnBasics DEF UnlockReadSalt, Basics, TypeOK
<1>2. CASE UnlockReadHash(o)
  <2>1. At(o, "unlock_hash") /\ op[o].password \in Password /\ op[o].salt_b64 \in Nat \cup {None}
    BY <1>2, TurnFields, CallFields DEF UnlockReadHash
  <2>2. master_key' \in KeyOrNone
    BY <1>2, <2>1, Kinds DEF UnlockReadHash, KeyOrNone, Basics, TypeOK
  <2> QED
    BY <1>2, <2>1, <2>2, GoesOnBasics DEF UnlockReadHash, Basics, TypeOK
<1>3. CASE SetRead(o)
  <2>1. /\ At(o, "set_read")
        /\ op[o].new_password \in Password \cup {None} /\ op[o].old_key \in KeyOrNone
    BY <1>3, TurnFields, CallFields DEF SetRead
  <2> DEFINE new == op[o].new_password
             key == IF new = None THEN None ELSE derive_master_key(new, salts + 1)
             l == [call |-> "set_salt", old_key |-> op[o].old_key, was_encrypted |-> hash # None,
                   new_key |-> key]
  <2>2. key \in KeyOrNone /\ salts' \in Nat /\ disturbed' \subseteq Reasons
    <3>1. salts \in Nat /\ salts + 1 \in Nat /\ disturbed \subseteq Reasons
      BY DEF Basics, TypeOK
    <3>2. key \in KeyOrNone
      BY <2>1, <3>1, Kinds DEF KeyOrNone
    <3>3. salts' \in Nat
      BY <1>3, <3>1 DEF SetRead
    <3>4. disturbed' \subseteq Reasons
      BY <1>3, <3>1 DEF SetRead, Reasons
    <3> QED
      BY <3>2, <3>3, <3>4
  <2>3. Continue(o, l)
    BY <1>3 DEF SetRead
  <2> HIDE DEF key
  <2>4. l \in Call /\ l.call # "none"
    BY <2>1, <2>2 DEF Call, Reencrypting
  <2> HIDE DEF l
  <2> QED
    BY <1>3, <2>1, <2>2, <2>3, <2>4, GoesOnBasics DEF SetRead, Basics, TypeOK
<1>4. CASE SetSalt(o)
  <2>1. At(o, "set_salt") /\ op[o] \in ChangeLocals
    BY <1>4, TurnFields, CallFields DEF SetSalt, Reencrypting
  <2> DEFINE l == [op[o] EXCEPT !.call = "set_hash"]
  <2>2. l \in Call /\ l.call # "none"
    BY <2>1 DEF Call, ChangeLocals, Reencrypting
  <2>3. salt' \in Nat \cup {None}
    BY <1>4, <2>1, Kinds DEF SetSalt, ChangeLocals, KeyOrNone
  <2>4. Continue(o, l)
    BY <1>4 DEF SetSalt
  <2> HIDE DEF l
  <2> QED
    BY <1>4, <2>1, <2>2, <2>3, <2>4, GoesOnBasics DEF SetSalt, Basics, TypeOK
<1>5. CASE SetHash(o)
  <2>1. At(o, "set_hash") /\ op[o] \in ChangeLocals
    BY <1>5, TurnFields, CallFields DEF SetHash, Reencrypting
  <2> DEFINE l == [op[o] EXCEPT !.call = "set_sessions"]
  <2>2. l \in Call /\ l.call # "none"
    BY <2>1 DEF Call, ChangeLocals, Reencrypting
  <2>3. hash' \in KeyOrNone
    BY <1>5, <2>1 DEF SetHash, ChangeLocals
  <2>4. Continue(o, l)
    BY <1>5 DEF SetHash
  <2> HIDE DEF l
  <2> QED
    BY <1>5, <2>1, <2>2, <2>3, <2>4, GoesOnBasics DEF SetHash, Basics, TypeOK
<1>6. CASE SetSessions(o)
  <2>1. At(o, "set_sessions") /\ op[o] \in ChangeLocals
    BY <1>6, TurnFields, CallFields DEF SetSessions, Reencrypting
  <2> DEFINE l == [op[o] EXCEPT !.call = "set_accounts"]
  <2>2. l \in Call /\ l.call # "none"
    BY <2>1 DEF Call, ChangeLocals, Reencrypting
  <2>3. Continue(o, l)
    BY <1>6 DEF SetSessions
  <2> HIDE DEF l
  <2> QED
    BY <1>6, <2>1, <2>2, <2>3, GoesOnBasics DEF SetSessions, Basics, TypeOK
<1>7. CASE SetAccounts(o)
  <2>1. At(o, "set_accounts") /\ op[o] \in ChangeLocals
    BY <1>7, TurnFields, CallFields DEF SetAccounts, Reencrypting
  <2> QED
    BY <1>7, <2>1, NextAccountBasics DEF SetAccounts, ChangeLocals, Basics, TypeOK
<1>8. CASE SetUpsert(o)
  <2>1. At(o, "set_upsert") /\ op[o] \in UpsertLocals
    BY <1>8, TurnFields, CallFields DEF SetUpsert
  <2>2. row' \in Table
    BY <1>8, <2>1 DEF SetUpsert, UpsertLocals, Basics, TypeOK, Table
  <2> QED
    BY <1>8, <2>1, <2>2, NextAccountBasics DEF SetUpsert, UpsertLocals
<1>9. CASE LoginRead(o)
  <2>1. At(o, "login_read") /\ op[o].email \in Email
    BY <1>9, TurnFields, CallFields DEF LoginRead
  <2> DEFINE l == [call |-> "login_upsert", stored |-> Under(master_key), email |-> op[o].email]
  <2>2. l \in Call /\ l.call # "none"
    BY <2>1, Kinds DEF Call, Basics, TypeOK
  <2>3. Finish(o) \/ Continue(o, l)
    BY <1>9 DEF LoginRead
  <2> HIDE DEF l
  <2> QED
    BY <1>9, <2>1, <2>2, <2>3, GoesOnBasics DEF LoginRead, Basics, TypeOK
<1>10. CASE LoginUpsert(o)
  <2>1. At(o, "login_upsert") /\ op[o].stored \in Stored /\ op[o].email \in Email
    BY <1>10, TurnFields, CallFields DEF LoginUpsert
  <2>2. row' \in Table
    BY <1>10, <2>1 DEF LoginUpsert, Basics, TypeOK, Table
  <2> QED
    BY <1>10, <2>1, <2>2, GoesOnBasics DEF LoginUpsert, Basics, TypeOK
<1>11. CASE DeleteRow(o)
  <2>1. At(o, "delete") /\ op[o].email \in Email
    BY <1>11, TurnFields, CallFields DEF DeleteRow
  <2>2. row' \in Table /\ disturbed' \subseteq Reasons
    BY <1>11, <2>1 DEF DeleteRow, Basics, TypeOK, Table, Reasons
  <2> QED
    BY <1>11, <2>1, <2>2, GoesOnBasics DEF DeleteRow, Basics, TypeOK
<1> QED
  BY <1>1, <1>2, <1>3, <1>4, <1>5, <1>6, <1>7, <1>8, <1>9, <1>10, <1>11 DEF Step

LEMMA RestartBasics ==
    ASSUME Basics, Restart
    PROVE  Basics'
<1>1. /\ op' = [o \in Op |-> Idle] /\ lock_queue' = <<>> /\ Len(lock_queue') = 0
      /\ lock_queue' \in Seq(Op)
  BY EmptySeq DEF Restart
<1>2. op' \in [Op -> Call] /\ \A o \in Op : op'[o].call = "none"
  BY <1>1 DEF Call, Idle
<1>3. QueueOK'
  BY <1>1, <1>2 DEF QueueOK, Queued
<1> QED
  BY <1>1, <1>2, <1>3 DEF Restart, Basics, TypeOK, KeyOrNone, settingVars, Reasons

LEMMA BasicsStep == Basics /\ [StoreNext]_storeVars => Basics'
<1> SUFFICES ASSUME Basics, [StoreNext]_storeVars PROVE Basics'
  OBVIOUS
<1>1. ASSUME NEW o \in Op, Unlock(o) \/ SetMasterPassword(o) \/ Login(o) \/ Delete(o) PROVE Basics'
  <2>1. PICK l \in Call : Request(o, l) /\ l.call # "none"
    BY <1>1, RequestKinds
  <2> QED
    BY <2>1, RequestBasics
<1>2. CASE UNCHANGED storeVars
  BY <1>2, SameBasics
<1> QED
  BY <1>1, <1>2, StepBasics, RestartBasics DEF StoreNext

LEMMA BasicsInit == StoreInit => Basics
<1> SUFFICES ASSUME StoreInit PROVE Basics
  OBVIOUS
<1>1. lock_queue \in Seq(Op) /\ Len(lock_queue) = 0
  BY EmptySeq DEF StoreInit
<1>2. op \in [Op -> Call] /\ \A o \in Op : op[o].call = "none"
  BY DEF StoreInit, Call, Idle
<1>3. QueueOK
  BY <1>1, <1>2 DEF QueueOK, Queued
<1>4. row \in Table
  BY DEF StoreInit, Table
<1> QED
  BY <1>1, <1>2, <1>3, <1>4 DEF StoreInit, Basics, TypeOK, KeyOrNone

-----------------------------------------------------------------------------
(* The settings and the key agree: changes of the password overtake each    *)
(* other nowhere, so the last one to store its salt is the last one to      *)
(* store its hash, and the last to put its key in memory.                   *)

\* Database calls that a change which has stored its hash has yet to make: the
\* fewer, the sooner it returns, and with as many left those before it in the
\* queue return before it.
Present == {e \in Email : row[e] # None}
Left(o) == {e \in Email : op[o].accounts[e] # None}
Remaining(o) ==
    IF op[o].call = "set_sessions" THEN Cardinality(Present) + 2
    ELSE IF op[o].call = "set_accounts" THEN Cardinality(Present) + 1
    ELSE Cardinality(Left(o)) + 1
Ahead(a, b) == Remaining(a) < Remaining(b) \/ (Remaining(a) = Remaining(b) /\ Before(a, b))

Salting == {o \in Op : op[o].call = "set_hash"}
Hashed == {o \in Op : op[o].call \in {"set_sessions", "set_accounts", "set_upsert"}}
SaltOf(key) == IF key = None THEN None ELSE key[2]

SaltAgrees ==
    IF Salting = {} THEN salt = SaltOf(hash)
    ELSE \E o \in Salting : salt = SaltOf(op[o].new_key) /\ \A a \in Salting \ {o} : Before(a, o)
KeyAgrees ==
    IF Hashed = {} THEN master_key \in {None, hash}
    ELSE \E o \in Hashed : hash = op[o].new_key /\ \A a \in Hashed \ {o} : Ahead(a, o)
\* The accounts a change has read and not yet written are still there.
LeftPresent ==
    \A o \in Op : op[o].call = "set_upsert" =>
       /\ Left(o) \subseteq Present
       /\ op[o].email \in Present /\ op[o].email \notin Left(o)

Agreed == SaltAgrees /\ KeyAgrees /\ LeftPresent
Agreement == disturbed = {} => Agreed

LEMMA Counts ==
    /\ Cardinality(Present) \in Nat /\ IsFiniteSet(Present)
    /\ \A o \in Op : Cardinality(Left(o)) \in Nat /\ IsFiniteSet(Left(o))
<1>1. Present \subseteq Email /\ \A o \in Op : Left(o) \subseteq Email
  BY DEF Present, Left
<1> QED
  BY <1>1, StoreAssumption, FS_Subset, FS_CardinalityType

\* A change that encrypts an account has fewer calls left than there are accounts.
LEMMA RemainingBounds ==
    ASSUME LeftPresent, NEW o \in Hashed
    PROVE  /\ Remaining(o) \in Nat \ {0} /\ Remaining(o) <= Cardinality(Present) + 2
           /\ op[o].call = "set_accounts" => Remaining(o) = Cardinality(Present) + 1
           /\ op[o].call = "set_sessions" => Remaining(o) = Cardinality(Present) + 2
           /\ op[o].call = "set_upsert" =>
                Remaining(o) = Cardinality(Left(o)) + 1 /\ Remaining(o) <= Cardinality(Present)
<1>1. o \in Op /\ op[o].call \in {"set_sessions", "set_accounts", "set_upsert"}
  BY DEF Hashed
<1>2. CASE op[o].call = "set_upsert"
  <2> DEFINE more == Left(o) \cup {op[o].email}
  <2>1. /\ IsFiniteSet(Left(o)) /\ Cardinality(Left(o)) \in Nat
        /\ IsFiniteSet(Present) /\ Cardinality(Present) \in Nat
    BY <1>1, Counts
  <2>2. op[o].email \notin Left(o) /\ more \subseteq Present
    BY <1>1, <1>2 DEF LeftPresent
  <2>3. Cardinality(more) = Cardinality(Left(o)) + 1
    BY <2>1, <2>2, FS_AddElement
  <2>4. Cardinality(more) <= Cardinality(Present)
    BY <2>1, <2>2, FS_Subset
  <2>5. Remaining(o) = Cardinality(Left(o)) + 1
    BY <1>2 DEF Remaining
  <2> QED
    BY <1>2, <2>1, <2>3, <2>4, <2>5
<1>3. CASE op[o].call = "set_sessions"
  <2>1. Remaining(o) = Cardinality(Present) + 2
    BY <1>3 DEF Remaining
  <2> QED
    BY <1>3, <2>1, Counts
<1>4. CASE op[o].call = "set_accounts"
  <2>1. Remaining(o) = Cardinality(Present) + 1
    BY <1>4 DEF Remaining
  <2> QED
    BY <1>4, <2>1, Counts
<1> QED
  BY <1>1, <1>2, <1>3, <1>4

\* Who is ahead stays so while accounts are added.
LEMMA AheadKept ==
    ASSUME LeftPresent, NEW a \in Hashed, NEW b \in Hashed, Ahead(a, b),
           op'[a] = op[a], op'[b] = op[b], Before(a, b) => Before(a, b)',
           Present \subseteq Present'
    PROVE  Ahead(a, b)'
<1> DEFINE n == Cardinality(Present)
           m == Cardinality(Present')
<1>1. n \in Nat /\ m \in Nat /\ n <= m
  <2>1. IsFiniteSet(Present') /\ m \in Nat
    <3>1. Present' \subseteq Email
      BY DEF Present
    <3> QED
      BY <3>1, StoreAssumption, FS_Subset, FS_CardinalityType
  <2> QED
    BY <2>1, Counts, FS_Subset
<1>2. Left(a)' = Left(a) /\ Left(b)' = Left(b)
  BY DEF Left
<1>3. ASSUME NEW o \in {a, b}
      PROVE  /\ op[o].call = "set_upsert" => Remaining(o)' = Remaining(o) /\ Remaining(o) <= n
             /\ op[o].call # "set_upsert" => Remaining(o)' = Remaining(o) + (m - n) /\ Remaining(o) > n
             /\ Remaining(o) \in Nat
  <2>1. o \in Hashed /\ o \in Op /\ op[o].call \in {"set_sessions", "set_accounts", "set_upsert"} /\ op'[o] = op[o]
    BY DEF Hashed
  <2>2. Left(o)' = Left(o)
    BY <1>2
  <2>3. /\ op[o].call = "set_accounts" => Remaining(o)' = m + 1
        /\ op[o].call = "set_sessions" => Remaining(o)' = m + 2
        /\ op[o].call = "set_upsert" => Remaining(o)' = Cardinality(Left(o)) + 1
    <3>1. op'[o].call = op[o].call
      BY <2>1
    <3> QED
      BY <2>2, <3>1 DEF Remaining
  <2>4. /\ Remaining(o) \in Nat
        /\ op[o].call = "set_accounts" => Remaining(o) = n + 1
        /\ op[o].call = "set_sessions" => Remaining(o) = n + 2
        /\ op[o].call = "set_upsert" =>
             Remaining(o) = Cardinality(Left(o)) + 1 /\ Remaining(o) <= n
    BY <2>1, RemainingBounds
  <2> HIDE DEF n, m
  <2> QED
    BY <1>1, <2>1, <2>3, <2>4
<1> HIDE DEF n, m
<1>4. \/ Remaining(a) < Remaining(b)
      \/ Remaining(a) = Remaining(b) /\ Before(a, b)'
  BY DEF Ahead
<1>5. Remaining(a)' < Remaining(b)' \/ (Remaining(a)' = Remaining(b)' /\ Before(a, b)')
  BY <1>1, <1>3, <1>4
<1> QED
  BY <1>5 DEF Ahead

\* What moves no change to or from its salt leaves the order of those as it is.
LEMMA SaltKept ==
    ASSUME SaltAgrees, NEW o \in Op, Salting' = Salting, Salting \subseteq Others(o),
           \A a \in Others(o) : op'[a] = op[a],
           \A a, b \in Others(o) : Before(a, b) => Before(a, b)',
           salt' = salt, hash' = hash
    PROVE  SaltAgrees'
<1>1. CASE Salting = {}
  BY <1>1 DEF SaltAgrees, SaltOf
<1>2. CASE Salting # {}
  <2>1. PICK w \in Salting : salt = SaltOf(op[w].new_key) /\ \A a \in Salting \ {w} : Before(a, w)
    BY <1>2 DEF SaltAgrees
  <2>2. salt' = SaltOf(op'[w].new_key) /\ \A a \in Salting' \ {w} : Before(a, w)'
    BY <2>1
  <2> QED
    BY <2>2 DEF SaltAgrees, SaltOf
<1> QED
  BY <1>1, <1>2

\* A step of an operation that neither stores a salt or hash nor encrypts.
LEMMA Elsewhere ==
    ASSUME Agreed, NEW o \in Op,
           o \notin Salting, o \notin Hashed, op'[o].call # "set_hash", o \notin Hashed',
           \A a \in Others(o) : op'[a] = op[a],
           \A a, b \in Others(o) : Before(a, b) => Before(a, b)',
           salt' = salt, hash' = hash, master_key' \in {master_key, hash},
           Hashed # {} => Present \subseteq Present'
    PROVE  Agreed'
<1>1. Salting' = Salting /\ Salting \subseteq Others(o) /\ Hashed' = Hashed /\ Hashed \subseteq Others(o)
  BY DEF Salting, Hashed, Others
<1>2. SaltAgrees'
  BY <1>1, SaltKept DEF Agreed
<1>3. KeyAgrees'
  <2>1. CASE Hashed = {}
    BY <1>1, <2>1 DEF Agreed, KeyAgrees
  <2>2. CASE Hashed # {}
    <3>1. PICK w \in Hashed : hash = op[w].new_key /\ \A a \in Hashed \ {w} : Ahead(a, w)
      BY <2>2 DEF Agreed, KeyAgrees
    <3>2. hash' = op'[w].new_key /\ \A a \in Hashed' \ {w} : Ahead(a, w)'
      BY <1>1, <2>2, <3>1, AheadKept DEF Agreed
    <3> QED
      BY <1>1, <3>2 DEF KeyAgrees
  <2> QED
    BY <2>1, <2>2
<1>4. LeftPresent'
  <2> SUFFICES ASSUME NEW a \in Op, op'[a].call = "set_upsert"
               PROVE  Left(a)' \subseteq Present' /\ op'[a].email \in Present' /\ op'[a].email \notin Left(a)'
    BY DEF LeftPresent
  <2>1. a \in Hashed
    BY <1>1 DEF Hashed
  <2>2. op'[a] = op[a] /\ Left(a)' = Left(a)
    BY <1>1, <2>1 DEF Left
  <2> QED
    BY <2>1, <2>2 DEF Agreed, LeftPresent
<1> QED
  BY <1>2, <1>3, <1>4 DEF Agreed

\* A change stores its salt: it queues up behind those that have stored theirs.
LEMMA SetSaltAgrees ==
    ASSUME Basics, Agreed, NEW o \in Op, SetSalt(o)
    PROVE  Agreed'
<1> DEFINE l == [op[o] EXCEPT !.call = "set_hash"]
<1>1. /\ At(o, "set_salt") /\ op[o] \in ChangeLocals /\ op[o].call = "set_salt"
      /\ Continue(o, l) /\ serial' = serial
      /\ hash' = hash /\ master_key' = master_key /\ Present' = Present
      /\ salt' = SaltOf(op[o].new_key)
  BY TurnFields, CallFields DEF SetSalt, Reencrypting, settingVars, countVars, Present, SaltOf
<1>2. l \in Call /\ l.call = "set_hash" /\ l.new_key = op[o].new_key
  BY <1>1 DEF Call, ChangeLocals, Reencrypting
<1> HIDE DEF l
<1>3. /\ op'[o] = l /\ \A a \in Others(o) : op'[a] = op[a]
      /\ \A a, b \in Others(o) : Before(a, b) => Before(a, b)'
      /\ \A a \in Others(o) : op[a].call # "none" => Before(a, o)'
  BY <1>1, <1>2, GoesOn DEF Basics
<1>4. Hashed' = Hashed /\ Hashed \subseteq Others(o)
  BY <1>1, <1>2, <1>3 DEF Hashed, Others
<1>5. SaltAgrees'
  <2>1. o \in Salting' /\ salt' = SaltOf(op'[o].new_key)
    BY <1>1, <1>2, <1>3 DEF Salting
  <2>2. \A a \in Salting' \ {o} : Before(a, o)'
    BY <1>3 DEF Salting, Others
  <2> QED
    BY <2>1, <2>2 DEF SaltAgrees, SaltOf
<1>6. KeyAgrees'
  <2>1. CASE Hashed = {}
    BY <1>1, <1>4, <2>1 DEF Agreed, KeyAgrees
  <2>2. CASE Hashed # {}
    <3>1. PICK w \in Hashed : hash = op[w].new_key /\ \A a \in Hashed \ {w} : Ahead(a, w)
      BY <2>2 DEF Agreed, KeyAgrees
    <3>2. hash' = op'[w].new_key /\ \A a \in Hashed' \ {w} : Ahead(a, w)'
      BY <1>1, <1>3, <1>4, <3>1, AheadKept DEF Agreed
    <3> QED
      BY <1>4, <3>2 DEF KeyAgrees
  <2> QED
    BY <2>1, <2>2
<1>7. LeftPresent'
  <2> SUFFICES ASSUME NEW a \in Op, op'[a].call = "set_upsert"
               PROVE  Left(a)' \subseteq Present' /\ op'[a].email \in Present' /\ op'[a].email \notin Left(a)'
    BY DEF LeftPresent
  <2>1. op'[a] = op[a] /\ Left(a)' = Left(a)
    BY <1>2, <1>3 DEF Left, Others
  <2> QED
    BY <1>1, <2>1 DEF Agreed, LeftPresent
<1> QED
  BY <1>5, <1>6, <1>7 DEF Agreed

\* A change stores its hash: it is the last to return of those that have.
LEMMA SetHashAgrees ==
    ASSUME Basics, Agreed, NEW o \in Op, SetHash(o)
    PROVE  Agreed'
<1> DEFINE l == [op[o] EXCEPT !.call = "set_sessions"]
<1>1. /\ At(o, "set_hash") /\ op[o] \in ChangeLocals /\ op[o].call = "set_hash"
      /\ Continue(o, l) /\ serial' = serial
      /\ hash' = op[o].new_key /\ salt' = salt /\ Present' = Present
  BY TurnFields, CallFields DEF SetHash, Reencrypting, countVars, Present
<1>2. l \in Call /\ l.call = "set_sessions" /\ l.new_key = op[o].new_key
  BY <1>1 DEF Call, ChangeLocals, Reencrypting
<1> HIDE DEF l
<1>3. /\ op'[o] = l /\ \A a \in Others(o) : op'[a] = op[a]
      /\ \A a, b \in Others(o) : Before(a, b) => Before(a, b)'
      /\ \A a \in Others(o) : op[a].call # "none" => Before(a, o)'
      /\ \A a \in Op : ~Before(a, o)
  BY <1>1, <1>2, GoesOn DEF Basics
<1>4. Salting' = Salting \ {o} /\ o \in Salting /\ Hashed' = Hashed \cup {o} /\ Hashed \subseteq Others(o)
  BY <1>1, <1>2, <1>3 DEF Salting, Hashed, Others
<1>5. SaltAgrees'
  <2>1. PICK w \in Salting : salt = SaltOf(op[w].new_key) /\ \A a \in Salting \ {w} : Before(a, w)
    BY <1>4 DEF Agreed, SaltAgrees
  <2>2. CASE w = o
    <3>1. Salting' = {}
      BY <1>3, <1>4, <2>1, <2>2 DEF Salting
    <3>2. salt' = SaltOf(hash')
      BY <1>1, <2>1, <2>2 DEF SaltOf
    <3> QED
      BY <3>1, <3>2 DEF SaltAgrees, SaltOf
  <2>3. CASE w # o
    <3>1. w \in Salting' /\ Salting' \subseteq Others(o)
      BY <1>4, <2>3 DEF Salting, Others
    <3>2. salt' = SaltOf(op'[w].new_key) /\ \A a \in Salting' \ {w} : Before(a, w)'
      BY <1>1, <1>3, <1>4, <2>1, <3>1
    <3> QED
      BY <3>1, <3>2 DEF SaltAgrees, SaltOf
  <2> QED
    BY <2>2, <2>3
<1>6. KeyAgrees'
  <2>1. ASSUME NEW a \in Hashed PROVE Ahead(a, o)'
    <3>1. a \in Others(o) /\ op'[a] = op[a] /\ Before(a, o)' /\ Left(a)' = Left(a)
      BY <1>3, <1>4 DEF Hashed, Left
    <3>2. Remaining(a)' = Remaining(a)
      BY <1>1, <3>1 DEF Remaining
    <3>3. Remaining(o)' = Cardinality(Present) + 2
      BY <1>1, <1>2, <1>3 DEF Remaining
    <3>4. Remaining(a) \in Nat /\ Remaining(a) <= Cardinality(Present) + 2 /\ Cardinality(Present) \in Nat
      BY RemainingBounds, Counts DEF Agreed
    <3>5. Remaining(a)' < Remaining(o)' \/ Remaining(a)' = Remaining(o)'
      BY <3>2, <3>3, <3>4
    <3> QED
      BY <3>1, <3>5 DEF Ahead
  <2>2. o \in Hashed' /\ hash' = op'[o].new_key
    BY <1>1, <1>2, <1>3, <1>4
  <2> QED
    BY <1>4, <2>1, <2>2 DEF KeyAgrees
<1>7. LeftPresent'
  <2> SUFFICES ASSUME NEW a \in Op, op'[a].call = "set_upsert"
               PROVE  Left(a)' \subseteq Present' /\ op'[a].email \in Present' /\ op'[a].email \notin Left(a)'
    BY DEF LeftPresent
  <2>1. op'[a] = op[a] /\ Left(a)' = Left(a)
    BY <1>2, <1>3 DEF Left, Others
  <2> QED
    BY <1>1, <2>1 DEF Agreed, LeftPresent
<1> QED
  BY <1>5, <1>6, <1>7 DEF Agreed

\* A change that encrypts makes one more of its calls, and waits for the next.
LEMMA Advances ==
    ASSUME Basics, Agreed, NEW o \in Hashed, NEW call, At(o, call), NEW l \in Call,
           Continue(o, l), serial' = serial, hash' = hash, salt' = salt, Present' = Present,
           l.new_key = op[o].new_key, l.call \in {"set_accounts", "set_upsert"},
           Remaining(o)' = Remaining(o) - 1,
           l.call = "set_upsert" => /\ Left(o)' \subseteq Present
                                    /\ l.email \in Present /\ l.email \notin Left(o)'
    PROVE  Agreed'
<1>1. o \in Op /\ op[o].call \in {"set_sessions", "set_accounts", "set_upsert"}
  BY DEF Hashed
<1>2. /\ op'[o] = l /\ \A a \in Others(o) : op'[a] = op[a]
      /\ \A a, b \in Others(o) : Before(a, b) => Before(a, b)'
      /\ \A a \in Others(o) : op[a].call # "none" => Before(a, o)'
      /\ \A a \in Op : ~Before(a, o)
  BY <1>1, GoesOn DEF Basics
<1>3. Salting' = Salting /\ Salting \subseteq Others(o) /\ Hashed' = Hashed
  BY <1>1, <1>2 DEF Salting, Hashed, Others
<1>4. SaltAgrees'
  BY <1>1, <1>2, <1>3, SaltKept DEF Agreed
<1>5. KeyAgrees'
  <2>1. PICK w \in Hashed : hash = op[w].new_key /\ \A a \in Hashed \ {w} : Ahead(a, w)
    BY DEF Agreed, KeyAgrees
  <2>2. hash' = op'[w].new_key
    BY <1>2, <2>1 DEF Others, Hashed
  <2>3. ASSUME NEW a \in Hashed, a # w PROVE Ahead(a, w)'
    <3>1. Remaining(a) \in Nat /\ Remaining(w) \in Nat /\ Ahead(a, w) /\ a \in Op /\ w \in Op
      BY <2>1, <2>3, RemainingBounds DEF Agreed, Hashed
    <3>2. \A b \in Hashed : b # o => Remaining(b)' = Remaining(b)
      <4> SUFFICES ASSUME NEW b \in Hashed, b # o PROVE Remaining(b)' = Remaining(b)
        OBVIOUS
      <4>1. op'[b] = op[b]
        BY <1>2 DEF Hashed, Others
      <4>2. Left(b)' = Left(b)
        BY <4>1 DEF Left
      <4> QED
        BY <4>1, <4>2 DEF Remaining
    <3>3. CASE w = o
      <4>1. Remaining(a) < Remaining(w)
        BY <1>2, <3>1, <3>3 DEF Ahead
      <4>2. Before(a, w)'
        BY <1>2, <2>3, <3>1, <3>3 DEF Hashed, Others
      <4>3. Remaining(a)' = Remaining(a) /\ Remaining(w)' = Remaining(w) - 1
        BY <2>3, <3>2, <3>3
      <4>4. Remaining(a)' < Remaining(w)' \/ Remaining(a)' = Remaining(w)'
        BY <3>1, <4>1, <4>3
      <4> QED
        BY <4>2, <4>4 DEF Ahead
    <3>4. CASE a = o
      <4>1. Remaining(a)' = Remaining(a) - 1 /\ Remaining(w)' = Remaining(w)
        BY <2>3, <3>2, <3>4
      <4>2. Remaining(a) <= Remaining(w)
        BY <3>1 DEF Ahead
      <4>3. Remaining(a)' < Remaining(w)'
        BY <3>1, <4>1, <4>2
      <4> QED
        BY <4>3 DEF Ahead
    <3>5. CASE a # o /\ w # o
      <4>1. op'[a] = op[a] /\ op'[w] = op[w] /\ (Before(a, w) => Before(a, w)')
        BY <1>2, <3>1, <3>5 DEF Others
      <4> QED
        BY <3>1, <4>1, AheadKept DEF Agreed
    <3> QED
      BY <3>3, <3>4, <3>5
  <2> QED
    BY <1>3, <2>2, <2>3 DEF KeyAgrees
<1>6. LeftPresent'
  <2> SUFFICES ASSUME NEW a \in Op, op'[a].call = "set_upsert"
               PROVE  Left(a)' \subseteq Present' /\ op'[a].email \in Present' /\ op'[a].email \notin Left(a)'
    BY DEF LeftPresent
  <2>1. CASE a = o
    BY <1>2, <2>1
  <2>2. CASE a # o
    <3>1. op'[a] = op[a] /\ Left(a)' = Left(a)
      BY <1>2, <2>2 DEF Left, Others
    <3> QED
      BY <3>1 DEF Agreed, LeftPresent
  <2> QED
    BY <2>1, <2>2
<1> QED
  BY <1>4, <1>5, <1>6 DEF Agreed

\* A change that has encrypted all its accounts returns: if it is the last one,
\* the hash is its own.
LEMMA Finishes ==
    ASSUME Basics, Agreed, NEW o \in Hashed, NEW call, At(o, call),
           Finish(o), serial' = serial, hash' = hash, salt' = salt, Present' = Present,
           master_key' = op[o].new_key, Remaining(o) = 1
    PROVE  Agreed'
<1>1. o \in Op /\ op[o].call \in {"set_sessions", "set_accounts", "set_upsert"}
  BY DEF Hashed
<1>2. /\ op'[o] = Idle /\ op'[o].call = "none" /\ \A a \in Others(o) : op'[a] = op[a]
      /\ \A a, b \in Others(o) : Before(a, b) => Before(a, b)'
      /\ \A a \in Op : ~Before(a, o)
  BY <1>1, GoesAway DEF Basics, Idle
<1>3. Salting' = Salting /\ Salting \subseteq Others(o) /\ Hashed' = Hashed \ {o}
  BY <1>1, <1>2 DEF Salting, Hashed, Others
<1>4. SaltAgrees'
  BY <1>1, <1>2, <1>3, SaltKept DEF Agreed
<1>5. KeyAgrees'
  <2>1. PICK w \in Hashed : hash = op[w].new_key /\ \A a \in Hashed \ {w} : Ahead(a, w)
    BY DEF Agreed, KeyAgrees
  <2>2. CASE w = o
    <3>1. ASSUME NEW a \in Hashed, a # o PROVE FALSE
      <4>1. Remaining(a) \in Nat \ {0} /\ a \in Op
        BY RemainingBounds DEF Agreed, Hashed
      <4>2. Remaining(a) < Remaining(o) \/ Before(a, o)
        BY <2>1, <2>2, <3>1 DEF Ahead
      <4> QED
        BY <1>2, <4>1, <4>2
    <3>2. Hashed' = {} /\ master_key' = hash'
      BY <1>3, <2>1, <2>2, <3>1
    <3> QED
      BY <3>2 DEF KeyAgrees
  <2>3. CASE w # o
    <3>1. Hashed \ {o} \subseteq Others(o)
      BY DEF Hashed, Others
    <3>2. hash' = op'[w].new_key /\ \A a \in Hashed' \ {w} : Ahead(a, w)'
      BY <1>2, <1>3, <2>1, <2>3, <3>1, AheadKept DEF Agreed
    <3> QED
      BY <1>3, <2>3, <3>2 DEF KeyAgrees
  <2> QED
    BY <2>2, <2>3
<1>6. LeftPresent'
  <2> SUFFICES ASSUME NEW a \in Op, op'[a].call = "set_upsert"
               PROVE  Left(a)' \subseteq Present' /\ op'[a].email \in Present' /\ op'[a].email \notin Left(a)'
    BY DEF LeftPresent
  <2>1. op'[a] = op[a] /\ Left(a)' = Left(a)
    BY <1>2 DEF Left, Others
  <2> QED
    BY <2>1 DEF Agreed, LeftPresent
<1> QED
  BY <1>4, <1>5, <1>6 DEF Agreed

\* One more account, or all of them, done.
LEMMA NextAccountAgrees ==
    ASSUME Basics, Agreed, NEW o \in Hashed, NEW call, At(o, call), NEW accounts \in Table,
           op[o].old_key \in KeyOrNone, op[o].was_encrypted \in BOOLEAN, op[o].new_key \in KeyOrNone,
           NextAccount(o, accounts), serial' = serial, hash' = hash, salt' = salt,
           Present' = Present, disturbed' = {},
           {e \in Email : accounts[e] # None} \subseteq Present,
           Remaining(o) = Cardinality({e \in Email : accounts[e] # None}) + 1
    PROVE  Agreed'
<1> DEFINE left == {e \in Email : accounts[e] # None}
<1>0. o \in Op /\ IsFiniteSet(left) /\ Cardinality(left) \in Nat
  <2>1. left \subseteq Email
    OBVIOUS
  <2> QED
    BY <2>1, StoreAssumption, FS_Subset, FS_CardinalityType DEF Hashed
<1>1. ASSUME left = {}, master_key' = op[o].new_key, Finish(o) PROVE Agreed'
  <2>1. Remaining(o) = 1
    BY <1>1, FS_EmptySet
  <2> QED
    BY <1>1, <2>1, Finishes
<1>2. ASSUME NEW e \in Email, accounts[e] # None, Continue(o, NextLocals(o, accounts, e))
      PROVE  Agreed'
  <2> DEFINE l == NextLocals(o, accounts, e)
  <2>1. l \in Call /\ l.call = "set_upsert" /\ l.new_key = op[o].new_key /\ l.email = e
        /\ l.accounts = [accounts EXCEPT ![e] = None]
    BY <1>0, <1>2, NextLocalsKind DEF NextLocals
  <2>2. op'[o] = l
    BY <1>0, <1>2 DEF Continue, Basics, TypeOK
  <2> HIDE DEF l
  <2>3. Left(o)' = left \ {e}
    BY <2>1, <2>2 DEF Left, Table
  <2>4. Cardinality(left \ {e}) = Cardinality(left) - 1
    BY <1>0, <1>2, FS_RemoveElement
  <2>5. Remaining(o)' = Cardinality(Left(o)') + 1
    BY <2>1, <2>2 DEF Remaining
  <2>6. Remaining(o)' = Remaining(o) - 1
    BY <1>0, <2>3, <2>4, <2>5
  <2> QED
    BY <1>2, <2>1, <2>3, <2>6, Advances DEF l
<1> HIDE DEF left
<1>3. disturbed' # disturbed \cup {"raised"}
  OBVIOUS
<1>4. (\A e \in Email : accounts[e] = None) => left = {}
  BY DEF left
<1> QED
  BY <1>0, <1>1, <1>2, <1>3, <1>4, NextAccountCases

LEMMA StepAgrees ==
    ASSUME Basics, Agreed, NEW o \in Op, Step(o), disturbed' = {}
    PROVE  Agreed'
<1>1. ASSUME NEW call, At(o, call),
             call \in {"unlock_salt", "unlock_hash", "set_read", "login_read", "login_upsert", "delete"},
             NEW l \in Call, l.call \in {"unlock_hash", "set_salt", "login_upsert"},
             Finish(o) \/ Continue(o, l), serial' = serial,
             salt' = salt, hash' = hash, master_key' \in {master_key, hash},
             Hashed # {} => Present \subseteq Present'
      PROVE  Agreed'
  <2>1. op[o].call = call /\ o \notin Salting /\ o \notin Hashed
    BY <1>1, TurnFields DEF Salting, Hashed
  <2>2. l.call # "none" /\ Idle.call = "none"
    BY <1>1 DEF Idle
  <2>3. /\ \A a \in Others(o) : op'[a] = op[a]
        /\ \A a, b \in Others(o) : Before(a, b) => Before(a, b)'
        /\ op'[o] = l \/ op'[o] = Idle
    BY <1>1, <2>2, GoesOn, GoesAway DEF Basics
  <2>4. op'[o].call # "set_hash" /\ o \notin Hashed'
    BY <1>1, <2>2, <2>3 DEF Hashed
  <2> QED
    BY <1>1, <2>1, <2>3, <2>4, Elsewhere
<1> DEFINE some == [call |-> "login_upsert", stored |-> <<>>, email |-> op[o].email]
<1>2. ASSUME op[o].email \in Email PROVE some \in Call /\ some.call = "login_upsert"
  <2>1. <<>> \in Stored
    BY EmptySeq DEF Stored
  <2> QED
    BY <1>2, <2>1 DEF Call
<1>3. CASE UnlockReadSalt(o)
  <2>1. At(o, "unlock_salt") /\ op[o].password \in Password
    BY <1>3, TurnFields, CallFields DEF UnlockReadSalt
  <2> DEFINE l == [call |-> "unlock_hash", password |-> op[o].password, salt_b64 |-> salt]
  <2>2. l \in Call /\ l.call = "unlock_hash"
    BY <2>1 DEF Call, Basics, TypeOK
  <2>3. Continue(o, l)
    BY <1>3 DEF UnlockReadSalt
  <2> HIDE DEF l
  <2> QED
    BY <1>1, <1>3, <2>1, <2>2, <2>3 DEF UnlockReadSalt, settingVars, countVars, Present
<1>4. CASE UnlockReadHash(o)
  <2>1. At(o, "unlock_hash") /\ op[o].password \in Password
    BY <1>4, TurnFields, CallFields DEF UnlockReadHash
  <2> DEFINE l == [call |-> "unlock_hash", password |-> op[o].password, salt_b64 |-> salt]
  <2>2. l \in Call /\ l.call = "unlock_hash"
    BY <2>1 DEF Call, Basics, TypeOK
  <2> HIDE DEF l
  <2>3. master_key' \in {master_key, hash}
    BY <1>4 DEF UnlockReadHash, Matches
  <2> QED
    BY <1>1, <1>4, <2>1, <2>2, <2>3 DEF UnlockReadHash, settingVars, countVars, Present
<1>5. CASE SetRead(o)
  <2>1. PICK l : Continue(o, l) /\ l.call = "set_salt"
    BY <1>5 DEF SetRead
  <2>2. At(o, "set_read") /\ l \in Call
    <3>1. Basics'
      BY StepBasics
    <3>2. op'[o] = l
      BY <2>1 DEF Continue, Basics, TypeOK
    <3> QED
      BY <1>5, <3>1, <3>2 DEF SetRead, Basics, TypeOK
  <2> QED
    BY <1>1, <1>5, <2>1, <2>2 DEF SetRead, settingVars, Present
<1>6. CASE SetSalt(o)
  BY <1>6, SetSaltAgrees
<1>7. CASE SetHash(o)
  BY <1>7, SetHashAgrees
<1>8. CASE SetSessions(o)
  <2>1. At(o, "set_sessions") /\ op[o] \in ChangeLocals /\ op[o].call = "set_sessions" /\ o \in Hashed
    BY <1>8, TurnFields, CallFields DEF SetSessions, Reencrypting, Hashed
  <2> DEFINE l == [op[o] EXCEPT !.call = "set_accounts"]
  <2>2. l \in Call /\ l.call = "set_accounts" /\ l.new_key = op[o].new_key
    BY <2>1 DEF Call, ChangeLocals, Reencrypting
  <2>3. Continue(o, l)
    BY <1>8 DEF SetSessions
  <2> HIDE DEF l
  <2>4. op'[o] = l /\ Present' = Present
    BY <1>8, <2>3 DEF Continue, Basics, TypeOK, SetSessions, Present
  <2>5. Remaining(o)' = Cardinality(Present) + 1 /\ Remaining(o) = Cardinality(Present) + 2
    BY <2>1, <2>2, <2>4 DEF Remaining
  <2>6. Remaining(o)' = Remaining(o) - 1
    BY <2>5, Counts
  <2> QED
    BY <1>8, <2>1, <2>2, <2>3, <2>4, <2>6, Advances DEF SetSessions, settingVars, countVars
<1>9. CASE SetAccounts(o)
  <2>1. At(o, "set_accounts") /\ op[o] \in ChangeLocals /\ op[o].call = "set_accounts" /\ o \in Hashed
    BY <1>9, TurnFields, CallFields DEF SetAccounts, Reencrypting, Hashed
  <2>2. Remaining(o) = Cardinality(Present) + 1 /\ Present' = Present
    BY <1>9, <2>1 DEF Remaining, SetAccounts, Present
  <2> QED
    BY <1>9, <2>1, <2>2, NextAccountAgrees
       DEF SetAccounts, settingVars, countVars, Present, ChangeLocals, Basics, TypeOK
<1>10. CASE SetUpsert(o)
  <2>1. At(o, "set_upsert") /\ op[o] \in UpsertLocals /\ op[o].call = "set_upsert" /\ o \in Hashed
    BY <1>10, TurnFields, CallFields DEF SetUpsert, Hashed
  <2>2. op[o].email \in Present /\ Left(o) \subseteq Present
    BY <2>1 DEF Agreed, LeftPresent
  <2>3. op[o].stored \in Stored /\ op[o].stored # None /\ op[o].email \in Email
    BY <2>1, Kinds DEF UpsertLocals
  <2>4. Present' = Present
    BY <1>10, <2>2, <2>3 DEF SetUpsert, Present, Basics, TypeOK, Table
  <2>5. Remaining(o) = Cardinality(Left(o)) + 1
    BY <2>1 DEF Remaining
  <2> QED
    BY <1>10, <2>1, <2>2, <2>4, <2>5, NextAccountAgrees
       DEF SetUpsert, settingVars, countVars, UpsertLocals, Left
<1>11. CASE LoginRead(o)
  <2>1. At(o, "login_read") /\ op[o].email \in Email
    BY <1>11, TurnFields, CallFields DEF LoginRead
  <2> DEFINE l == [call |-> "login_upsert", stored |-> Under(master_key), email |-> op[o].email]
  <2>2. l \in Call /\ l.call = "login_upsert"
    BY <2>1, Kinds DEF Call, Basics, TypeOK
  <2>3. Finish(o) \/ Continue(o, l)
    BY <1>11 DEF LoginRead
  <2> HIDE DEF l
  <2> QED
    BY <1>1, <1>11, <2>1, <2>2, <2>3 DEF LoginRead, settingVars, countVars, Present
<1>12. CASE LoginUpsert(o)
  <2>1. At(o, "login_upsert") /\ op[o].stored \in Stored /\ op[o].email \in Email
    BY <1>12, TurnFields, CallFields DEF LoginUpsert
  <2>2. Present \subseteq Present'
    BY <1>12, <2>1, Kinds DEF LoginUpsert, Present, Basics, TypeOK, Table
  <2> HIDE DEF some
  <2> QED
    BY <1>1, <1>2, <1>12, <2>1, <2>2 DEF LoginUpsert, settingVars, countVars
<1>13. CASE DeleteRow(o)
  <2>1. At(o, "delete") /\ op[o].email \in Email
    BY <1>13, TurnFields, CallFields DEF DeleteRow
  <2>2. Hashed # {} => Present \subseteq Present'
    <3>1. CASE Hashed # {}
      <4>1. Changing
        BY <3>1 DEF Changing, Changes, Hashed
      <4>2. row[op[o].email] = None
        BY <1>13, <4>1 DEF DeleteRow
      <4> QED
        BY <1>13, <2>1, <4>2 DEF DeleteRow, Present, Basics, TypeOK, Table
    <3> QED
      BY <3>1
  <2> HIDE DEF some
  <2> QED
    BY <1>1, <1>2, <1>13, <2>1, <2>2 DEF DeleteRow, settingVars, countVars
<1> QED
  BY <1>3, <1>4, <1>5, <1>6, <1>7, <1>8, <1>9, <1>10, <1>11, <1>12, <1>13 DEF Step

LEMMA DisturbedStays ==
    ASSUME NEW o \in Op, Step(o)
    PROVE  disturbed \subseteq disturbed'
<1>1. CASE SetRead(o) \/ DeleteRow(o)
  BY <1>1 DEF SetRead, DeleteRow
<1>2. CASE SetAccounts(o) \/ SetUpsert(o)
  BY <1>2, NextAccountCases DEF SetAccounts, SetUpsert
<1>3. CASE \/ UnlockReadSalt(o) \/ UnlockReadHash(o) \/ SetSalt(o) \/ SetHash(o)
           \/ SetSessions(o) \/ LoginRead(o) \/ LoginUpsert(o)
  BY <1>3 DEF UnlockReadSalt, UnlockReadHash, SetSalt, SetHash, SetSessions, LoginRead, LoginUpsert
<1> QED
  BY <1>1, <1>2, <1>3 DEF Step

LEMMA AgreementStep == Basics /\ Agreement /\ [StoreNext]_storeVars => Agreement'
<1> SUFFICES ASSUME Basics, Agreement, [StoreNext]_storeVars, disturbed' = {} PROVE Agreed'
  BY DEF Agreement
<1>1. ASSUME NEW o \in Op, Unlock(o) \/ SetMasterPassword(o) \/ Login(o) \/ Delete(o) PROVE Agreed'
  <2>1. PICK l \in Call : Request(o, l) /\ l.call \in {"unlock_salt", "set_read", "login_read", "delete"}
    BY <1>1, RequestKinds
  <2>2. /\ op[o].call = "none" /\ salt' = salt /\ hash' = hash /\ master_key' = master_key
        /\ Present' = Present /\ disturbed' = disturbed
    BY <2>1 DEF Request, settingVars, Present
  <2>3. o \notin Salting /\ o \notin Hashed
    BY <2>2 DEF Salting, Hashed
  <2>4. /\ op'[o] = l /\ \A a \in Others(o) : op'[a] = op[a]
        /\ \A a, b \in Others(o) : Before(a, b) => Before(a, b)'
    BY <2>1, Joins DEF Basics
  <2>5. op'[o].call # "set_hash" /\ o \notin Hashed'
    BY <2>1, <2>4 DEF Hashed
  <2> QED
    BY <2>2, <2>3, <2>4, <2>5, Elsewhere DEF Agreement
<1>2. ASSUME NEW o \in Op, Step(o) PROVE Agreed'
  <2>1. disturbed \subseteq disturbed'
    BY <1>2, DisturbedStays
  <2> QED
    BY <1>2, <2>1, StepAgrees DEF Agreement
<1>3. CASE Restart
  <2>1. disturbed = {} /\ ~Changing /\ salt' = salt /\ hash' = hash /\ master_key' = None
    BY <1>3 DEF Restart, settingVars
  <2>2. Salting = {}
    BY <2>1 DEF Changing, Changes, Salting
  <2>3. \A o \in Op : op'[o].call = "none"
    BY <1>3 DEF Restart, Idle
  <2>4. Salting' = {} /\ Hashed' = {} /\ LeftPresent'
    BY <2>3 DEF Salting, Hashed, LeftPresent
  <2> QED
    BY <2>1, <2>2, <2>4 DEF Agreement, Agreed, SaltAgrees, KeyAgrees, SaltOf
<1>4. CASE UNCHANGED storeVars
  <2>1. /\ salt' = salt /\ hash' = hash /\ master_key' = master_key /\ row' = row /\ op' = op
        /\ lock_queue' = lock_queue /\ disturbed' = disturbed
    BY <1>4 DEF storeVars, settingVars
  <2>2. /\ Salting' = Salting /\ Hashed' = Hashed /\ Present' = Present
        /\ \A o \in Op : Left(o)' = Left(o)
        /\ \A a, b \in Op : Before(a, b)' <=> Before(a, b)
    BY <2>1 DEF Salting, Hashed, Present, Left, Before
  <2>3. \A o \in Op : Remaining(o)' = Remaining(o)
    BY <2>1, <2>2 DEF Remaining
  <2>4. \A a, b \in Op : Ahead(a, b)' <=> Ahead(a, b)
    BY <2>2, <2>3 DEF Ahead
  <2>5. Agreed /\ Salting \subseteq Op /\ Hashed \subseteq Op
    BY <2>1 DEF Agreement, Salting, Hashed
  <2>6. SaltAgrees'
    BY <2>1, <2>2, <2>5 DEF Agreed, SaltAgrees, SaltOf
  <2>7. KeyAgrees'
    BY <2>1, <2>2, <2>4, <2>5 DEF Agreed, KeyAgrees
  <2>8. LeftPresent'
    BY <2>1, <2>2, <2>5 DEF Agreed, LeftPresent
  <2> QED
    BY <2>6, <2>7, <2>8 DEF Agreed
<1> QED
  BY <1>1, <1>2, <1>3, <1>4 DEF StoreNext

LEMMA AgreementInit == StoreInit => Agreement
<1> SUFFICES ASSUME StoreInit PROVE Agreed
  BY DEF Agreement
<1>1. \A o \in Op : op[o].call = "none"
  BY DEF StoreInit, Idle
<1>2. Salting = {} /\ Hashed = {} /\ LeftPresent
  BY <1>1 DEF Salting, Hashed, LeftPresent
<1> QED
  BY <1>2 DEF StoreInit, Agreed, SaltAgrees, KeyAgrees, SaltOf

\* Between changes the salt, the hash and the key in memory belong together, for
\* any number of requests that overlap, as long as every change so far ran to its
\* end, on an unlocked store and with no account deleted under it: the order in
\* which calls get the lock of the database is never what makes them differ.
THEOREM KeysAlwaysAgree == StoreSpec => []KeysAgree
<1>1. StoreInit => Basics /\ Agreement
  BY BasicsInit, AgreementInit
<1>2. Basics /\ Agreement /\ [StoreNext]_storeVars => (Basics /\ Agreement)'
  BY BasicsStep, AgreementStep
<1>3. Basics /\ Agreement => KeysAgree
  <2> SUFFICES ASSUME Agreed, ~Changing
               PROVE  salt = SaltOf(hash) /\ master_key \in {None, hash}
    BY DEF Agreement, KeysAgree, SaltOf
  <2>1. Salting = {} /\ Hashed = {}
    BY DEF Changing, Changes, Salting, Hashed
  <2> QED
    BY <2>1 DEF Agreed, SaltAgrees, KeyAgrees
<1> QED
  BY <1>1, <1>2, <1>3, PTL DEF StoreSpec

-----------------------------------------------------------------------------
(* Requests one at a time: what a change finds is encrypted under the old   *)
(* key, and what it leaves under the new one.                               *)

OldUnder(o) == IF Decrypts(op[o]) THEN Under(op[o].old_key) ELSE <<>>

\* What holds of an operation that is alone.
Alone(o) ==
    /\ op[o].call = "set_read" => op[o].old_key \in {None, hash}
    /\ op[o].call \in {"set_salt", "set_hash"} => Under(hash) = OldUnder(o)
    /\ op[o].call \in {"set_sessions", "set_accounts"} =>
         /\ hash = op[o].new_key
         /\ \A e \in Email : row[e] \in {None, OldUnder(o)}
    /\ op[o].call = "set_upsert" =>
         /\ hash = op[o].new_key /\ op[o].stored = Under(hash)
         /\ \A e \in Email : op[o].accounts[e] \in {None, OldUnder(o)}
         /\ \A e \in Email : op[o].accounts[e] = None /\ e # op[o].email => row[e] \in {None, Under(hash)}
    /\ op[o].call = "login_upsert" => op[o].stored = Under(hash)

RowsReadable == \A e \in Email : row[e] \in {None, Under(hash)}
Orderly == (Hashed = {} => RowsReadable) /\ \A o \in Op : Alone(o)
Readability == serial /\ Unbroken => disturbed = {} /\ Orderly

LEMMA OnlyOne ==
    ASSUME Basics, serial, NEW o \in Op, op[o].call # "none"
    PROVE  \A a \in Others(o) : op[a].call = "none"
<1>1. Queued(o) /\ Len(lock_queue) \in Nat /\ Len(lock_queue) <= 1
  BY LenProperties DEF Basics, TypeOK, QueueOK
<1>2. \A i, j \in 1..Len(lock_queue) : i = j
  BY <1>1
<1>3. \A a \in Op : Queued(a) => a = o
  BY <1>1, <1>2 DEF Queued
<1> QED
  BY <1>3 DEF Basics, QueueOK, Others

LEMMA OneActs ==
    ASSUME NEW o \in Op, \A a \in Others(o) : op'[a].call = "none",
           Alone(o)', o \notin Hashed' => RowsReadable'
    PROVE  Orderly'
BY DEF Orderly, Alone, Hashed, Others

\* The other operations are idle, and stay so.
LEMMA OthersIdle ==
    ASSUME Basics, serial, NEW o \in Op, NEW call, At(o, call),
           Finish(o) \/ \E l : Continue(o, l)
    PROVE  \A a \in Others(o) : op[a].call = "none" /\ op'[a].call = "none"
<1>1. \A a \in Others(o) : op[a].call = "none"
  BY OnlyOne, TurnFields
<1>2. \A a \in Others(o) : op'[a] = op[a]
  BY DEF Finish, Continue, Basics, TypeOK, Others
<1> QED
  BY <1>1, <1>2

\* Stored credentials are what they were under the old key, or under the new.
LEMMA NewlyUnder ==
    ASSUME NEW o \in Op, op[o].old_key \in KeyOrNone, op[o].new_key \in KeyOrNone
    PROVE  Reencrypted(op[o], OldUnder(o)) = Under(op[o].new_key)
<1>1. Under(op[o].new_key) \in Seq(Key)
  BY Kinds DEF Stored
<1>2. CASE Decrypts(op[o])
  <2>1. OldUnder(o) = <<op[o].old_key>>
    BY <1>2 DEF OldUnder, Under, Decrypts
  <2>2. Len(OldUnder(o)) = 1
    BY <2>1
  <2>3. SubSeq(OldUnder(o), 1, Len(OldUnder(o)) - 1) = <<>>
    BY <2>2, SubSeqEmpty
  <2> QED
    BY <1>1, <1>2, <2>3, ConcatEmptySeq DEF Reencrypted
<1>3. CASE ~Decrypts(op[o])
  <2>1. OldUnder(o) = <<>>
    BY <1>3 DEF OldUnder
  <2> QED
    BY <1>1, <1>3, <2>1, ConcatEmptySeq DEF Reencrypted
<1> QED
  BY <1>2, <1>3

\* A change goes on with the next account, or has done all of them.
LEMMA NextAccountReadable ==
    ASSUME Basics, serial, NEW o \in Op, NEW call, At(o, call), NEW accounts \in Table,
           op[o].old_key \in KeyOrNone, op[o].was_encrypted \in BOOLEAN, op[o].new_key \in KeyOrNone,
           NextAccount(o, accounts), hash' = hash, disturbed' = {},
           hash = op[o].new_key,
           \A e \in Email : accounts[e] \in {None, OldUnder(o)},
           \A e \in Email : accounts[e] = None => row'[e] \in {None, Under(hash)}
    PROVE  Orderly'
<1>1. ASSUME \A e \in Email : accounts[e] = None, Finish(o) PROVE Orderly'
  <2>1. op'[o] = Idle /\ op'[o].call = "none"
    BY <1>1 DEF Finish, Idle, Basics, TypeOK
  <2>2. Alone(o)'
    BY <2>1 DEF Alone
  <2>3. RowsReadable'
    BY <1>1 DEF RowsReadable, Under
  <2> QED
    BY <1>1, <2>2, <2>3, OthersIdle, OneActs
<1>2. ASSUME NEW e \in Email, accounts[e] # None, Continue(o, NextLocals(o, accounts, e))
      PROVE  Orderly'
  <2> DEFINE l == NextLocals(o, accounts, e)
  <2>1. /\ l.call = "set_upsert" /\ l.new_key = op[o].new_key /\ l.email = e
        /\ l.accounts = [accounts EXCEPT ![e] = None]
        /\ l.old_key = op[o].old_key /\ l.was_encrypted = op[o].was_encrypted
        /\ l.stored = Reencrypted(op[o], accounts[e])
    BY DEF NextLocals
  <2>2. op'[o] = l
    BY <1>2 DEF Continue, Basics, TypeOK
  <2> HIDE DEF l
  <2>3. OldUnder(o)' = OldUnder(o)
    BY <2>1, <2>2 DEF OldUnder, Decrypts, Under
  <2>4. l.stored = Under(hash)
    BY <1>2, <2>1, NewlyUnder
  <2>5. /\ \A f \in Email : l.accounts[f] \in {None, OldUnder(o)}
        /\ \A f \in Email : l.accounts[f] = None /\ f # e => row'[f] \in {None, Under(hash)}
    BY <2>1 DEF Table
  <2>6. Alone(o)'
    BY <2>1, <2>2, <2>3, <2>4, <2>5 DEF Alone, Under
  <2>7. o \in Hashed'
    BY <2>1, <2>2 DEF Hashed
  <2> QED
    BY <1>2, <2>6, <2>7, OthersIdle, OneActs
<1>3. disturbed' # disturbed \cup {"raised"}
  OBVIOUS
<1> QED
  BY <1>1, <1>2, <1>3, NextAccountCases

LEMMA StepReadable ==
    ASSUME Basics, Agreed, Orderly, serial, disturbed = {}, NEW o \in Op, Step(o), disturbed' = {}
    PROVE  Orderly'
<1>1. ASSUME NEW call, At(o, call), call \notin {"set_sessions", "set_accounts", "set_upsert"}
      PROVE  Hashed = {} /\ RowsReadable /\ master_key \in {None, hash}
  <2>1. op[o].call = call /\ \A a \in Others(o) : op[a].call = "none"
    BY <1>1, TurnFields, OnlyOne
  <2>2. Hashed = {}
    BY <1>1, <2>1 DEF Hashed, Others
  <2> QED
    BY <2>2 DEF Orderly, Agreed, KeyAgrees
<1>2. ASSUME NEW call, At(o, call), Finish(o), RowsReadable' PROVE Orderly'
  <2>1. op'[o] = Idle /\ op'[o].call = "none"
    BY <1>2 DEF Finish, Idle, Basics, TypeOK
  <2>2. Alone(o)'
    BY <2>1 DEF Alone
  <2> QED
    BY <1>2, <2>2, OthersIdle, OneActs
<1>3. ASSUME NEW call, At(o, call), NEW l, Continue(o, l)
      PROVE  op'[o] = l /\ \A a \in Others(o) : op'[a].call = "none"
  BY <1>3, OthersIdle DEF Continue, Basics, TypeOK
<1>4. CASE UnlockReadSalt(o)
  <2> DEFINE l == [call |-> "unlock_hash", password |-> op[o].password, salt_b64 |-> salt]
  <2>1. At(o, "unlock_salt") /\ Continue(o, l) /\ l.call = "unlock_hash" /\ hash' = hash /\ row' = row
    BY <1>4 DEF UnlockReadSalt, settingVars
  <2> HIDE DEF l
  <2>2. Alone(o)' /\ RowsReadable'
    BY <1>1, <1>3, <2>1 DEF Alone, RowsReadable, Under
  <2> QED
    BY <1>3, <2>1, <2>2, OneActs
<1>5. CASE UnlockReadHash(o)
  <2>1. At(o, "unlock_hash") /\ Finish(o) /\ hash' = hash /\ row' = row
    BY <1>5 DEF UnlockReadHash, settingVars
  <2> QED
    BY <1>1, <1>2, <2>1 DEF RowsReadable, Under
<1>6. CASE SetRead(o)
  <2> DEFINE new == op[o].new_password
             l == [call |-> "set_salt", old_key |-> op[o].old_key, was_encrypted |-> hash # None,
                   new_key |-> IF new = None THEN None ELSE derive_master_key(new, salts + 1)]
  <2>1. /\ At(o, "set_read") /\ Continue(o, l) /\ hash' = hash /\ row' = row
        /\ ~(hash # None /\ op[o].old_key = None)
    BY <1>6 DEF SetRead, settingVars
  <2>2. l.call = "set_salt" /\ l.old_key = op[o].old_key /\ l.was_encrypted = (hash # None)
    OBVIOUS
  <2> HIDE DEF l
  <2>3. op'[o] = l
    BY <1>3, <2>1
  <2>4. op[o].old_key \in {None, hash}
    BY <2>1, TurnFields DEF Orderly, Alone
  <2>5. OldUnder(o)' = Under(hash)
    BY <2>1, <2>2, <2>3, <2>4 DEF OldUnder, Decrypts, Under
  <2>6. Alone(o)'
    BY <2>1, <2>2, <2>3, <2>5 DEF Alone, Under
  <2> QED
    BY <1>1, <1>3, <2>1, <2>6, OneActs DEF RowsReadable, Under
<1>7. CASE SetSalt(o)
  <2> DEFINE l == [op[o] EXCEPT !.call = "set_hash"]
  <2>1. At(o, "set_salt") /\ Continue(o, l) /\ hash' = hash /\ row' = row /\ op[o] \in ChangeLocals
    BY <1>7, TurnFields, CallFields DEF SetSalt, Reencrypting
  <2>2. l.call = "set_hash" /\ l.old_key = op[o].old_key /\ l.was_encrypted = op[o].was_encrypted
    BY <2>1 DEF ChangeLocals
  <2> HIDE DEF l
  <2>3. op'[o] = l /\ Under(hash) = OldUnder(o)
    BY <1>3, <2>1, TurnFields DEF Orderly, Alone
  <2>4. OldUnder(o)' = Under(hash)
    BY <2>2, <2>3 DEF OldUnder, Decrypts, Under
  <2>5. Alone(o)'
    BY <2>1, <2>2, <2>3, <2>4 DEF Alone, Under
  <2> QED
    BY <1>1, <1>3, <2>1, <2>5, OneActs DEF RowsReadable, Under
<1>8. CASE SetHash(o)
  <2> DEFINE l == [op[o] EXCEPT !.call = "set_sessions"]
  <2>1. /\ At(o, "set_hash") /\ Continue(o, l) /\ hash' = op[o].new_key /\ row' = row
        /\ op[o] \in ChangeLocals
    BY <1>8, TurnFields, CallFields DEF SetHash, Reencrypting
  <2>2. /\ l.call = "set_sessions" /\ l.old_key = op[o].old_key /\ l.was_encrypted = op[o].was_encrypted
        /\ l.new_key = op[o].new_key
    BY <2>1 DEF ChangeLocals
  <2> HIDE DEF l
  <2>3. op'[o] = l /\ Under(hash) = OldUnder(o)
    BY <1>3, <2>1, TurnFields DEF Orderly, Alone
  <2>4. OldUnder(o)' = OldUnder(o)
    BY <2>2, <2>3 DEF OldUnder, Decrypts, Under
  <2>5. \A e \in Email : row'[e] \in {None, OldUnder(o)'}
    BY <1>1, <2>1, <2>3, <2>4 DEF RowsReadable
  <2>6. Alone(o)' /\ o \in Hashed'
    BY <2>1, <2>2, <2>3, <2>5 DEF Alone, Hashed
  <2> QED
    BY <1>3, <2>1, <2>6, OneActs
<1>9. CASE SetSessions(o)
  <2> DEFINE l == [op[o] EXCEPT !.call = "set_accounts"]
  <2>1. /\ At(o, "set_sessions") /\ Continue(o, l) /\ hash' = hash /\ row' = row
        /\ op[o] \in ChangeLocals /\ op[o].call = "set_sessions"
    BY <1>9, TurnFields, CallFields DEF SetSessions, Reencrypting, settingVars
  <2>2. /\ l.call = "set_accounts" /\ l.old_key = op[o].old_key /\ l.was_encrypted = op[o].was_encrypted
        /\ l.new_key = op[o].new_key
    BY <2>1 DEF ChangeLocals
  <2> HIDE DEF l
  <2>3. op'[o] = l /\ hash = op[o].new_key /\ \A e \in Email : row[e] \in {None, OldUnder(o)}
    BY <1>3, <2>1 DEF Orderly, Alone
  <2>4. OldUnder(o)' = OldUnder(o)
    BY <2>2, <2>3 DEF OldUnder, Decrypts, Under
  <2>5. Alone(o)' /\ o \in Hashed'
    BY <2>1, <2>2, <2>3, <2>4 DEF Alone, Hashed
  <2> QED
    BY <1>3, <2>1, <2>5, OneActs
<1>10. CASE SetAccounts(o)
  <2>1. /\ At(o, "set_accounts") /\ op[o] \in ChangeLocals /\ op[o].call = "set_accounts"
        /\ hash' = hash /\ row' = row /\ NextAccount(o, row)
    BY <1>10, TurnFields, CallFields DEF SetAccounts, Reencrypting, settingVars
  <2>2. hash = op[o].new_key /\ \A e \in Email : row[e] \in {None, OldUnder(o)}
    BY <2>1 DEF Orderly, Alone
  <2> QED
    BY <2>1, <2>2, NextAccountReadable DEF ChangeLocals, Basics, TypeOK
<1>11. CASE SetUpsert(o)
  <2>1. /\ At(o, "set_upsert") /\ op[o] \in UpsertLocals /\ op[o].call = "set_upsert"
        /\ hash' = hash /\ row' = [row EXCEPT ![op[o].email] = op[o].stored]
        /\ NextAccount(o, op[o].accounts)
    BY <1>11, TurnFields, CallFields DEF SetUpsert, settingVars
  <2>2. /\ hash = op[o].new_key /\ op[o].stored = Under(hash)
        /\ \A e \in Email : op[o].accounts[e] \in {None, OldUnder(o)}
        /\ \A e \in Email : op[o].accounts[e] = None /\ e # op[o].email => row[e] \in {None, Under(hash)}
    BY <2>1 DEF Orderly, Alone
  <2>3. \A e \in Email : op[o].accounts[e] = None => row'[e] \in {None, Under(hash)}
    BY <2>1, <2>2 DEF Basics, TypeOK, Table
  <2> QED
    BY <2>1, <2>2, <2>3, NextAccountReadable DEF UpsertLocals
<1>12. CASE LoginRead(o)
  <2> DEFINE l == [call |-> "login_upsert", stored |-> Under(master_key), email |-> op[o].email]
  <2>1. /\ At(o, "login_read") /\ hash' = hash /\ row' = row
        /\ Finish(o) \/ (~IsLocked /\ Continue(o, l))
    BY <1>12 DEF LoginRead, settingVars
  <2>2. l.call = "login_upsert" /\ l.stored = Under(master_key)
    OBVIOUS
  <2> HIDE DEF l
  <2>3. RowsReadable' /\ master_key \in {None, hash}
    BY <1>1, <2>1 DEF RowsReadable, Under
  <2>4. CASE ~IsLocked /\ Continue(o, l)
    <3>1. Under(master_key) = Under(hash)
      BY <2>3, <2>4 DEF IsLocked
    <3>2. Alone(o)'
      BY <1>3, <2>1, <2>2, <2>4, <3>1 DEF Alone, Under
    <3> QED
      BY <1>3, <2>1, <2>3, <2>4, <3>2, OneActs
  <2> QED
    BY <1>2, <2>1, <2>3, <2>4
<1>13. CASE LoginUpsert(o)
  <2>1. /\ At(o, "login_upsert") /\ Finish(o) /\ hash' = hash
        /\ row' = [row EXCEPT ![op[o].email] = op[o].stored]
    BY <1>13 DEF LoginUpsert, settingVars
  <2>2. op[o].stored = Under(hash)
    BY <2>1, TurnFields DEF Orderly, Alone
  <2>3. RowsReadable'
    BY <1>1, <2>1, <2>2 DEF RowsReadable, Under, Basics, TypeOK, Table
  <2> QED
    BY <1>2, <2>1, <2>3
<1>14. CASE DeleteRow(o)
  <2>1. /\ At(o, "delete") /\ Finish(o) /\ hash' = hash
        /\ row' = [row EXCEPT ![op[o].email] = None]
    BY <1>14 DEF DeleteRow, settingVars
  <2>2. RowsReadable'
    BY <1>1, <2>1 DEF RowsReadable, Under, Basics, TypeOK, Table
  <2> QED
    BY <1>2, <2>1, <2>2
<1> QED
  BY <1>4, <1>5, <1>6, <1>7, <1>8, <1>9, <1>10, <1>11, <1>12, <1>13, <1>14 DEF Step

\* What a change of its own finds is never under another key.
LEMMA NeverRaises ==
    ASSUME NEW o \in Op, NEW stored, stored = OldUnder(o)
    PROVE  ~Undecryptable(op[o], stored)
<1> SUFFICES ASSUME Decrypts(op[o]) PROVE Outermost(stored) = op[o].old_key
  BY DEF Undecryptable
<1>1. stored = <<op[o].old_key>> /\ Len(stored) = 1
  BY DEF OldUnder, Under, Decrypts
<1> QED
  BY <1>1 DEF Outermost

\* A lone request disturbs nothing, unless it is a change of a locked store.
LEMMA StepUndisturbed ==
    ASSUME Basics, Orderly, serial, disturbed = {}, NEW o \in Op, Step(o), Unbroken'
    PROVE  disturbed' = {}
<1>1. CASE SetRead(o)
  BY <1>1 DEF SetRead, Unbroken
<1>2. CASE DeleteRow(o)
  <2>1. op[o].call = "delete" /\ \A a \in Others(o) : op[a].call = "none"
    BY <1>2, TurnFields, OnlyOne DEF DeleteRow
  <2>2. ~Changing
    BY <2>1 DEF Changing, Changes, Others
  <2> QED
    BY <1>2, <2>2 DEF DeleteRow
<1>3. ASSUME NEW accounts, NextAccount(o, accounts),
             \A e \in Email : accounts[e] \in {None, OldUnder(o)}
      PROVE  disturbed' = {}
  <2>1. \A e \in Email : accounts[e] # None => ~Undecryptable(op[o], accounts[e])
    BY <1>3, NeverRaises
  <2> QED
    BY <1>3, <2>1, NextAccountCases
<1>4. CASE SetAccounts(o)
  <2>1. op[o].call = "set_accounts" /\ NextAccount(o, row)
    BY <1>4, TurnFields DEF SetAccounts
  <2> QED
    BY <1>3, <2>1 DEF Orderly, Alone
<1>5. CASE SetUpsert(o)
  <2>1. op[o].call = "set_upsert" /\ NextAccount(o, op[o].accounts)
    BY <1>5, TurnFields DEF SetUpsert
  <2> QED
    BY <1>3, <2>1 DEF Orderly, Alone
<1>6. CASE \/ UnlockReadSalt(o) \/ UnlockReadHash(o) \/ SetSalt(o) \/ SetHash(o)
           \/ SetSessions(o) \/ LoginRead(o) \/ LoginUpsert(o)
  BY <1>6 DEF UnlockReadSalt, UnlockReadHash, SetSalt, SetHash, SetSessions, LoginRead, LoginUpsert
<1> QED
  BY <1>1, <1>2, <1>4, <1>5, <1>6 DEF Step

LEMMA ReadabilityStep == Basics /\ Agreement /\ Readability /\ [StoreNext]_storeVars => Readability'
<1> SUFFICES ASSUME Basics, Agreement, Readability, [StoreNext]_storeVars, serial', Unbroken'
             PROVE  disturbed' = {} /\ Orderly'
  BY DEF Readability
<1>1. ASSUME NEW o \in Op, Unlock(o) \/ SetMasterPassword(o) \/ Login(o) \/ Delete(o)
      PROVE  disturbed' = {} /\ Orderly'
  <2>1. PICK l \in Call : /\ Request(o, l) /\ l.call \in {"unlock_salt", "set_read", "login_read", "delete"}
                          /\ l.call = "set_read" => l.old_key = master_key
    BY <1>1, RequestKinds
  <2>2. /\ serial /\ disturbed' = disturbed /\ lock_queue = <<>>
        /\ hash' = hash /\ row' = row
        /\ op' = [op EXCEPT ![o] = l]
    BY <2>1 DEF Request, settingVars, countVars
  <2>0. disturbed = {} /\ Orderly
    BY <2>2 DEF Readability, Unbroken
  <2>3. \A a \in Op : op[a].call = "none"
    <3>1. Len(lock_queue) = 0
      BY <2>2, EmptySeq
    <3> QED
      BY <3>1 DEF Basics, QueueOK, Queued
  <2>4. Hashed = {}
    BY <2>3 DEF Hashed
  <2>5. RowsReadable' /\ master_key \in {None, hash}
    BY <2>0, <2>2, <2>4 DEF Orderly, RowsReadable, Under, Agreement, Agreed, KeyAgrees
  <2>6. op'[o] = l /\ \A a \in Others(o) : op'[a].call = "none"
    BY <2>2, <2>3 DEF Basics, TypeOK, Others
  <2>7. Alone(o)'
    BY <2>1, <2>2, <2>5, <2>6 DEF Alone
  <2> QED
    BY <2>0, <2>2, <2>5, <2>6, <2>7, OneActs
<1>2. ASSUME NEW o \in Op, Step(o) PROVE disturbed' = {} /\ Orderly'
  <2>1. serial' = serial
    BY <1>2 DEF Step, UnlockReadSalt, UnlockReadHash, SetRead, SetSalt, SetHash, SetSessions,
         SetAccounts, SetUpsert, LoginRead, LoginUpsert, DeleteRow, countVars
  <2>2. disturbed = {} /\ Orderly
    BY <1>2, <2>1, DisturbedStays DEF Readability, Unbroken
  <2>3. disturbed' = {}
    BY <1>2, <2>1, <2>2, StepUndisturbed
  <2> QED
    BY <1>2, <2>1, <2>2, <2>3, StepReadable DEF Agreement
<1>3. CASE Restart
  <2>0. disturbed \subseteq disturbed' /\ serial /\ disturbed' = disturbed \cup IF Changing THEN {"cut"} ELSE {}
    BY <1>3 DEF Restart
  <2>1. /\ disturbed = {} /\ disturbed' = {} /\ Orderly /\ ~Changing /\ hash' = hash /\ row' = row
    BY <1>3, <2>0 DEF Restart, settingVars, Unbroken, Readability
  <2>2. Hashed = {}
    BY <2>1 DEF Changing, Changes, Hashed
  <2>3. \A o \in Op : op'[o].call = "none"
    BY <1>3 DEF Restart, Idle
  <2>4. \A o \in Op : Alone(o)'
    BY <2>3 DEF Alone
  <2>5. RowsReadable'
    BY <2>1, <2>2 DEF Orderly, RowsReadable, Under
  <2> QED
    BY <2>1, <2>4, <2>5 DEF Orderly
<1>4. CASE UNCHANGED storeVars
  <2>1. hash' = hash /\ row' = row /\ op' = op /\ serial' = serial /\ disturbed' = disturbed
    BY <1>4 DEF storeVars, settingVars, countVars
  <2>2. /\ Hashed' = Hashed /\ (RowsReadable' <=> RowsReadable)
        /\ \A o \in Op : OldUnder(o)' = OldUnder(o) /\ Under(hash)' = Under(hash)
    BY <2>1 DEF Hashed, RowsReadable, OldUnder, Under, Decrypts
  <2>3. \A o \in Op : Alone(o)' <=> Alone(o)
    BY <2>1, <2>2 DEF Alone
  <2> QED
    BY <2>1, <2>2, <2>3 DEF Readability, Orderly, Unbroken
<1> QED
  BY <1>1, <1>2, <1>3, <1>4 DEF StoreNext

LEMMA ReadabilityInit == StoreInit => Readability
<1> SUFFICES ASSUME StoreInit PROVE Orderly
  BY DEF Readability, StoreInit
<1>1. \A o \in Op : op[o].call = "none"
  BY DEF StoreInit, Idle
<1> QED
  BY <1>1 DEF StoreInit, Orderly, Alone, RowsReadable

\* Every account can be read with the current password after any sequence of
\* requests of which each waits for the last one, for any accounts and passwords:
\* re-encryption takes every row from the old key to the new one, once, unless a
\* change is cut short or made on a locked store.
THEOREM AccountsStayReadable == StoreSpec => []AccountsReadable
<1>1. StoreInit => Basics /\ Agreement /\ Readability
  BY BasicsInit, AgreementInit, ReadabilityInit
<1>2. Basics /\ Agreement /\ Readability /\ [StoreNext]_storeVars => (Basics /\ Agreement /\ Readability)'
  BY BasicsStep, AgreementStep, ReadabilityStep
<1>3. Basics /\ Readability => AccountsReadable
  <2> SUFFICES ASSUME Basics, Readability, serial, Unbroken, lock_queue = <<>>
               PROVE  RowsReadable
    BY DEF AccountsReadable, Readable, RowsReadable
  <2>1. Len(lock_queue) = 0
    BY EmptySeq
  <2>2. Hashed = {}
    BY <2>1 DEF Basics, QueueOK, Queued, Hashed
  <2> QED
    BY <2>2 DEF Readability, Orderly
<1> QED
  BY <1>1, <1>2, <1>3, PTL DEF StoreSpec
=============================================================================
