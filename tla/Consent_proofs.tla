--------------------------- MODULE Consent_proofs ---------------------------
(***************************************************************************)
(* Theorems about Consent, for every set of addresses and requests and     *)
(* every value of the bounds.                                              *)
(***************************************************************************)
EXTENDS Consent, TLAPS

USE ConsentAssumption

-----------------------------------------------------------------------------
(***************************************************************************)
(* The inductive invariant.                                                *)
(***************************************************************************)

\* A request under way is about an address.  UpdateContact holds an id that was
\* given to a contact of the address, so that no later contact has it.
Request(c) ==
    /\ pc[c] # "idle" => addr[c] \in Addrs
    /\ pc[c] \in {"flag", "find"} => id[c] # 0 /\ id[c] <= created[addr[c]]
    /\ pc[c] = "unsuppress" => ~wish[c]

\* Ids are given in order.
Issued == \A a \in Addrs : contact[a] <= created[a]

\* A resubscription that has not failed yet: the contact it changed is there.
Live(a) ==
    \E c \in Calls :
       /\ addr[c] = a
       /\ ~wish[c]
       /\ pc[c] = "unsuppress" \/ (pc[c] = "find" /\ contact[a] = id[c])

\* The suppression alone is enough while no one is about to delete it.
Held(a) == unsubscribed[a] \/ (reason[a] # "none" /\ ~Live(a))

\* A Send for a recipient who wants no email finds the flag, unless it may
\* still find the suppression; past both lookups, one of them has failed.
Spared(c) ==
    /\ pc[c] \in {"lookup", "contact", "accept"}
    /\ addr[c] \in out
    /\ pc[c] = "contact" /\ clean[c] => unsubscribed[addr[c]]
    /\ pc[c] = "accept" => ~clean[c]

IInv ==
    /\ TypeOK
    /\ \A c \in Calls : Request(c)
    /\ Issued
    /\ \A a \in out : Held(a)
    /\ \A c \in unwilling : Spared(c)

-----------------------------------------------------------------------------
(***************************************************************************)
(* Type correctness.                                                       *)
(***************************************************************************)

LEMMA Merged ==
  ASSUME NEW old \in Reasons \cup {"none"}, NEW new \in Reasons
  PROVE  /\ mergedReason(old, new) \in Reasons
         /\ mergedReason(old, new) # "none"
         /\ old \in HardReasons => mergedReason(old, new) \in HardReasons
  BY DEF mergedReason, Reasons, HardReasons

\* The variables of a request have their types.
RequestTyped ==
    /\ pc    \in [Calls -> Pcs]
    /\ addr  \in [Calls -> Addrs \cup {NoAddr}]
    /\ id    \in [Calls -> 0 .. MaxContacts]
    /\ wish  \in [Calls -> BOOLEAN]
    /\ clean \in [Calls -> BOOLEAN]

LEMMA ReturnTyped ==
  ASSUME TypeOK, NEW c \in Calls, Return(c)
  PROVE  RequestTyped'
  BY DEF TypeOK, Return, RequestTyped, Pcs

LEMMA ThenTyped ==
  ASSUME TypeOK, NEW c \in Calls, NEW next \in Pcs, Then(c, next)
  PROVE  RequestTyped'
  BY DEF TypeOK, Then, RequestTyped, request

LEMMA AfterErrorFacts ==
  /\ DOMAIN AfterError = {"mark", "flag", "lookup", "contact"}
  /\ AfterError["mark"] = "suppress"
  /\ AfterError["flag"] = "find"
  /\ AfterError["lookup"] = "contact"
  /\ AfterError["contact"] = "accept"
  /\ \A s \in DOMAIN AfterError : AfterError[s] \in Pcs
  BY DEF AfterError, Pcs

LEMMA InitIInv == Init => IInv
  BY DEF Init, IInv, TypeOK, Pcs, Request, Issued, Held, Spared, Reasons

LEMMA NextTypeOK ==
  ASSUME IInv, Next
  PROVE  TypeOK'
  <1> USE DEF postgres, request
  <1>0. TypeOK /\ (\A c \in Calls : Request(c)) /\ Issued
    BY DEF IInv
  <1>1. ASSUME NEW a \in Addrs, CreateContact(a) PROVE TypeOK'
    BY <1>0, <1>1 DEF TypeOK, CreateContact, Upsert
  <1>2. ASSUME NEW a \in Addrs, DeleteContact(a) PROVE TypeOK'
    BY <1>0, <1>2 DEF TypeOK, DeleteContact, DeleteRow, NowIn
  <1>3. ASSUME NEW a \in Addrs, Remove(a) PROVE TypeOK'
    BY <1>0, <1>3 DEF TypeOK, Remove, NowIn
  <1>4. ASSUME NEW a \in Addrs, NEW new \in Reasons, Add(a, new) PROVE TypeOK'
    BY <1>0, <1>4, Merged DEF TypeOK, Add
  <1>5. ASSUME NEW a \in Addrs, NEW c \in Calls, Unsubscribe(c, a) PROVE TypeOK'
    BY <1>0, <1>5 DEF TypeOK, Unsubscribe, Begin, Pcs
  <1>6. ASSUME NEW a \in Addrs, NEW c \in Calls, SendTo(c, a) PROVE TypeOK'
    BY <1>0, <1>6 DEF TypeOK, SendTo, Begin, Pcs
  <1>7. ASSUME NEW a \in Addrs, NEW c \in Calls, NEW w \in BOOLEAN,
               UpdateContact(c, a, w)
        PROVE  TypeOK'
    BY <1>0, <1>7 DEF TypeOK, UpdateContact, Begin, Pcs
  <1>8. ASSUME NEW c \in Calls, MarkContact(c) PROVE TypeOK'
    BY <1>0, <1>8 DEF TypeOK, MarkContact, Then, Pcs, Request
  <1>9. ASSUME NEW c \in Calls, Suppress(c) PROVE TypeOK'
    BY <1>0, <1>9, Merged DEF TypeOK, Suppress, Return, NowOut, Pcs, Request, Reasons
  <1>10. ASSUME NEW c \in Calls, FlagContact(c) PROVE TypeOK'
    BY <1>0, <1>10 DEF TypeOK, FlagContact, Then, NowIn, Pcs, Request
  <1>11. ASSUME NEW c \in Calls, FindAddress(c) PROVE TypeOK'
    <2>1. RequestTyped'
      <3>1. CASE contact[addr[c]] = id[c]
        <4>1. (IF wish[c] THEN "suppress" ELSE "unsuppress") \in Pcs
          BY DEF Pcs
        <4> QED BY <1>0, <1>11, <3>1, <4>1, ThenTyped DEF FindAddress
      <3>2. CASE contact[addr[c]] # id[c]
        BY <1>0, <1>11, <3>2, ReturnTyped DEF FindAddress
      <3> QED BY <3>1, <3>2
    <2>2. UNCHANGED <<postgres, failures, out, unwilling>>
      BY <1>11 DEF FindAddress
    <2> QED BY <1>0, <2>1, <2>2 DEF TypeOK, RequestTyped
  <1>12. ASSUME NEW c \in Calls, Unsuppress(c) PROVE TypeOK'
    <2>1. RequestTyped'
      BY <1>0, <1>12, ReturnTyped DEF Unsuppress, UnsuppressFor
    <2> QED BY <1>0, <1>12, <2>1 DEF TypeOK, Unsuppress, UnsuppressFor, RequestTyped
  <1>13. ASSUME NEW c \in Calls, LookupSuppression(c) PROVE TypeOK'
    <2>1. RequestTyped'
      BY <1>0, <1>13, ReturnTyped, ThenTyped DEF LookupSuppression, Pcs
    <2> QED BY <1>0, <1>13, <2>1 DEF TypeOK, LookupSuppression, RequestTyped
  <1>14. ASSUME NEW c \in Calls, LookupContact(c) PROVE TypeOK'
    <2>1. RequestTyped'
      BY <1>0, <1>14, ReturnTyped, ThenTyped DEF LookupContact, Pcs
    <2> QED BY <1>0, <1>14, <2>1 DEF TypeOK, LookupContact, RequestTyped
  <1>15. ASSUME NEW c \in Calls, Accept(c) PROVE TypeOK'
    BY <1>0, <1>15 DEF TypeOK, Accept, Return, Pcs
  <1>16. ASSUME NEW c \in Calls, StatementFails(c) PROVE TypeOK'
    <2>1. RequestTyped'
      <3>1. CASE pc[c] \in DOMAIN AfterError
        BY <1>0, <1>16, <3>1, AfterErrorFacts DEF TypeOK, StatementFails, RequestTyped
      <3>2. CASE pc[c] \notin DOMAIN AfterError
        BY <1>0, <1>16, <3>2, ReturnTyped DEF StatementFails
      <3> QED BY <3>1, <3>2
    <2>2. out' \subseteq Addrs /\ unwilling' \subseteq Calls
      BY <1>0, <1>16 DEF TypeOK, StatementFails, NowIn
    <2>3. failures' \in 0 .. MaxFailures /\ UNCHANGED postgres
      BY <1>0, <1>16 DEF TypeOK, StatementFails
    <2> QED BY <1>0, <2>1, <2>2, <2>3 DEF TypeOK, RequestTyped
  <1>17. ASSUME NEW c \in Calls, Abort(c) PROVE TypeOK'
    BY <1>0, <1>17 DEF TypeOK, Abort, Return, Pcs
  <1> QED BY <1>1, <1>2, <1>3, <1>4, <1>5, <1>6, <1>7, <1>8, <1>9, <1>10,
             <1>11, <1>12, <1>13, <1>14, <1>15, <1>16, <1>17 DEF Next

-----------------------------------------------------------------------------
(***************************************************************************)
(* The other conjuncts.                                                    *)
(***************************************************************************)

\* A statement that fails either leaves the request where the next one is, or
\* ends it.
LEMMA FailureCases ==
  ASSUME TypeOK, NEW c \in Calls, StatementFails(c)
  PROVE  /\ UNCHANGED postgres
         /\ \/ /\ pc[c] \in {"mark", "lookup", "contact"}
               /\ pc' = [pc EXCEPT ![c] = IF pc[c] = "mark" THEN "suppress"
                                         ELSE IF pc[c] = "lookup" THEN "contact" ELSE "accept"]
               /\ clean' = [clean EXCEPT ![c] = FALSE]
               /\ UNCHANGED <<addr, id, wish, out, unwilling>>
            \/ /\ pc[c] = "flag"
               /\ pc' = [pc EXCEPT ![c] = "find"]
               /\ clean' = [clean EXCEPT ![c] = FALSE]
               /\ UNCHANGED <<addr, id, wish>>
               /\ IF wish[c] THEN UNCHANGED <<out, unwilling>> ELSE NowIn(addr[c])
            \/ /\ Return(c)
               /\ unwilling' = unwilling \ {c}
               /\ UNCHANGED out
  <1>1. CASE pc[c] \in {"mark", "lookup", "contact"}
    BY <1>1, AfterErrorFacts DEF StatementFails
  <1>2. CASE pc[c] = "flag"
    <2>1. AfterError[pc[c]] = "find"
      BY <1>2, AfterErrorFacts
    <2>2. wish[c] \in BOOLEAN
      BY DEF TypeOK
    <2> QED BY <1>2, <2>1, <2>2, AfterErrorFacts DEF StatementFails
  <1>3. CASE pc[c] \notin {"mark", "flag", "lookup", "contact"}
    BY <1>3, AfterErrorFacts DEF StatementFails
  <1> QED BY <1>1, <1>2, <1>3

LEMMA NextRequest ==
  ASSUME IInv, Next, NEW r \in Calls
  PROVE  Request(r)'
  <1> USE DEF postgres, request
  <1>0. TypeOK /\ TypeOK' /\ (\A c \in Calls : Request(c)) /\ Issued
    BY NextTypeOK DEF IInv
  <1>1. ASSUME NEW a \in Addrs, CreateContact(a)
        PROVE  Request(r)'
    BY <1>0, <1>1 DEF TypeOK, Request, Issued, CreateContact, Upsert
  <1>2. ASSUME NEW a \in Addrs, DeleteContact(a)
        PROVE  Request(r)'
    BY <1>0, <1>2 DEF TypeOK, Request, Issued, DeleteContact, DeleteRow, NowIn, Resubscribing
  <1>3. ASSUME NEW a \in Addrs, Remove(a)
        PROVE  Request(r)'
    BY <1>0, <1>3 DEF TypeOK, Request, Issued, Remove, NowIn
  <1>4. ASSUME NEW a \in Addrs, NEW new \in Reasons, Add(a, new)
        PROVE  Request(r)'
    BY <1>0, <1>4 DEF TypeOK, Request, Issued, Add
  <1>5. ASSUME NEW a \in Addrs, NEW c \in Calls, Unsubscribe(c, a)
        PROVE  Request(r)'
    BY <1>0, <1>5 DEF TypeOK, Request, Issued, Unsubscribe, Begin
  <1>6. ASSUME NEW a \in Addrs, NEW c \in Calls, SendTo(c, a)
        PROVE  Request(r)'
    BY <1>0, <1>6 DEF TypeOK, Request, Issued, SendTo, Begin
  <1>7. ASSUME NEW a \in Addrs, NEW c \in Calls, NEW w \in BOOLEAN, UpdateContact(c, a, w)
        PROVE  Request(r)'
    BY <1>0, <1>7 DEF TypeOK, Request, Issued, UpdateContact, Begin
  <1>8. ASSUME NEW c \in Calls, MarkContact(c)
        PROVE  Request(r)'
    BY <1>0, <1>8 DEF TypeOK, Request, Issued, MarkContact, Then
  <1>9. ASSUME NEW c \in Calls, Suppress(c)
        PROVE  Request(r)'
    BY <1>0, <1>9 DEF TypeOK, Request, Issued, Suppress, Return, NowOut, Resubscribing
  <1>10. ASSUME NEW c \in Calls, FlagContact(c)
        PROVE  Request(r)'
    BY <1>0, <1>10 DEF TypeOK, Request, Issued, FlagContact, Then, NowIn
  <1>11. ASSUME NEW c \in Calls, FindAddress(c)
        PROVE  Request(r)'
    BY <1>0, <1>11 DEF TypeOK, Request, Issued, FindAddress, Then, Return
  <1>12. ASSUME NEW c \in Calls, Unsuppress(c)
        PROVE  Request(r)'
    BY <1>0, <1>12 DEF TypeOK, Request, Issued, Unsuppress, UnsuppressFor, Return
  <1>13. ASSUME NEW c \in Calls, LookupSuppression(c)
        PROVE  Request(r)'
    BY <1>0, <1>13 DEF TypeOK, Request, Issued, LookupSuppression, Then, Return
  <1>14. ASSUME NEW c \in Calls, LookupContact(c)
        PROVE  Request(r)'
    BY <1>0, <1>14 DEF TypeOK, Request, Issued, LookupContact, Then, Return
  <1>15. ASSUME NEW c \in Calls, Accept(c)
        PROVE  Request(r)'
    BY <1>0, <1>15 DEF TypeOK, Request, Issued, Accept, Return
  <1>16. ASSUME NEW c \in Calls, StatementFails(c)
        PROVE  Request(r)'
    BY <1>0, <1>16, FailureCases DEF TypeOK, Request, Issued, Return
  <1>17. ASSUME NEW c \in Calls, Abort(c)
        PROVE  Request(r)'
    BY <1>0, <1>17 DEF TypeOK, Request, Issued, Abort, Return
  <1> QED BY <1>1, <1>2, <1>3, <1>4, <1>5, <1>6, <1>7, <1>8, <1>9, <1>10,
             <1>11, <1>12, <1>13, <1>14, <1>15, <1>16, <1>17 DEF Next

LEMMA NextIssued ==
  ASSUME IInv, Next
  PROVE  Issued'
  <1> USE DEF postgres, request
  <1>0. TypeOK /\ Issued
    BY DEF IInv
  <1>1. ASSUME NEW a \in Addrs, CreateContact(a)
        PROVE  Issued'
    BY <1>0, <1>1 DEF TypeOK, Issued, CreateContact, Upsert
  <1>2. ASSUME NEW a \in Addrs, DeleteContact(a)
        PROVE  Issued'
    BY <1>0, <1>2 DEF TypeOK, Issued, DeleteContact, DeleteRow, NowIn, Resubscribing
  <1>3. ASSUME NEW a \in Addrs, Remove(a)
        PROVE  Issued'
    BY <1>0, <1>3 DEF TypeOK, Issued, Remove, NowIn
  <1>4. ASSUME NEW a \in Addrs, NEW new \in Reasons, Add(a, new)
        PROVE  Issued'
    BY <1>0, <1>4 DEF TypeOK, Issued, Add
  <1>5. ASSUME NEW a \in Addrs, NEW c \in Calls, Unsubscribe(c, a)
        PROVE  Issued'
    BY <1>0, <1>5 DEF TypeOK, Issued, Unsubscribe, Begin
  <1>6. ASSUME NEW a \in Addrs, NEW c \in Calls, SendTo(c, a)
        PROVE  Issued'
    BY <1>0, <1>6 DEF TypeOK, Issued, SendTo, Begin
  <1>7. ASSUME NEW a \in Addrs, NEW c \in Calls, NEW w \in BOOLEAN, UpdateContact(c, a, w)
        PROVE  Issued'
    BY <1>0, <1>7 DEF TypeOK, Issued, UpdateContact, Begin
  <1>8. ASSUME NEW c \in Calls, MarkContact(c)
        PROVE  Issued'
    BY <1>0, <1>8 DEF TypeOK, Issued, MarkContact, Then
  <1>9. ASSUME NEW c \in Calls, Suppress(c)
        PROVE  Issued'
    BY <1>0, <1>9 DEF TypeOK, Issued, Suppress, Return, NowOut, Resubscribing
  <1>10. ASSUME NEW c \in Calls, FlagContact(c)
        PROVE  Issued'
    BY <1>0, <1>10 DEF TypeOK, Issued, FlagContact, Then, NowIn
  <1>11. ASSUME NEW c \in Calls, FindAddress(c)
        PROVE  Issued'
    BY <1>0, <1>11 DEF TypeOK, Issued, FindAddress, Then, Return
  <1>12. ASSUME NEW c \in Calls, Unsuppress(c)
        PROVE  Issued'
    BY <1>0, <1>12 DEF TypeOK, Issued, Unsuppress, UnsuppressFor, Return
  <1>13. ASSUME NEW c \in Calls, LookupSuppression(c)
        PROVE  Issued'
    BY <1>0, <1>13 DEF TypeOK, Issued, LookupSuppression, Then, Return
  <1>14. ASSUME NEW c \in Calls, LookupContact(c)
        PROVE  Issued'
    BY <1>0, <1>14 DEF TypeOK, Issued, LookupContact, Then, Return
  <1>15. ASSUME NEW c \in Calls, Accept(c)
        PROVE  Issued'
    BY <1>0, <1>15 DEF TypeOK, Issued, Accept, Return
  <1>16. ASSUME NEW c \in Calls, StatementFails(c)
        PROVE  Issued'
    BY <1>0, <1>16 DEF TypeOK, Issued, StatementFails, NowIn, Return
  <1>17. ASSUME NEW c \in Calls, Abort(c)
        PROVE  Issued'
    BY <1>0, <1>17 DEF TypeOK, Issued, Abort, Return
  <1> QED BY <1>1, <1>2, <1>3, <1>4, <1>5, <1>6, <1>7, <1>8, <1>9, <1>10,
             <1>11, <1>12, <1>13, <1>14, <1>15, <1>16, <1>17 DEF Next

LEMMA NextHeld ==
  ASSUME IInv, Next, NEW b \in out'
  PROVE  Held(b)'
  <1> USE DEF postgres, request
  <1>0. TypeOK /\ TypeOK' /\ (\A c \in Calls : Request(c)) /\ Issued /\ (\A a \in out : Held(a))
    BY NextTypeOK DEF IInv
  <1>1. ASSUME NEW a \in Addrs, CreateContact(a)
        PROVE  Held(b)'
    <2>1. b \in out /\ b \in Addrs /\ UNCHANGED <<unsubscribed, reason, pc, request>>
      BY <1>0, <1>1 DEF TypeOK, CreateContact, Upsert
    <2>2. ASSUME Live(b)' PROVE Live(b)
      <3>1. PICK c \in Calls : /\ addr[c] = b /\ ~wish[c]
                               /\ \/ pc[c] = "unsuppress"
                                  \/ pc[c] = "find" /\ contact'[b] = id[c]
        BY <2>1, <2>2 DEF Live
      <3>2. ASSUME pc[c] = "find", contact'[b] # contact[b] PROVE contact'[b] # id[c]
        <4>1. contact'[b] = created[b] + 1
          BY <1>0, <1>1, <2>1, <3>2 DEF TypeOK, CreateContact, Upsert
        <4>2. id[c] <= created[b] /\ id[c] \in Nat /\ created[b] \in Nat
          BY <1>0, <2>1, <3>1, <3>2 DEF TypeOK, Request
        <4> QED BY <4>1, <4>2
      <3>3. pc[c] = "unsuppress" \/ (pc[c] = "find" /\ contact[b] = id[c])
        BY <3>1, <3>2
      <3> QED BY <3>1, <3>3 DEF Live
    <2> QED BY <1>0, <2>1, <2>2 DEF Held
  <1>2. ASSUME NEW a \in Addrs, DeleteContact(a)
        PROVE  Held(b)'
    BY <1>0, <1>2, Merged DEF TypeOK, Held, Live, Request, Issued,
       DeleteContact, DeleteRow, NowIn, Resubscribing
  <1>3. ASSUME NEW a \in Addrs, Remove(a)
        PROVE  Held(b)'
    BY <1>0, <1>3, Merged DEF TypeOK, Held, Live, Request, Issued, Remove, NowIn
  <1>4. ASSUME NEW a \in Addrs, NEW new \in Reasons, Add(a, new)
        PROVE  Held(b)'
    <2>1. b \in out /\ b \in Addrs /\ (Live(b)' <=> Live(b))
      BY <1>0, <1>4 DEF TypeOK, Add, Live
    <2>2. reason[b] # "none" => reason'[b] # "none"
      BY <1>0, <1>4, <2>1, Merged DEF TypeOK, Add
    <2> QED BY <1>0, <1>4, <2>1, <2>2 DEF Held, Add
  <1>5. ASSUME NEW a \in Addrs, NEW c \in Calls, Unsubscribe(c, a)
        PROVE  Held(b)'
    BY <1>0, <1>5, Merged DEF TypeOK, Held, Live, Request, Issued, Unsubscribe, Begin
  <1>6. ASSUME NEW a \in Addrs, NEW c \in Calls, SendTo(c, a)
        PROVE  Held(b)'
    BY <1>0, <1>6, Merged DEF TypeOK, Held, Live, Request, Issued, SendTo, Begin
  <1>7. ASSUME NEW a \in Addrs, NEW c \in Calls, NEW w \in BOOLEAN, UpdateContact(c, a, w)
        PROVE  Held(b)'
    BY <1>0, <1>7, Merged DEF TypeOK, Held, Live, Request, Issued, UpdateContact, Begin
  <1>8. ASSUME NEW c \in Calls, MarkContact(c)
        PROVE  Held(b)'
    BY <1>0, <1>8, Merged DEF TypeOK, Held, Live, Request, Issued, MarkContact, Then
  <1>9. ASSUME NEW c \in Calls, Suppress(c)
        PROVE  Held(b)'
    <2>1. addr[c] \in Addrs /\ b \in Addrs /\ UNCHANGED <<contact, unsubscribed>>
      BY <1>0, <1>9 DEF TypeOK, Request, Suppress
    <2>2. Live(b)' => Live(b)
      BY <1>0, <1>9 DEF TypeOK, Suppress, Return, Live
    <2>3. b = addr[c] \/ reason[b] # "none" => reason'[b] # "none"
      BY <1>0, <1>9, <2>1, Merged DEF TypeOK, Suppress, Reasons
    <2>4. Live(b) => Resubscribing(b)
      BY DEF Live, Resubscribing
    <2>5. b \in out \/ (b = addr[c] /\ (unsubscribed[b] \/ ~Resubscribing(b)))
      <3>1. \/ out' = out
            \/ out' = out \cup {addr[c]} /\ (unsubscribed[addr[c]] \/ ~Resubscribing(addr[c]))
        BY <1>9 DEF Suppress, NowOut
      <3>2. CASE b \in out
        BY <3>2
      <3>3. CASE b \notin out
        <4>1. b = addr[c]
          BY <3>1, <3>3
        <4> QED BY <3>1, <3>3, <4>1
      <3> QED BY <3>2, <3>3
    <2> QED BY <1>0, <2>1, <2>2, <2>3, <2>4, <2>5 DEF Held
  <1>10. ASSUME NEW c \in Calls, FlagContact(c)
        PROVE  Held(b)'
    BY <1>0, <1>10, Merged DEF TypeOK, Held, Live, Request, Issued, FlagContact, Then, NowIn
  <1>11. ASSUME NEW c \in Calls, FindAddress(c)
        PROVE  Held(b)'
    BY <1>0, <1>11, Merged DEF TypeOK, Held, Live, Request, Issued, FindAddress, Then, Return
  <1>12. ASSUME NEW c \in Calls, Unsuppress(c)
        PROVE  Held(b)'
    <2>1. b \in out /\ b \in Addrs /\ UNCHANGED <<contact, unsubscribed>>
      BY <1>0, <1>12 DEF TypeOK, Unsuppress, UnsuppressFor
    <2>2. Live(b)' => Live(b)
      BY <1>0, <1>12 DEF TypeOK, Unsuppress, UnsuppressFor, Return, Live
    <2>3. CASE b = addr[c]
      <3>1. Live(b)
        <4>1. pc[c] = "unsuppress" /\ ~wish[c]
          BY <1>0, <1>12 DEF Request, Unsuppress, UnsuppressFor
        <4> QED BY <2>3, <4>1 DEF Live
      <3> QED BY <1>0, <2>1, <3>1 DEF Held
    <2>4. CASE b # addr[c]
      <3>1. reason'[b] = reason[b]
        BY <1>0, <1>12, <2>1, <2>4 DEF TypeOK, Unsuppress, UnsuppressFor
      <3> QED BY <1>0, <2>1, <2>2, <3>1 DEF Held
    <2> QED BY <2>3, <2>4
  <1>13. ASSUME NEW c \in Calls, LookupSuppression(c)
        PROVE  Held(b)'
    BY <1>0, <1>13, Merged DEF TypeOK, Held, Live, Request, Issued, LookupSuppression, Then, Return
  <1>14. ASSUME NEW c \in Calls, LookupContact(c)
        PROVE  Held(b)'
    BY <1>0, <1>14, Merged DEF TypeOK, Held, Live, Request, Issued, LookupContact, Then, Return
  <1>15. ASSUME NEW c \in Calls, Accept(c)
        PROVE  Held(b)'
    BY <1>0, <1>15, Merged DEF TypeOK, Held, Live, Request, Issued, Accept, Return
  <1>16. ASSUME NEW c \in Calls, StatementFails(c)
        PROVE  Held(b)'
    BY <1>0, <1>16, FailureCases DEF TypeOK, Held, Live, Request, Issued, NowIn, Return
  <1>17. ASSUME NEW c \in Calls, Abort(c)
        PROVE  Held(b)'
    BY <1>0, <1>17, Merged DEF TypeOK, Held, Live, Request, Issued, Abort, Return
  <1> QED BY <1>1, <1>2, <1>3, <1>4, <1>5, <1>6, <1>7, <1>8, <1>9, <1>10,
             <1>11, <1>12, <1>13, <1>14, <1>15, <1>16, <1>17 DEF Next

LEMMA NextSpared ==
  ASSUME IInv, Next, NEW s \in unwilling'
  PROVE  Spared(s)'
  <1> USE DEF postgres, request
  <1>0. /\ TypeOK /\ TypeOK' /\ (\A c \in Calls : Request(c)) /\ Issued
        /\ (\A a \in out : Held(a)) /\ \A c \in unwilling : Spared(c)
    BY NextTypeOK DEF IInv
  <1>1. ASSUME NEW a \in Addrs, CreateContact(a)
        PROVE  Spared(s)'
    BY <1>0, <1>1 DEF TypeOK, Spared, Held, Request, CreateContact, Upsert
  <1>2. ASSUME NEW a \in Addrs, DeleteContact(a)
        PROVE  Spared(s)'
    BY <1>0, <1>2 DEF TypeOK, Spared, Held, Request, DeleteContact, DeleteRow, NowIn, Resubscribing
  <1>3. ASSUME NEW a \in Addrs, Remove(a)
        PROVE  Spared(s)'
    BY <1>0, <1>3 DEF TypeOK, Spared, Held, Request, Remove, NowIn
  <1>4. ASSUME NEW a \in Addrs, NEW new \in Reasons, Add(a, new)
        PROVE  Spared(s)'
    BY <1>0, <1>4 DEF TypeOK, Spared, Held, Request, Add
  <1>5. ASSUME NEW a \in Addrs, NEW c \in Calls, Unsubscribe(c, a)
        PROVE  Spared(s)'
    BY <1>0, <1>5 DEF TypeOK, Spared, Held, Request, Unsubscribe, Begin
  <1>6. ASSUME NEW a \in Addrs, NEW c \in Calls, SendTo(c, a)
        PROVE  Spared(s)'
    BY <1>0, <1>6 DEF TypeOK, Spared, Held, Request, SendTo, Begin
  <1>7. ASSUME NEW a \in Addrs, NEW c \in Calls, NEW w \in BOOLEAN, UpdateContact(c, a, w)
        PROVE  Spared(s)'
    BY <1>0, <1>7 DEF TypeOK, Spared, Held, Request, UpdateContact, Begin
  <1>8. ASSUME NEW c \in Calls, MarkContact(c)
        PROVE  Spared(s)'
    BY <1>0, <1>8 DEF TypeOK, Spared, Held, Request, MarkContact, Then
  <1>9. ASSUME NEW c \in Calls, Suppress(c)
        PROVE  Spared(s)'
    BY <1>0, <1>9 DEF TypeOK, Spared, Held, Request, Suppress, Return, NowOut, Resubscribing
  <1>10. ASSUME NEW c \in Calls, FlagContact(c)
        PROVE  Spared(s)'
    BY <1>0, <1>10 DEF TypeOK, Spared, Held, Request, FlagContact, Then, NowIn
  <1>11. ASSUME NEW c \in Calls, FindAddress(c)
        PROVE  Spared(s)'
    BY <1>0, <1>11 DEF TypeOK, Spared, Held, Request, FindAddress, Then, Return
  <1>12. ASSUME NEW c \in Calls, Unsuppress(c)
        PROVE  Spared(s)'
    BY <1>0, <1>12 DEF TypeOK, Spared, Held, Request, Unsuppress, UnsuppressFor, Return
  <1>13. ASSUME NEW c \in Calls, LookupSuppression(c)
        PROVE  Spared(s)'
    BY <1>0, <1>13 DEF TypeOK, Spared, Held, Request, LookupSuppression, Then, Return
  <1>14. ASSUME NEW c \in Calls, LookupContact(c)
        PROVE  Spared(s)'
    BY <1>0, <1>14 DEF TypeOK, Spared, Held, Request, LookupContact, Then, Return
  <1>15. ASSUME NEW c \in Calls, Accept(c)
        PROVE  Spared(s)'
    BY <1>0, <1>15 DEF TypeOK, Spared, Held, Request, Accept, Return
  <1>16. ASSUME NEW c \in Calls, StatementFails(c)
        PROVE  Spared(s)'
    BY <1>0, <1>16, FailureCases DEF TypeOK, Spared, Held, Request, NowIn, Return
  <1>17. ASSUME NEW c \in Calls, Abort(c)
        PROVE  Spared(s)'
    BY <1>0, <1>17 DEF TypeOK, Spared, Held, Request, Abort, Return
  <1> QED BY <1>1, <1>2, <1>3, <1>4, <1>5, <1>6, <1>7, <1>8, <1>9, <1>10,
             <1>11, <1>12, <1>13, <1>14, <1>15, <1>16, <1>17 DEF Next


LEMMA NextIInv ==
  ASSUME IInv, [Next]_vars
  PROVE  IInv'
  <1>1. CASE Next
    BY <1>1, NextTypeOK, NextRequest, NextIssued, NextHeld, NextSpared DEF IInv
  <1>2. CASE UNCHANGED vars
    BY <1>2 DEF IInv, vars, postgres, request, TypeOK, Request, Issued, Held, Live, Spared
  <1> QED BY <1>1, <1>2

LEMMA Invariance == Spec => []IInv
  BY InitIInv, NextIInv, PTL DEF Spec

-----------------------------------------------------------------------------
(***************************************************************************)
(* The theorems.                                                           *)
(***************************************************************************)

\* Every variable has its type, and no flag outlives its contact.
THEOREM TypeCorrect == Spec => []TypeOK
  <1>1. IInv => TypeOK
    BY DEF IInv
  <1> QED BY <1>1, Invariance, PTL

\* The two tables never forget both that the owner of an address unsubscribed,
\* however unsubscribe links, resubscriptions, deleted and new contacts, SES
\* events and lost statements interleave.
THEOREM WishesHold == Spec => []UnsubscribeHolds
  <1>1. IInv => UnsubscribeHolds
    BY DEF IInv, Held, UnsubscribeHolds
  <1> QED BY <1>1, Invariance, PTL

\* Send accepts no email for a recipient who wanted none from its start to its
\* answer, unless one of its two lookups failed - Send drops the error and
\* accepts - or the contact was deleted between the two.
THEOREM AcceptedAreWilling == Spec => AcceptedMeansWilling
  <1>1. IInv /\ [Next]_vars => [\A c \in unwilling : clean[c] => ~Accept(c)]_vars
    BY DEF IInv, Spared, Accept
  <1> QED BY <1>1, Invariance, PTL DEF Spec, AcceptedMeansWilling

\* No upsert and no resubscription takes a bounce or a complaint off the list.
THEOREM HardReasonsRemain == Spec => HardReasonsStay
  <1> DEFINE Stays(a) == reason[a] \in HardReasons /\ reason'[a] \notin HardReasons => Remove(a)
  <1>1. ASSUME IInv, [Next]_vars PROVE [\A a \in Addrs : Stays(a)]_vars
    <2> SUFFICES ASSUME Next, NEW a \in Addrs, reason[a] \in HardReasons,
                        reason'[a] \notin HardReasons
                 PROVE  Remove(a)
      BY <1>1
    <2>0. TypeOK
      BY <1>1 DEF IInv
    <2>1. ASSUME NEW c \in Calls, Suppress(c) PROVE FALSE
      BY <2>0, <2>1, Merged DEF TypeOK, Suppress, Reasons
    <2>2. ASSUME NEW c \in Calls, Unsuppress(c) PROVE FALSE
      BY <2>0, <2>2 DEF TypeOK, Unsuppress, UnsuppressFor, HardReasons
    <2>3. ASSUME NEW b \in Addrs, NEW new \in Reasons, Add(b, new) PROVE FALSE
      BY <2>0, <2>3, Merged DEF TypeOK, Add
    <2>4. ASSUME NEW b \in Addrs, Remove(b) PROVE Remove(a)
      BY <2>0, <2>4 DEF TypeOK, Remove
    <2>5. ASSUME UNCHANGED reason PROVE FALSE
      BY <2>5
    <2>6. ASSUME NEW b \in Addrs, CreateContact(b) \/ DeleteContact(b) PROVE UNCHANGED reason
      BY <2>6 DEF CreateContact, Upsert, DeleteContact, DeleteRow
    <2>7. ASSUME NEW b \in Addrs, NEW c \in Calls, Unsubscribe(c, b) \/ SendTo(c, b)
          PROVE  UNCHANGED reason
      BY <2>7 DEF Unsubscribe, SendTo, Begin, postgres
    <2>8. ASSUME NEW b \in Addrs, NEW c \in Calls, NEW w \in BOOLEAN, UpdateContact(c, b, w)
          PROVE  UNCHANGED reason
      BY <2>8 DEF UpdateContact, Begin, postgres
    <2>9. ASSUME NEW c \in Calls,
                 MarkContact(c) \/ FlagContact(c) \/ FindAddress(c) \/ LookupSuppression(c)
                 \/ LookupContact(c)
          PROVE  UNCHANGED reason
      BY <2>9 DEF MarkContact, FlagContact, FindAddress, LookupSuppression, LookupContact,
                  postgres
    <2>10. ASSUME NEW c \in Calls, Accept(c) \/ StatementFails(c) \/ Abort(c)
           PROVE  UNCHANGED reason
      BY <2>10 DEF Accept, StatementFails, Abort, postgres
    <2> QED BY <2>1, <2>2, <2>3, <2>4, <2>5, <2>6, <2>7, <2>8, <2>9, <2>10 DEF Next
  <1> QED BY <1>1, Invariance, PTL DEF Spec, HardReasonsStay

=============================================================================
