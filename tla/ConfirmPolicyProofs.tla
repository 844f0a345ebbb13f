-------------------------- MODULE ConfirmPolicyProofs --------------------------
(***************************************************************************)
(* Theorems about ConfirmPolicyCheck: what the popup shows and what is     *)
(* written after the reply, for every menu of operations, every reply and  *)
(* lists of every length.                                                  *)
(***************************************************************************)
EXTENDS ConfirmPolicyCheck, TLAPS

-----------------------------------------------------------------------------
\* The list: operations are numbered 1, 2, ... up to its length.
ListInv ==
  /\ Length \in Nat
  /\ \A o \in ops : /\ o.at \in 1..Length
                    /\ o.tool \in Tools /\ o.arguments \in Arguments
  /\ \A o, p \in ops : o.at = p.at => o = p

\* The length of a list is the number of its last operation.
LEMMA LengthIs ==
  ASSUME NEW n \in Nat, \E o \in ops : o.at = n, \A o \in ops : o.at \in Nat /\ o.at <= n
  PROVE  Length = n
<1>1. ops # {} /\ n \in {o.at : o \in ops}
  OBVIOUS
<1>2. \A m \in {o.at : o \in ops} : (\A o \in ops : o.at <= m) => m = n
  OBVIOUS
<1> QED BY <1>1, <1>2 DEF Length

LEMMA InitList == Init => ListInv
BY DEF Init, ListInv, Length

\* An emitted operation is the last one of the longer list.
LEMMA EmitList ==
  ASSUME ListInv, NEW m \in Menu, Emit(m)
  PROVE  ListInv' /\ Length' = Length + 1
<1> DEFINE new == [at |-> Length + 1, tool |-> m.tool, arguments |-> m.arguments]
<1>1. ops' = ops \cup {new} /\ new.at = Length + 1
      /\ new.tool = m.tool /\ new.arguments = m.arguments
  BY DEF Emit
<1> HIDE DEF new
<1>2. m.tool \in Tools /\ m.arguments \in Arguments
  BY ConfirmPolicyCheckAssumption
<1>3. \A o \in ops' : o.at \in 1..(Length + 1)
  BY <1>1 DEF ListInv
<1>4. Length' = Length + 1
  <2>1. Length + 1 \in Nat /\ \E o \in ops' : o.at = Length + 1
    BY <1>1 DEF ListInv
  <2>2. \A n \in {o.at : o \in ops'} : (\A o \in ops' : o.at <= n) => n = Length + 1
    BY <1>1, <1>3, <2>1 DEF ListInv
  <2>3. Length + 1 \in {o.at : o \in ops'} /\ \A o \in ops' : o.at <= Length + 1
    BY <1>3, <2>1 DEF ListInv
  <2>4. Length' = CHOOSE n \in {o.at : o \in ops'} : \A o \in ops' : o.at <= n
    BY <1>1 DEF Length
  <2> QED BY <2>2, <2>3, <2>4
<1>5. \A o, p \in ops' : o.at = p.at => o = p
  BY <1>1 DEF ListInv
<1> QED BY <1>1, <1>2, <1>3, <1>4, <1>5 DEF ListInv

\* A reply leaves the list alone.
LEMMA QuietList ==
  ASSUME ListInv, ops' = ops
  PROVE  ListInv' /\ Length' = Length
BY DEF ListInv, Length

-----------------------------------------------------------------------------
\* The operations about the child, which are always gated.
Kids == {o \in ops : o.tool \in ChildTools}

LEMMA KidsAreGated == ChildOps(ops) = Kids
BY DEF ChildOps, Kids, Gated, ChildTools, ConfirmTools

\* Operation o is the last of some that gives key k.
LastOf(o, some, k) ==
  /\ o \in some /\ k \in DOMAIN o.arguments
  /\ \A p \in some : k \in DOMAIN p.arguments => p.at <= o.at

\* There is only one such operation, since no two have the same number.
LEMMA LastIs ==
  ASSUME NEW some \in SUBSET ops, ListInv, NEW k, NEW o, LastOf(o, some, k)
  PROVE  Last(some, k) = o
<1>1. \A p \in some : LastOf(p, some, k) => p = o
  <2> SUFFICES ASSUME NEW p \in some, LastOf(p, some, k) PROVE p = o
    OBVIOUS
  <2>1. p.at <= o.at /\ o.at <= p.at /\ p.at \in Nat /\ o.at \in Nat
    BY DEF LastOf, ListInv
  <2>2. p.at = o.at
    BY <2>1
  <2> QED BY <2>2 DEF ListInv, LastOf
<1> QED BY <1>1 DEF Last, LastOf

\* The dict the loop of _fold has built: of every key the value of the last
\* operation that gives it.
MergeInv ==
  /\ merged = [k \in DOMAIN merged |-> merged[k]]
  /\ \A k : k \in DOMAIN merged <=> \E o \in Kids : k \in DOMAIN o.arguments
  /\ \A k \in DOMAIN merged : \E o \in Kids : LastOf(o, Kids, k) /\ merged[k] = o.arguments[k]

LEMMA InitMerge == Init => MergeInv
<1> SUFFICES ASSUME Init PROVE MergeInv
  OBVIOUS
<1>1. Kids = {} /\ DOMAIN merged = {}
  BY DEF Init, Kids
<1>2. merged = [k \in DOMAIN merged |-> merged[k]]
  BY DEF Init
<1> QED BY <1>1, <1>2 DEF MergeInv

\* An operation updates the dict in the keys it gives.
LEMMA EmitMerge ==
  ASSUME ListInv, MergeInv, NEW m \in Menu, Emit(m)
  PROVE  MergeInv'
<1> DEFINE new == [at |-> Length + 1, tool |-> m.tool, arguments |-> m.arguments]
<1>1. ops' = ops \cup {new} /\ new.at = Length + 1
      /\ new.tool = m.tool /\ new.arguments = m.arguments
  BY DEF Emit
<1>2. merged' = IF m.tool \in ChildTools THEN Update(merged, m.arguments) ELSE merged
  BY DEF Emit
<1> HIDE DEF new
<1>3. CASE m.tool \notin ChildTools
  <2>1. Kids' = Kids /\ merged' = merged
    BY <1>1, <1>2, <1>3 DEF Kids
  <2> QED BY <2>1 DEF MergeInv, LastOf
<1>4. CASE m.tool \in ChildTools
  <2>1. Kids' = Kids \cup {new}
    BY <1>1, <1>4 DEF Kids
  <2>2. /\ DOMAIN merged' = DOMAIN merged \cup DOMAIN m.arguments
        /\ merged' = [k \in DOMAIN merged' |-> merged'[k]]
        /\ \A k \in DOMAIN merged' :
              merged'[k] = IF k \in DOMAIN m.arguments THEN m.arguments[k] ELSE merged[k]
    BY <1>2, <1>4 DEF Update
  <2>3. \A k : k \in DOMAIN merged' <=> \E o \in Kids' : k \in DOMAIN o.arguments
    BY <1>1, <2>1, <2>2 DEF MergeInv
  <2>4. \A o \in Kids : o.at \in Nat /\ o.at <= Length /\ Length \in Nat
    BY DEF ListInv, Kids
  <2>5. ASSUME NEW k \in DOMAIN merged'
        PROVE  \E o \in Kids' : LastOf(o, Kids', k) /\ merged'[k] = o.arguments[k]
    <3>1. CASE k \in DOMAIN m.arguments
      <4>1. \A p \in Kids' : p.at <= new.at
        BY <1>1, <2>1, <2>4 DEF ListInv
      <4>2. LastOf(new, Kids', k) /\ merged'[k] = new.arguments[k] /\ new \in Kids'
        BY <1>1, <2>1, <2>2, <3>1, <4>1 DEF LastOf
      <4> QED BY <4>2
    <3>2. CASE k \notin DOMAIN m.arguments
      <4>1. k \in DOMAIN merged /\ merged'[k] = merged[k]
        BY <2>2, <2>5, <3>2
      <4>2. PICK o \in Kids : LastOf(o, Kids, k) /\ merged[k] = o.arguments[k]
        BY <4>1 DEF MergeInv
      <4>3. LastOf(o, Kids', k)
        BY <1>1, <2>1, <3>2, <4>2 DEF LastOf
      <4> QED BY <2>1, <4>1, <4>2, <4>3
    <3> QED BY <3>1, <3>2
  <2> QED BY <2>2, <2>3, <2>5 DEF MergeInv
<1> QED BY <1>3, <1>4

LEMMA QuietMerge ==
  ASSUME MergeInv, ops' = ops, merged' = merged
  PROVE  MergeInv'
BY DEF MergeInv, Kids, LastOf

\* The record of the popup is what the schema makes of the dict.
LEMMA MergeIsFold == ListInv /\ MergeInv => FoldUpdatesInOrder
<1> SUFFICES ASSUME ListInv, MergeInv
             PROVE  Fold(Kids, ChildFields) = Cleaned(merged)
  BY KidsAreGated DEF FoldUpdatesInOrder
<1> DEFINE canon == [k \in DOMAIN merged |-> IF k = "gender" THEN CanonGender(merged[k])
                                             ELSE merged[k]]
<1>1. \A k \in DOMAIN merged : k \in Keys
  <2> SUFFICES ASSUME NEW k \in DOMAIN merged PROVE k \in Keys
    OBVIOUS
  <2>1. PICK o \in Kids : k \in DOMAIN o.arguments
    BY DEF MergeInv
  <2>2. o.arguments \in Arguments
    BY DEF ListInv, Kids
  <2> QED BY <2>1, <2>2 DEF Arguments
<1>2. FoldedKeys(Kids, ChildFields) = DOMAIN merged \cap ChildFields
  BY <1>1 DEF FoldedKeys, MergeInv
<1>3. ASSUME NEW k \in DOMAIN merged
      PROVE  Folded(Kids, k) = canon[k]
  <2>1. PICK o \in Kids : LastOf(o, Kids, k) /\ merged[k] = o.arguments[k]
    BY DEF MergeInv
  <2>2. Last(Kids, k) = o
    BY <2>1, LastIs DEF Kids
  <2> QED BY <2>1, <2>2 DEF Folded
<1>4. DOMAIN canon = DOMAIN merged
  OBVIOUS
<1> HIDE DEF canon
<1> DEFINE shown == {k \in FoldedKeys(Kids, ChildFields) :
                       Folded(Kids, k) \notin (IF k = "aliases" THEN {None, NoAliases} ELSE {None})}
           clean == {k \in DOMAIN canon \cap ChildFields :
                       ~(canon[k] = None \/ (k = "aliases" /\ canon[k] = NoAliases))}
<1>5. shown = clean
  BY <1>2, <1>3, <1>4
<1>6. \A k \in clean : Folded(Kids, k) = canon[k]
  BY <1>3, <1>4
<1>7. Fold(Kids, ChildFields) = [k \in shown |-> Folded(Kids, k)]
  BY DEF Fold
<1>8. Cleaned(merged) = [k \in clean |-> canon[k]]
  BY DEF Cleaned, canon
<1> HIDE DEF shown, clean
<1> QED BY <1>5, <1>6, <1>7, <1>8

(***************************************************************************)
(* The popup shows the dict that the operations about the child update in  *)
(* list order, whatever they give, and however long the list is.           *)
(***************************************************************************)
THEOREM PopupShowsUpdates == Spec => []FoldUpdatesInOrder
<1>1. Init => ListInv /\ MergeInv
  BY InitList, InitMerge
<1>2. ListInv /\ MergeInv /\ [Next]_vars => ListInv' /\ MergeInv'
  <2> SUFFICES ASSUME ListInv, MergeInv, [Next]_vars PROVE ListInv' /\ MergeInv'
    OBVIOUS
  <2>1. ASSUME NEW m \in Menu, Emit(m) PROVE ListInv' /\ MergeInv'
    BY <2>1, EmitList, EmitMerge
  <2>2. CASE ops' = ops /\ merged' = merged
    BY <2>2, QuietList, QuietMerge
  <2> QED BY <2>1, <2>2 DEF Next, Answer, vars
<1> QED BY <1>1, <1>2, MergeIsFold, PTL DEF Spec

-----------------------------------------------------------------------------
\* A create is given a name: the parent's, else the first alias, else a default.
LEMMA NamedHasName ==
  ASSUME NEW record, NEW named, named = Named(record)
  PROVE  /\ DOMAIN named = DOMAIN record \cup {"display_name"}
         /\ \/ named["display_name"] # Blank
            \/ "aliases" \in DOMAIN named /\ named["aliases"] = Blank
<1>1. CASE "display_name" \in DOMAIN record /\ record["display_name"] # Blank
  <2>1. named = record
    BY <1>1 DEF Named
  <2> QED BY <1>1, <2>1
<1>2. CASE ~("display_name" \in DOMAIN record /\ record["display_name"] # Blank)
  <2>1. named = [k \in DOMAIN record \cup {"display_name"} |->
                   IF k # "display_name" THEN record[k]
                   ELSE IF "aliases" \in DOMAIN record THEN record["aliases"] ELSE "New child"]
    BY <1>2 DEF Named
  <2>2. /\ DOMAIN named = DOMAIN record \cup {"display_name"}
        /\ "aliases" \in DOMAIN record =>
             /\ "aliases" \in DOMAIN named /\ named["aliases"] = record["aliases"]
             /\ named["display_name"] = record["aliases"]
        /\ "aliases" \notin DOMAIN record => named["display_name"] = "New child"
    BY <2>1
  <2>3. "New child" # Blank
    BY Zenon DEF Blank
  <2> QED BY <2>2, <2>3
<1> QED BY <1>1, <1>2

\* What is left after a reply: soft facts of the list, and at most the write of
\* one child record and of one member record.
AfterReply(left, child, member) ==
  /\ DOMAIN child \subseteq ChildFields /\ DOMAIN member \subseteq MemberFields
  /\ \A o \in left : \/ o \in ops /\ o.tool \notin ConfirmTools
                     \/ o \in ChildOp(child, Creates(ops))
                     \/ o \in MemberOp(member)

LEMMA FoldFields ==
  ASSUME NEW some, NEW fields
  PROVE  DOMAIN Fold(some, fields) \subseteq fields
<1> DEFINE shown == {k \in FoldedKeys(some, fields) :
                       Folded(some, k) \notin (IF k = "aliases" THEN {None, NoAliases} ELSE {None})}
<1>1. DOMAIN Fold(some, fields) = shown
  BY DEF Fold
<1> QED BY <1>1 DEF FoldedKeys

LEMMA UngatedAreSoft == \A o \in Ungated(ops) : o \in ops /\ o.tool \notin ConfirmTools
BY DEF Ungated, Gated

\* A record the popup carries, when it carries one.
LEMMA RequestRecords ==
  ASSUME NEW request, Gated(ops) # {}, request = BuildRequest(ops, None)
  PROVE  /\ request.child = NoRecord \/ DOMAIN request.child \subseteq ChildFields
         /\ request.member = NoRecord \/ DOMAIN request.member \subseteq MemberFields
<1>1. /\ request.child = IF ChildOps(ops) = {} THEN NoRecord ELSE Fold(ChildOps(ops), ChildFields)
      /\ request.member = IF MemberOps(ops) = {} THEN NoRecord
                          ELSE Fold(MemberOps(ops), MemberFields)
  BY DEF BuildRequest
<1>2. /\ DOMAIN Fold(ChildOps(ops), ChildFields) \subseteq ChildFields
      /\ DOMAIN Fold(MemberOps(ops), MemberFields) \subseteq MemberFields
  BY FoldFields
<1> QED BY <1>1, <1>2

\* A record the reply carries, when it carries one.
LEMMA ReplyRecords ==
  ASSUME NEW r \in Resumes
  PROVE  LET decision == ReadDecision(r) IN
         /\ decision.child = NoRecord \/ DOMAIN decision.child \subseteq ChildFields
         /\ decision.member = NoRecord \/ DOMAIN decision.member \subseteq MemberFields
BY ConfirmPolicyCheckAssumption DEF ReadDecision, Rejection, Record

LEMMA ReplyLeaves ==
  ASSUME NEW r \in Resumes, Answer(r)
  PROVE  \E child, member : AfterReply(written', child, member)
<1> DEFINE decision == ReadDecision(r)
           request == BuildRequest(ops, None)
           c == Chosen(decision.child, request.child)
           m == Chosen(decision.member, request.member)
           empty == [k \in {} |-> None]
           child == IF c = NoRecord THEN empty ELSE c
           member == IF m = NoRecord THEN empty ELSE m
<1>1. Gated(ops) # {}
      /\ written' = Ungated(ops) \cup
                      (IF decision.approved THEN Applied(decision, ops, request) ELSE {})
  BY DEF Answer
<1>2. c = NoRecord \/ DOMAIN c \subseteq ChildFields
  BY <1>1, RequestRecords, ReplyRecords DEF Chosen
<1>3. m = NoRecord \/ DOMAIN m \subseteq MemberFields
  BY <1>1, RequestRecords, ReplyRecords DEF Chosen
<1>4. Applied(decision, ops, request) =
        BundledSoft(ops)
          \cup (IF c = NoRecord THEN {} ELSE ChildOp(c, Creates(ops)))
          \cup (IF m = NoRecord THEN {} ELSE MemberOp(m))
  BY DEF Applied
<1>5. \A o \in BundledSoft(ops) : o \in ops /\ o.tool \notin ConfirmTools
  BY DEF BundledSoft, Gated
<1> HIDE DEF decision, request, c, m
<1>6. DOMAIN child \subseteq ChildFields /\ DOMAIN member \subseteq MemberFields
  BY <1>2, <1>3
<1>7. (c # NoRecord => child = c) /\ (m # NoRecord => member = m)
  OBVIOUS
<1> HIDE DEF child, member
<1>8. \A o \in written' : \/ o \in ops /\ o.tool \notin ConfirmTools
                          \/ o \in ChildOp(child, Creates(ops))
                          \/ o \in MemberOp(member)
  BY <1>1, <1>4, <1>5, <1>7, UngatedAreSoft
<1> QED BY <1>6, <1>8 DEF AfterReply

\* The writes of the two records, one of each kind.
LEMMA ChildWrite ==
  ASSUME NEW child, DOMAIN child \subseteq ChildFields, NEW o \in ChildOp(child, Creates(ops))
  PROVE  /\ o.at = 0 /\ o.tool \in ChildTools
         /\ o.tool = (IF Creates(ops) THEN "create_child" ELSE "update_child_basic_info")
         /\ DOMAIN o.arguments \subseteq ChildFields
         /\ o.tool = "create_child" => o.arguments = Named(child)
         /\ \A p \in ChildOp(child, Creates(ops)) : p = o
<1>1. DOMAIN Named(child) = DOMAIN child \cup {"display_name"}
  BY NamedHasName
<1>2. "display_name" \in ChildFields
  BY DEF ChildFields
<1>3. CASE Creates(ops)
  <2>1. /\ ChildOp(child, Creates(ops)) = {o}
        /\ o = [at |-> 0, tool |-> "create_child", arguments |-> Named(child)]
    BY <1>3 DEF ChildOp, Write
  <2> QED BY <1>1, <1>2, <1>3, <2>1 DEF ChildTools
<1>4. CASE ~Creates(ops)
  <2>1. /\ ChildOp(child, Creates(ops)) = {o}
        /\ o = [at |-> 0, tool |-> "update_child_basic_info", arguments |-> child]
    BY <1>4 DEF ChildOp, Write
  <2> QED BY <1>4, <2>1 DEF ChildTools
<1> QED BY <1>3, <1>4

LEMMA MemberWrite ==
  ASSUME NEW member, DOMAIN member \subseteq MemberFields, NEW o \in MemberOp(member)
  PROVE  /\ o.at = 0 /\ o.tool = "update_member_basic_info"
         /\ DOMAIN o.arguments \subseteq MemberFields
         /\ \A p \in MemberOp(member) : p = o
<1>1. /\ MemberOp(member) = {o}
      /\ o = [at |-> 0, tool |-> "update_member_basic_info", arguments |-> member]
  BY DEF MemberOp, Write
<1> QED BY <1>1

\* A reply that leaves a create carries its name.
LEMMA ReplyNames ==
  ASSUME NEW r \in Resumes, Answer(r)
  PROVE  ApprovedCreateIsNamed'
<1>1. PICK child, member : AfterReply(written', child, member)
  BY ReplyLeaves
<1>2. DOMAIN child \subseteq ChildFields /\ DOMAIN member \subseteq MemberFields
  BY <1>1 DEF AfterReply
<1>3. ASSUME NEW o \in written', o.tool = "create_child"
      PROVE  /\ "display_name" \in DOMAIN o.arguments
             /\ \/ o.arguments["display_name"] # Blank
                \/ "aliases" \in DOMAIN o.arguments /\ o.arguments["aliases"] = Blank
  <2>1. o \in ChildOp(child, Creates(ops))
    <3>1. o.tool \in ConfirmTools
      BY <1>3 DEF ConfirmTools
    <3>2. o \notin MemberOp(member)
      BY <1>2, <1>3, MemberWrite
    <3> QED BY <1>1, <3>1, <3>2 DEF AfterReply
  <2>2. o.arguments = Named(child)
    BY <1>2, <1>3, <2>1, ChildWrite
  <2> DEFINE named == o.arguments
  <2>3. named = Named(child)
    BY <2>2
  <2> HIDE DEF named
  <2>4. /\ DOMAIN named = DOMAIN child \cup {"display_name"}
        /\ \/ named["display_name"] # Blank
           \/ "aliases" \in DOMAIN named /\ named["aliases"] = Blank
    BY <2>3, NamedHasName
  <2>5. "display_name" \in DOMAIN named
    BY <2>4
  <2> QED BY <2>4, <2>5 DEF named
<1> QED BY <1>3 DEF ApprovedCreateIsNamed

(***************************************************************************)
(* Whatever the operations are and whatever the parent sends back, a       *)
(* create that was approved is written with a name, blank only if the      *)
(* first alias is.                                                         *)
(***************************************************************************)
THEOREM CreateIsNamed == Spec => []ApprovedCreateIsNamed
<1>1. Init => ApprovedCreateIsNamed
  BY DEF Init, ApprovedCreateIsNamed
<1>2. ApprovedCreateIsNamed /\ [Next]_vars => ApprovedCreateIsNamed'
  <2> SUFFICES ASSUME ApprovedCreateIsNamed, [Next]_vars PROVE ApprovedCreateIsNamed'
    OBVIOUS
  <2>1. ASSUME NEW r \in Resumes, Answer(r) PROVE ApprovedCreateIsNamed'
    BY <2>1, ReplyNames
  <2>2. CASE written' = written
    BY <2>2 DEF ApprovedCreateIsNamed
  <2> QED BY <2>1, <2>2 DEF Next, Emit, vars
<1> QED BY <1>1, <1>2, PTL DEF Spec

-----------------------------------------------------------------------------
\* A reply leaves one write per record, the raw operations of the list included.
LEMMA ReplyWritesOnce ==
  ASSUME NEW r \in Resumes, Answer(r)
  PROVE  OneWritePerRecord'
<1>1. PICK child, member : AfterReply(written', child, member)
  BY ReplyLeaves
<1>2. DOMAIN child \subseteq ChildFields /\ DOMAIN member \subseteq MemberFields
  BY <1>1 DEF AfterReply
<1> DEFINE Fact(o) == o \in ops /\ o.tool \notin ConfirmTools
           Kid(o)  == o \in ChildOp(child, Creates(ops))
           Adult(o) == o \in MemberOp(member)
<1>3. \A o \in written' : Fact(o) \/ Kid(o) \/ Adult(o)
  BY <1>1 DEF AfterReply
<1>4. \A o : Kid(o) => /\ o.tool \in ChildTools
                       /\ DOMAIN o.arguments \subseteq ChildFields
                       /\ \A p : Kid(p) => p = o
  BY <1>2, ChildWrite
<1>5. \A o : Adult(o) => /\ o.tool = "update_member_basic_info"
                         /\ DOMAIN o.arguments \subseteq MemberFields
                         /\ \A p : Adult(p) => p = o
  BY <1>2, MemberWrite
<1>6. ops' = ops
  BY DEF Answer
\* Only the two folded operations are identity writes, and of different records.
<1>7. ASSUME NEW o \in written', o.tool \in ChildTools
      PROVE  Kid(o)
  <2>1. o.tool \in ConfirmTools /\ o.tool # "update_member_basic_info"
    BY <1>7 DEF ChildTools, ConfirmTools
  <2> QED BY <1>3, <1>5, <2>1
<1>8. ASSUME NEW o \in written', o.tool = "update_member_basic_info"
      PROVE  Adult(o)
  <2>1. o.tool \in ConfirmTools /\ o.tool \notin ChildTools
    BY <1>8 DEF ChildTools, ConfirmTools
  <2> QED BY <1>3, <1>4, <2>1
<1> HIDE DEF Fact, Kid, Adult
<1>9. ASSUME NEW o \in written', NEW p \in written', SameRecord(o, p)
      PROVE  o = p
  <2>1. CASE o.tool \in ChildTools /\ p.tool \in ChildTools
    BY <1>4, <1>7, <2>1
  <2>2. CASE o.tool = "update_member_basic_info" /\ p.tool = "update_member_basic_info"
    BY <1>5, <1>8, <2>2
  <2> QED BY <1>9, <2>1, <2>2 DEF SameRecord
<1>10. ASSUME NEW o \in written', o.tool \in SoftTools
       PROVE  o \in ops'
  <2>1. o.tool \notin ConfirmTools
    BY <1>10, ConfirmPolicyAssumption
  <2>2. ~Kid(o) /\ ~Adult(o)
    BY <1>4, <1>5, <2>1 DEF ConfirmTools, ChildTools
  <2> QED BY <1>3, <1>6, <2>2 DEF Fact
<1> QED BY <1>4, <1>5, <1>7, <1>8, <1>9, <1>10 DEF OneWritePerRecord

(***************************************************************************)
(* Whatever the list and the reply, at most one identity write of a child  *)
(* and one of the member are left, no raw one beside the confirmed one,    *)
(* and none names a field that the popup could not have shown.             *)
(***************************************************************************)
THEOREM OneReplyOneWrite == Spec => []OneWritePerRecord
<1>1. Init => OneWritePerRecord
  BY DEF Init, OneWritePerRecord
<1>2. OneWritePerRecord /\ [Next]_vars => OneWritePerRecord'
  <2> SUFFICES ASSUME OneWritePerRecord, [Next]_vars PROVE OneWritePerRecord'
    OBVIOUS
  <2>1. ASSUME NEW r \in Resumes, Answer(r) PROVE OneWritePerRecord'
    BY <2>1, ReplyWritesOnce
  <2>2. CASE ops \subseteq ops' /\ written' = written
    BY <2>2 DEF OneWritePerRecord
  <2> QED BY <2>1, <2>2 DEF Next, Emit, vars
<1> QED BY <1>1, <1>2, PTL DEF Spec
================================================================================
