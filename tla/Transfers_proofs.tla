-------------------------- MODULE Transfers_proofs --------------------------
(***************************************************************************)
(* What the threads of a page and its libraries share: downloads of files  *)
(* (Downloads), extractions of archives (ZipWorks), strings with a count   *)
(* and arrays of them (FeatureArrays), each with its inductive invariant.  *)
(***************************************************************************)
EXTENDS Downloads, ZipWorks, FeatureArrays, SequenceLemmas

-----------------------------------------------------------------------------
(***************************************************************************)
(* For any downloads and instances, and as long as no unshared download is *)
(* refused or outlives its instance: SharedInfoAlive.                      *)
(*                                                                         *)
(* The hard part are the endings on the stack: each may be followed by a   *)
(* download that was created before it, is in no list yet, and becomes     *)
(* shareInfo only when the functions of the script have returned, after    *)
(* any number of further endings.  StackInv says that these downloads are  *)
(* still apart from everything that ends; SharedInv is the property with   *)
(* what keeps its ReqInfo alive.                                           *)
(***************************************************************************)

Frame == [ending : Download, next : Download \cup {NoInfo}]

DLTypes ==
  /\ dlContext \in {"live", "destroyed"} /\ left \subseteq Page
  /\ owner_of \in [Download -> Page \cup {NoInfo}]
  /\ unshared \subseteq Download /\ linklist \subseteq Download
  /\ shareInfo \in Download \cup {NoInfo} /\ freedInfo \subseteq Download
  /\ stack \in Seq(Frame)

(* A ReqInfo exists before it is listed, ends, waits or is freed, and a    *)
(* listed one is not freed.                                                *)
KnownInv ==
  /\ \A d \in linklist \cup freedInfo : owner_of[d] # NoInfo
  /\ linklist \cap freedInfo = {}

(* A download that waits for the one it cancels: unshared, of an instance  *)
(* that is there, not listed, not freed.                                   *)
Waits(d) ==
  /\ owner_of[d] # NoInfo /\ owner_of[d] \notin left
  /\ d \in unshared /\ d \notin linklist /\ d \notin freedInfo

StackInv ==
  \A k \in 1..Len(stack) :
    /\ owner_of[stack[k].ending] # NoInfo
    /\ stack[k].next # NoInfo =>
         /\ Waits(stack[k].next)
         /\ \A j \in 1..Len(stack) :
              /\ stack[j].ending # stack[k].next
              /\ j # k => stack[j].next # stack[k].next

SharedInv ==
  shareInfo # NoInfo =>
    /\ shareInfo \in linklist /\ shareInfo \in unshared
    /\ owner_of[shareInfo] \notin left
    /\ \A k \in 1..Len(stack) : stack[k].ending # shareInfo

DLInv == DLTypes /\ KnownInv /\ StackInv /\ SharedInv

-----------------------------------------------------------------------------
(* __request_cb is entered: a frame on top of the stack. *)
LEMMA PushFrame ==
  ASSUME stack \in Seq(Frame), NEW f \in Frame, stack' = <<f>> \o stack
  PROVE  /\ stack' \in Seq(Frame) /\ Len(stack) \in Nat
         /\ Len(stack') = Len(stack) + 1 /\ stack'[1] = f
         /\ \A k \in 2..Len(stack') :
              k - 1 \in 1..Len(stack) /\ stack'[k] = stack[k - 1]
OBVIOUS

(* The end of __request_cb: the frame on top goes. *)
LEMMA PopFrame ==
  ASSUME stack \in Seq(Frame), stack # <<>>, stack' = Tail(stack)
  PROVE  /\ stack' \in Seq(Frame) /\ Len(stack) \in Nat /\ 1 \in 1..Len(stack)
         /\ stack[1] \in Frame
         /\ \A k \in 1..Len(stack') :
              k + 1 \in 2..Len(stack) /\ stack'[k] = stack[k + 1]
OBVIOUS

(* What is on the stack. *)
LEMMA FrameTypes ==
  ASSUME stack \in Seq(Frame)
  PROVE  \A k \in 1..Len(stack) :
           /\ stack[k] \in Frame /\ stack[k].ending \in Download
           /\ stack[k].next # NoInfo => stack[k].next \in Download
<1>1. \A k \in 1..Len(stack) : stack[k] \in Frame
  OBVIOUS
<1>2. \A f \in Frame : /\ f.ending \in Download
                       /\ f.next # NoInfo => f.next \in Download
  BY DEF Frame
<1> QED BY <1>1, <1>2

LEMMA DLInvInit == DownloadsInit => DLInv
BY DEF DownloadsInit, DLInv, DLTypes, KnownInv, StackInv, SharedInv

LEMMA DLInvStart ==
  ASSUME ~Abandon, DLInv, NEW d \in Download, NEW p \in Page,
         NEW share \in BOOLEAN, StartDownload(d, p, share)
  PROVE  DLInv'
<1> USE DEF DLInv, DLTypes
<1>1. /\ owner_of[d] = NoInfo /\ p \notin left /\ p # NoInfo /\ d # NoInfo
      /\ owner_of' = [owner_of EXCEPT ![d] = p]
      /\ UNCHANGED <<dlContext, left, stack>>
      /\ share \/ shareInfo = NoInfo
      /\ unshared' = IF share THEN unshared ELSE unshared \cup {d}
      /\ shareInfo' = IF share THEN shareInfo ELSE d
  BY DownloadsAssumption DEF StartDownload
<1>2. \/ linklist' = linklist \cup {d} /\ freedInfo' = freedInfo
      \/ share /\ linklist' = linklist /\ freedInfo' = freedInfo \cup {d}
  <2>1. Commit(d, linklist)
    BY DEF StartDownload
  <2> QED BY <1>1, <2>1 DEF Commit
<1>3. d \notin linklist /\ d \notin freedInfo
  BY <1>1 DEF KnownInv
<1>4. \A k \in 1..Len(stack) :
        /\ stack[k] \in Frame
        /\ stack[k].ending # d
        /\ stack[k].next # NoInfo => stack[k].next # d
  BY <1>1, FrameTypes DEF StackInv, Waits
<1>5. DLTypes'
  BY <1>1, <1>2
<1>6. KnownInv'
  BY <1>1, <1>2, <1>3 DEF KnownInv
<1>7. StackInv'
  <2>1. \A e \in Download : e # d /\ Waits(e) => Waits(e)'
    BY <1>1, <1>2, <1>3 DEF Waits
  <2> QED BY <1>1, <1>4, <2>1 DEF StackInv, Frame
<1>8. SharedInv'
  <2>1. CASE share
    BY <1>1, <1>2, <1>3, <2>1 DEF SharedInv
  <2>2. CASE ~share
    BY <1>1, <1>2, <1>4, <2>2 DEF SharedInv
  <2> QED BY <2>1, <2>2
<1> QED BY <1>5, <1>6, <1>7, <1>8

(* The one before is alive and its instance is there: it ends.             *)
LEMMA DLInvReplace ==
  ASSUME DLInv, NEW d \in Download, NEW p \in Page, ReplaceDownload(d, p)
  PROVE  DLInv'
<1> USE DEF DLInv, DLTypes
<1>1. /\ shareInfo \in Download /\ shareInfo # NoInfo
      /\ shareInfo \in linklist /\ shareInfo \in unshared
      /\ owner_of[shareInfo] \notin left
      /\ \A k \in 1..Len(stack) : stack[k].ending # shareInfo
  BY DownloadsAssumption DEF ReplaceDownload, SharedInv
<1>2. /\ owner_of[d] = NoInfo /\ p \notin left /\ p # NoInfo /\ d # NoInfo
      /\ owner_of' = [owner_of EXCEPT ![d] = p]
      /\ unshared' = unshared \cup {d}
      /\ UNCHANGED <<dlContext, left, linklist, freedInfo>>
      /\ shareInfo' = NoInfo
      /\ stack' = <<[ending |-> shareInfo, next |-> d]>> \o stack
  BY <1>1, DownloadsAssumption DEF ReplaceDownload, RequestCb
<1> DEFINE f == [ending |-> shareInfo, next |-> d]
<1>3. /\ f \in Frame /\ f.ending = shareInfo /\ f.next = d
  BY <1>1 DEF Frame
<1>4. /\ stack' \in Seq(Frame) /\ Len(stack) \in Nat
      /\ Len(stack') = Len(stack) + 1 /\ stack'[1] = f
      /\ \A k \in 2..Len(stack') :
           k - 1 \in 1..Len(stack) /\ stack'[k] = stack[k - 1]
  BY <1>2, <1>3, PushFrame
<1> HIDE DEF f
<1>5. d \notin linklist /\ d \notin freedInfo /\ d # shareInfo
  BY <1>1, <1>2 DEF KnownInv
<1>6. \A k \in 1..Len(stack) :
        /\ stack[k] \in Frame
        /\ stack[k].ending # d /\ stack[k].next # d
        /\ stack[k].next # NoInfo => stack[k].next # shareInfo
  <2>1. \A k \in 1..Len(stack) : stack[k].ending # d
    BY <1>2 DEF StackInv
  <2>2. ASSUME NEW k \in 1..Len(stack), stack[k].next # NoInfo
        PROVE  stack[k].next # d /\ stack[k].next # shareInfo
    BY <1>1, <1>2, <2>2 DEF StackInv, Waits
  <2> QED BY <1>2, <2>1, <2>2, FrameTypes
<1>7. DLTypes' /\ SharedInv'
  BY <1>2, <1>4 DEF SharedInv
<1>8. KnownInv'
  BY <1>2 DEF KnownInv
<1>9. StackInv'
  <2>1. Waits(d)'
    BY <1>2, <1>5 DEF Waits
  <2>2. \A e \in Download : e # d /\ Waits(e) => Waits(e)'
    BY <1>2 DEF Waits
  <2> SUFFICES ASSUME NEW k \in 1..Len(stack')
               PROVE  /\ owner_of'[stack'[k].ending] # NoInfo
                      /\ stack'[k].next # NoInfo =>
                           /\ Waits(stack[k].next)'
                           /\ \A j \in 1..Len(stack') :
                                /\ stack'[j].ending # stack'[k].next
                                /\ j # k => stack'[j].next # stack'[k].next
    BY DEF StackInv
  <2>3. CASE k = 1
    <3>1. owner_of'[shareInfo] # NoInfo
      BY <1>1, <1>2, <1>5 DEF KnownInv
    <3>2. ASSUME NEW j \in 1..Len(stack')
          PROVE  stack'[j].ending # d /\ (j # 1 => stack'[j].next # d)
      <4>1. j = 1 \/ j \in 2..Len(stack')
        BY <1>4
      <4> QED BY <4>1, <1>3, <1>4, <1>5, <1>6
    <3> QED BY <2>1, <2>3, <3>1, <3>2, <1>3, <1>4
  <2>4. CASE k # 1
    <3>1. k \in 2..Len(stack') /\ k - 1 \in 1..Len(stack) /\ stack'[k] = stack[k - 1]
      BY <2>4, <1>4
    <3>2. owner_of'[stack'[k].ending] # NoInfo
      BY <3>1, <1>2, <1>6 DEF StackInv, Frame
    <3>3. ASSUME stack'[k].next # NoInfo
          PROVE  /\ Waits(stack[k].next)'
                 /\ \A j \in 1..Len(stack') :
                      /\ stack'[j].ending # stack'[k].next
                      /\ j # k => stack'[j].next # stack'[k].next
      <4>1. Waits(stack[k].next)'
        <5>1. Waits(stack[k - 1].next) /\ stack[k - 1].next \in Download
          BY <3>1, <3>3, FrameTypes DEF StackInv
        <5>2. stack[k - 1].next # d
          BY <3>1, <1>6
        <5> QED BY <3>1, <5>1, <5>2, <1>2 DEF Waits
      <4>2. ASSUME NEW j \in 1..Len(stack')
            PROVE  /\ stack'[j].ending # stack'[k].next
                   /\ j # k => stack'[j].next # stack'[k].next
        <5>1. CASE j = 1
          BY <5>1, <3>1, <3>3, <1>3, <1>4, <1>6
        <5>2. CASE j # 1
          <6>1. j - 1 \in 1..Len(stack) /\ stack'[j] = stack[j - 1]
            BY <5>2, <1>4
          <6>2. j # k => j - 1 # k - 1
            BY <1>4
          <6> QED BY <6>1, <6>2, <3>1, <3>3 DEF StackInv
        <5> QED BY <5>1, <5>2
      <4> QED BY <4>1, <4>2
    <3> QED BY <3>2, <3>3
  <2> QED BY <2>3, <2>4
<1> QED BY <1>7, <1>8, <1>9

(* The network ends a download; the one it can be is not shareInfo, or     *)
(* shareInfo is reset.                                                     *)
LEMMA DLInvEnds ==
  ASSUME DLInv, NEW d \in Download, DownloadEnds(d)
  PROVE  DLInv'
<1> USE DEF DLInv, DLTypes
<1>1. /\ d \in linklist /\ stack = <<>> /\ Len(stack) = 0
      /\ UNCHANGED <<dlContext, left, owner_of, unshared>>
  BY DEF DownloadEnds
<1>2. CASE owner_of[d] \in left
  <2>1. /\ linklist' = linklist \ {d} /\ freedInfo' = freedInfo \cup {d}
        /\ UNCHANGED <<shareInfo, stack>>
    BY <1>2 DEF DownloadEnds
  <2>2. KnownInv'
    BY <1>1, <2>1 DEF KnownInv
  <2>3. StackInv'
    BY <1>1, <2>1 DEF StackInv
  <2>4. SharedInv'
    BY <1>1, <1>2, <2>1 DEF SharedInv
  <2> QED BY <1>1, <2>1, <2>2, <2>3, <2>4
<1>3. CASE owner_of[d] \notin left
  <2> DEFINE f == [ending |-> d, next |-> NoInfo]
  <2>1. /\ UNCHANGED <<linklist, freedInfo>>
        /\ stack' = <<f>> \o stack
        /\ shareInfo' = IF d \in unshared THEN NoInfo ELSE shareInfo
    BY <1>3 DEF DownloadEnds, RequestCb
  <2>2. f \in Frame /\ f.ending = d /\ f.next = NoInfo
    BY DEF Frame
  <2>3. stack' \in Seq(Frame) /\ Len(stack') = 1 /\ stack'[1] = f
    BY <1>1, <2>1, <2>2, PushFrame
  <2> HIDE DEF f
  <2>4. KnownInv'
    BY <1>1, <2>1 DEF KnownInv
  <2>5. StackInv'
    BY <1>1, <2>1, <2>2, <2>3 DEF StackInv, KnownInv
  <2>6. SharedInv'
    BY <1>1, <2>1, <2>2, <2>3 DEF SharedInv
  <2> QED BY <1>1, <2>1, <2>3, <2>4, <2>5, <2>6
<1> QED BY <1>2, <1>3

(* The frame on top goes; the download that waited in it is listed.        *)
LEMMA DLInvReturns ==
  ASSUME ~Abandon, DLInv, RequestCbReturns
  PROVE  DLInv'
<1> USE DEF DLInv, DLTypes
<1> DEFINE f == stack[1]
<1>1. /\ stack # <<>> /\ stack' = Tail(stack)
      /\ UNCHANGED <<dlContext, left, owner_of, unshared>>
      /\ freedInfo' = freedInfo \cup {f.ending}
      /\ f.next = NoInfo =>
           linklist' = linklist \ {f.ending} /\ shareInfo' = shareInfo
      /\ f.next # NoInfo =>
           linklist' = (linklist \ {f.ending}) \cup {f.next} /\ shareInfo' = f.next
  BY DEF RequestCbReturns
<1>2. /\ stack' \in Seq(Frame) /\ Len(stack) \in Nat /\ 1 \in 1..Len(stack)
      /\ f \in Frame
      /\ \A k \in 1..Len(stack') :
           k + 1 \in 2..Len(stack) /\ stack'[k] = stack[k + 1]
  BY <1>1, PopFrame
<1>3. /\ f.ending \in Download /\ owner_of[f.ending] # NoInfo
      /\ f.next # NoInfo =>
           /\ f.next \in Download /\ Waits(f.next) /\ f.ending # f.next
           /\ \A j \in 1..Len(stack) :
                /\ stack[j].ending # f.next
                /\ j # 1 => stack[j].next # f.next
  BY <1>2 DEF StackInv, Frame
<1>4. \A k \in 1..Len(stack') :
        /\ k + 1 \in 1..Len(stack) /\ k + 1 # 1 /\ stack'[k] = stack[k + 1]
        /\ stack'[k] \in Frame
  BY <1>2
<1> HIDE DEF f
<1>5. DLTypes'
  BY <1>1, <1>2, <1>3
<1>6. KnownInv'
  BY <1>1, <1>3 DEF KnownInv, Waits
<1>7. StackInv'
  <2> SUFFICES ASSUME NEW k \in 1..Len(stack')
               PROVE  /\ owner_of'[stack'[k].ending] # NoInfo
                      /\ stack'[k].next # NoInfo =>
                           /\ Waits(stack[k].next)'
                           /\ \A j \in 1..Len(stack') :
                                /\ stack'[j].ending # stack'[k].next
                                /\ j # k => stack'[j].next # stack'[k].next
    BY DEF StackInv
  <2>1. owner_of'[stack'[k].ending] # NoInfo
    BY <1>1, <1>4 DEF StackInv
  <2>2. ASSUME stack'[k].next # NoInfo PROVE Waits(stack[k].next)'
    <3>1. Waits(stack[k + 1].next) /\ stack[k + 1].next # f.ending
      BY <2>2, <1>2, <1>4 DEF StackInv, f
    <3>2. f.next # NoInfo => stack[k + 1].next # f.next
      BY <1>3, <1>4
    <3> QED BY <3>1, <3>2, <1>1, <1>4 DEF Waits
  <2>3. ASSUME stack'[k].next # NoInfo, NEW j \in 1..Len(stack')
        PROVE  /\ stack'[j].ending # stack'[k].next
               /\ j # k => stack'[j].next # stack'[k].next
    <3>1. j # k => j + 1 # k + 1
      BY <1>2
    <3> QED BY <3>1, <2>3, <1>4 DEF StackInv
  <2> QED BY <2>1, <2>2, <2>3
<1>8. SharedInv'
  <2>1. CASE f.next = NoInfo
    <3>1. shareInfo # NoInfo => shareInfo # f.ending
      BY <1>2 DEF SharedInv, f
    <3> QED BY <3>1, <2>1, <1>1, <1>4 DEF SharedInv
  <2>2. CASE f.next # NoInfo
    BY <2>2, <1>1, <1>3, <1>4 DEF SharedInv, Waits
  <2> QED BY <2>1, <2>2
<1> QED BY <1>5, <1>6, <1>7, <1>8

(* An instance goes only when its unshared downloads have been freed.      *)
LEMMA DLInvDetached ==
  ASSUME ~Abandon, DLInv, NEW p \in Page, PageDetached(p)
  PROVE  DLInv'
<1> USE DEF DLInv, DLTypes
<1>1. /\ \A d \in unshared : owner_of[d] = p => d \in freedInfo
      /\ left' = left \cup {p}
      /\ UNCHANGED <<dlContext, owner_of, unshared, linklist, shareInfo, stack,
                     freedInfo>>
  BY DEF PageDetached
<1>2. \A e \in Download : Waits(e) => Waits(e)'
  BY <1>1 DEF Waits
<1>3. StackInv'
  <2>1. \A k \in 1..Len(stack) : stack[k] \in Frame
    OBVIOUS
  <2> QED BY <1>1, <1>2, <2>1 DEF StackInv, Frame
<1>4. SharedInv'
  BY <1>1 DEF SharedInv, KnownInv
<1> QED BY <1>1, <1>3, <1>4 DEF KnownInv

LEMMA DLInvDestroy ==
  ASSUME DLInv, DownloadsDestroy PROVE DLInv'
BY DEF DownloadsDestroy, DLInv, DLTypes, KnownInv, StackInv, SharedInv

LEMMA DLInvStep ==
  ASSUME ~Abandon, DLInv, [DownloadsNext]_dlVars
  PROVE  DLInv'
<1>1. CASE UNCHANGED dlVars
  BY <1>1 DEF dlVars, DLInv, DLTypes, KnownInv, StackInv, SharedInv, Waits
<1>2. ASSUME NEW d \in Download, NEW p \in Page, NEW share \in BOOLEAN,
             StartDownload(d, p, share)
      PROVE  DLInv'
  BY <1>2, DLInvStart
<1>3. ASSUME NEW d \in Download, NEW p \in Page, ReplaceDownload(d, p)
      PROVE  DLInv'
  BY <1>3, DLInvReplace
<1>4. ASSUME NEW d \in Download, DownloadEnds(d) PROVE DLInv'
  BY <1>4, DLInvEnds
<1>5. CASE RequestCbReturns
  BY <1>5, DLInvReturns
<1>6. ASSUME NEW p \in Page, PageDetached(p) PROVE DLInv'
  BY <1>6, DLInvDetached
<1>7. CASE DownloadsDestroy
  BY <1>7, DLInvDestroy
<1> QED
  BY <1>1, <1>2, <1>3, <1>4, <1>5, <1>6, <1>7
  DEF DownloadsNext, DownloadsFinished

-----------------------------------------------------------------------------
(* However deep the functions of the script nest the endings of downloads, *)
(* the one that the next unshared download cancels still runs: it was not  *)
(* freed and does not end already (wrap_download, __request_cancel,        *)
(* __request_cb).                                                          *)
THEOREM DownloadsSharedAlive ==
  ASSUME ~Abandon PROVE DownloadsSpec => []SharedInfoAlive
<1>1. DLInv => SharedInfoAlive
  <2> SUFFICES ASSUME DLInv, shareInfo # NoInfo
               PROVE  shareInfo \in linklist \ Ending
    BY DEF SharedInfoAlive
  <2>1. DOMAIN stack = 1..Len(stack)
    BY DEF DLInv, DLTypes
  <2> QED BY <2>1 DEF DLInv, SharedInv, Ending
<1>2. DLInv /\ [DownloadsNext]_dlVars => DLInv'
  BY DLInvStep
<1> QED BY <1>1, <1>2, DLInvInit, PTL DEF DownloadsSpec

(* What an ending leaves behind, and what it cancels, is a download; also  *)
(* when unshared downloads are refused or outlive their instances.         *)
THEOREM DownloadsTypesHold == DownloadsSpec => []DownloadsTypeOK
<1>1. DownloadsInit => DLTypes
  BY DEF DownloadsInit, DLTypes
<1>2. DLTypes /\ [DownloadsNext]_dlVars => DLTypes'
  <2> SUFFICES ASSUME DLTypes, [DownloadsNext]_dlVars PROVE DLTypes'
    OBVIOUS
  <2>1. ASSUME NEW d \in Download, NEW p \in Page, NEW share \in BOOLEAN,
               StartDownload(d, p, share)
        PROVE  DLTypes'
    BY <2>1 DEF DLTypes, StartDownload, Commit
  <2>2. ASSUME NEW d \in Download, NEW p \in Page, ReplaceDownload(d, p)
        PROVE  DLTypes'
    <3>1. CASE owner_of[shareInfo] \in left
      BY <2>2, <3>1 DEF DLTypes, ReplaceDownload
    <3>2. CASE owner_of[shareInfo] \notin left
      <4>1. [ending |-> shareInfo, next |-> d] \in Frame
        BY <2>2 DEF DLTypes, ReplaceDownload, Frame
      <4> QED BY <2>2, <3>2, <4>1, PushFrame DEF DLTypes, ReplaceDownload, RequestCb
    <3> QED BY <3>1, <3>2
  <2>3. ASSUME NEW d \in Download, DownloadEnds(d) PROVE DLTypes'
    <3>1. CASE owner_of[d] \in left
      BY <2>3, <3>1 DEF DLTypes, DownloadEnds
    <3>2. CASE owner_of[d] \notin left
      <4>1. [ending |-> d, next |-> NoInfo] \in Frame
        BY DEF Frame
      <4> QED BY <2>3, <3>2, <4>1, PushFrame DEF DLTypes, DownloadEnds, RequestCb
    <3> QED BY <3>1, <3>2
  <2>4. CASE RequestCbReturns
    <3>1. /\ stack \in Seq(Frame) /\ stack # <<>> /\ stack' = Tail(stack)
      BY <2>4 DEF DLTypes, RequestCbReturns
    <3>2. /\ stack' \in Seq(Frame) /\ stack[1].ending \in Download
          /\ stack[1].next \in Download \cup {NoInfo}
      BY <3>1, PopFrame DEF Frame
    <3> QED BY <2>4, <3>2 DEF DLTypes, RequestCbReturns
  <2>5. ASSUME NEW p \in Page, PageDetached(p) PROVE DLTypes'
    BY <2>5 DEF DLTypes, PageDetached
  <2>6. CASE DownloadsDestroy
    BY <2>6 DEF DLTypes, DownloadsDestroy
  <2>7. CASE UNCHANGED dlVars
    BY <2>7 DEF DLTypes, dlVars
  <2> QED BY <2>1, <2>2, <2>3, <2>4, <2>5, <2>6, <2>7
          DEF DownloadsNext, DownloadsFinished
<1>3. DLTypes => DownloadsTypeOK
  <2> SUFFICES ASSUME DLTypes PROVE DownloadsTypeOK
    OBVIOUS
  <2>1. \A k \in DOMAIN stack : stack[k] \in Frame
    BY DEF DLTypes
  <2> QED BY <2>1 DEF DLTypes, DownloadsTypeOK, Frame
<1> QED BY <1>1, <1>2, <1>3, PTL DEF DownloadsSpec

-----------------------------------------------------------------------------
(***************************************************************************)
(* Archives.  A request is listed by its instance until it is freed, and a *)
(* function runs only for a work that ended.                               *)
(***************************************************************************)

(* The function of a call runs over a work that ended, and its instance    *)
(* stays meanwhile: only without Abrupt, as detach then waits for it.      *)
FunctionOfLive ==
  /\ inFunction.which = "none" <=> inFunction.zr = Nowhere
  /\ inFunction.which # "none" =>
       zr[inFunction.zr] = "worked" /\ page[feature[inFunction.zr]] = "live"

(* A call has an instance from the time it is made. *)
CallsOfInstances ==
  \A w \in Work : zr[w] # "none" => feature[w] \in Owner

ZipInv == ZipTypeOK /\ ListedUntilFreed /\ FunctionOfLive /\ CallsOfInstances

LEMMA ZipInvInit == ZipInit => ZipInv
<1> SUFFICES ASSUME ZipInit PROVE ZipInv
  OBVIOUS
<1>1. unzip_success_flag \in [Work -> BOOLEAN]
  BY ZipAssumption DEF ZipInit
<1>2. ZipTypeOK
  BY <1>1, ZipAssumption DEF ZipInit, ZipTypeOK, NoFunction
<1>3. ListedUntilFreed /\ FunctionOfLive /\ CallsOfInstances
  BY DEF ZipInit, ListedUntilFreed, FunctionOfLive, CallsOfInstances,
         NoFunction
<1> QED BY <1>2, <1>3 DEF ZipInv

LEMMA ZipInvCalls ==
  ASSUME ZipInv, NEW i \in Owner, NEW w \in Work,
         Decompress(i, w) \/ DecompressRefused(i, w)
  PROVE  ZipInv'
BY ZipAssumption
DEF Decompress, DecompressRefused, ZipInv, ZipTypeOK, ListedUntilFreed,
    FunctionOfLive, CallsOfInstances, NoFunction

LEMMA ZipInvAfter ==
  ASSUME ZipInv, NEW w \in Work, AfterExtract(w)
  PROVE  ZipInv'
BY ZipAssumption
DEF AfterExtract, ZipInv, ZipTypeOK, ListedUntilFreed,
    FunctionOfLive, CallsOfInstances, NoFunction

LEMMA ZipInvReturns ==
  ASSUME ZipInv, OutcomeFunctionReturns \/ CompleteFunctionReturns
  PROVE  ZipInv'
<1>1. CASE OutcomeFunctionReturns
  BY <1>1, ZipAssumption
DEF OutcomeFunctionReturns, ZipInv, ZipTypeOK, ListedUntilFreed,
    FunctionOfLive, CallsOfInstances, NoFunction
<1>2. CASE CompleteFunctionReturns
  BY <1>2, ZipAssumption
DEF CompleteFunctionReturns, ZipInv, ZipTypeOK, ListedUntilFreed,
    FunctionOfLive, CallsOfInstances, NoFunction
<1> QED BY <1>1, <1>2

LEMMA ZipInvDetach ==
  ASSUME ~Abrupt, ZipInv, NEW i \in Owner, ZipDetach(i)
  PROVE  ZipInv'
<1> USE DEF ZipInv, ZipTypeOK
<1>1. /\ page' = [page EXCEPT ![i] = "detached"]
      /\ zr' = [w \in Work |-> IF w \in zr_arr[i] /\ zr[w] = "queued"
                                 THEN "canceled" ELSE zr[w]]
      /\ zr_arr' = [zr_arr EXCEPT ![i] = {}]
      /\ UNCHANGED <<feature, unzip_success_flag, extracted, astray, cwd,
                     answer, inFunction>>
  BY DEF ZipDetach
<1>2. ZipTypeOK'
  BY <1>1
<1>3. ListedUntilFreed'
  BY <1>1 DEF ListedUntilFreed, CallsOfInstances
<1>4. FunctionOfLive'
  <2>1. inFunction.which # "none" => feature[inFunction.zr] # i
    BY DEF ZipDetach, NoFunction
  <2> QED BY <1>1, <2>1, ZipAssumption DEF FunctionOfLive
<1>5. CallsOfInstances'
  BY <1>1 DEF CallsOfInstances
<1> QED BY <1>2, <1>3, <1>4, <1>5

LEMMA ZipInvWork ==
  ASSUME ZipInv, NEW w \in Work,
         \/ StartWork(w) \/ OpenFails(w) \/ ChangeDirectory(w)
         \/ Extract(w) \/ WorkEnds(w)
  PROVE  ZipInv'
<1> USE ZipAssumption
    DEF ZipInv, ZipTypeOK, ListedUntilFreed, FunctionOfLive, CallsOfInstances
<1>1. CASE StartWork(w)        BY <1>1 DEF StartWork
<1>2. CASE OpenFails(w)        BY <1>2 DEF OpenFails
<1>3. CASE ChangeDirectory(w)  BY <1>3 DEF ChangeDirectory
<1>4. CASE Extract(w)          BY <1>4 DEF Extract
<1>5. CASE WorkEnds(w)         BY <1>5 DEF WorkEnds
<1> QED BY <1>1, <1>2, <1>3, <1>4, <1>5

LEMMA ZipInvStep ==
  ASSUME ~Abrupt, ZipInv, [ZipNext]_zwVars
  PROVE  ZipInv'
<1>1. CASE UNCHANGED zwVars
  BY <1>1 DEF zwVars, ZipInv, ZipTypeOK, ListedUntilFreed, FunctionOfLive,
              CallsOfInstances
<1> QED
  BY <1>1, ZipInvCalls, ZipInvAfter, ZipInvReturns, ZipInvDetach, ZipInvWork
  DEF ZipNext, ZipEnd

LEMMA ZipInvariant ==
  ASSUME ~Abrupt PROVE ZipSpec => []ZipInv
<1>1. ZipInv /\ [ZipNext]_zwVars => ZipInv'
  BY ZipInvStep
<1> QED BY <1>1, ZipInvInit, PTL DEF ZipSpec

(* An instance lists exactly its own requests that are not freed, for any  *)
(* number of works and any size of the pool, whatever the functions of     *)
(* other works do: detach cancels nothing that is gone, and no request is  *)
(* left to nobody (zip_impl.cpp, __extract_zip_after_work_cb and detach).  *)
THEOREM ZipRequestsListed ==
  ASSUME ~Abrupt PROVE ZipSpec => []ListedUntilFreed
<1>1. ZipInv => ListedUntilFreed
  BY DEF ZipInv
<1> QED BY <1>1, ZipInvariant, PTL

(* No work writes more entries than its archive has, also when functions   *)
(* drop their instance.                                                    *)
THEOREM ZipTypesHold == ZipSpec => []ZipTypeOK
<1>1. ZipInit => ZipTypeOK
  BY ZipInvInit DEF ZipInv
<1>2. ZipTypeOK /\ [ZipNext]_zwVars => ZipTypeOK'
  <2> SUFFICES ASSUME ZipTypeOK, [ZipNext]_zwVars PROVE ZipTypeOK'
    OBVIOUS
  <2>1. ASSUME NEW w \in Work, NEW i \in Owner,
               Decompress(i, w) \/ DecompressRefused(i, w)
        PROVE  ZipTypeOK'
    BY <2>1 DEF ZipTypeOK, Decompress, DecompressRefused
  <2>2. ASSUME NEW w \in Work, AfterExtract(w) PROVE ZipTypeOK'
    BY <2>2 DEF ZipTypeOK, AfterExtract
  <2>3. ASSUME NEW w \in Work, StartWork(w) \/ OpenFails(w) \/ ChangeDirectory(w)
        PROVE  ZipTypeOK'
    BY <2>3 DEF ZipTypeOK, StartWork, OpenFails, ChangeDirectory
  <2>4. ASSUME NEW w \in Work, Extract(w) \/ WorkEnds(w) PROVE ZipTypeOK'
    <3>1. CASE Extract(w)
      BY <3>1, ZipAssumption DEF ZipTypeOK, Extract
    <3>2. CASE WorkEnds(w)
      BY <3>2 DEF ZipTypeOK, WorkEnds
    <3> QED BY <2>4, <3>1, <3>2
  <2>5. CASE OutcomeFunctionReturns \/ CompleteFunctionReturns
    BY <2>5 DEF ZipTypeOK, OutcomeFunctionReturns, CompleteFunctionReturns, NoFunction
  <2>6. ASSUME NEW i \in Owner, ZipDetach(i) PROVE ZipTypeOK'
    BY <2>6 DEF ZipTypeOK, ZipDetach
  <2>7. CASE UNCHANGED zwVars
    BY <2>7 DEF ZipTypeOK, zwVars
  <2> QED BY <2>1, <2>2, <2>3, <2>4, <2>5, <2>6, <2>7 DEF ZipNext, ZipEnd
<1> QED BY <1>1, <1>2, PTL DEF ZipSpec

-----------------------------------------------------------------------------
(***************************************************************************)
(* Strings and arrays of them.  For any places, threads and bounds, and    *)
(* without the two calls of FeatureArrayInsertAfter and FeatureArrayRemove *)
(* that Managed and Beyond stand for: CountsExact.                         *)
(*                                                                         *)
(* The exchange of a thread takes the count it loaded for the current one  *)
(* only if they are equal, whatever came between, and a thread in its loop *)
(* keeps the reference it began with (LoopsHold); the elements in use are  *)
(* written ones (ElementsWritten), for junk has no count.                  *)
(***************************************************************************)
Slots == Block \cup {Junk}

ElementsWritten ==
  /\ _size <= Len(_element) /\ \A n \in 1.._size : _element[n] \in Block
  /\ array = "none" => _size = 0

LoopsHold ==
  \A t \in Holder :
    loop[t].op # "none" => /\ loop[t].block \in Block
                           /\ holds[t][loop[t].block] > 0

ArraysInv ==
  /\ ArraysTypeOK /\ ElementsWritten /\ LoopsHold
  /\ \A b \in Block : IsFiniteSet(ThreadRefs(b))
  /\ CountsExact

-----------------------------------------------------------------------------
(* Sequences: how often an element is in them.                             *)
Places(s, b) == {n \in DOMAIN s : s[n] = b}

LEMMA UsesCounted ==
  ASSUME NEW T, NEW s \in Seq(T), NEW b
  PROVE  IsFiniteSet(Places(s, b)) /\ Uses(s, b) \in Nat
<1>1. Len(s) \in Nat /\ DOMAIN s = 1..Len(s)
  BY LenProperties
<1>2. Places(s, b) \in SUBSET (1..Len(s))
  BY <1>1 DEF Places
<1>3. IsFiniteSet(Places(s, b))
  BY <1>1, <1>2, UpToCounted, FS_Subset
<1> QED BY <1>3, FS_CardinalityType DEF Uses, Places

LEMMA UsesOfBoth ==
  ASSUME NEW T, NEW s \in Seq(T), NEW u \in Seq(T), NEW b
  PROVE  Uses(s \o u, b) = Uses(s, b) + Uses(u, b)
<1> DEFINE v == s \o u
           Moved == {n + Len(s) : n \in Places(u, b)}
<1>1. /\ v \in Seq(T) /\ Len(v) = Len(s) + Len(u)
      /\ \A n \in 1..Len(s) + Len(u) :
           v[n] = IF n <= Len(s) THEN s[n] ELSE u[n - Len(s)]
  BY ConcatProperties
<1>2. /\ Len(s) \in Nat /\ DOMAIN s = 1..Len(s)
      /\ Len(u) \in Nat /\ DOMAIN u = 1..Len(u)
      /\ DOMAIN v = 1..Len(s) + Len(u)
  BY <1>1, LenProperties
<1> HIDE DEF v
<1>3. Places(v, b) = Places(s, b) \cup Moved
  <2>1. ASSUME NEW n \in Places(v, b) PROVE n \in Places(s, b) \cup Moved
    <3>1. n \in 1..Len(s) + Len(u) /\ v[n] = b
      BY <1>2 DEF Places
    <3>2. CASE n <= Len(s)
      BY <1>1, <1>2, <3>1, <3>2 DEF Places
    <3>3. CASE ~(n <= Len(s))
      <4>1. n - Len(s) \in Places(u, b) /\ (n - Len(s)) + Len(s) = n
        BY <1>1, <1>2, <3>1, <3>3 DEF Places
      <4> QED BY <4>1
    <3> QED BY <3>2, <3>3
  <2>2. Places(s, b) \subseteq Places(v, b)
    BY <1>1, <1>2 DEF Places
  <2>3. ASSUME NEW n \in Places(u, b) PROVE n + Len(s) \in Places(v, b)
    <3>1. n \in 1..Len(u) /\ u[n] = b
      BY <1>2 DEF Places
    <3>2. n + Len(s) \in 1..Len(s) + Len(u) /\ ~(n + Len(s) <= Len(s))
          /\ (n + Len(s)) - Len(s) = n
      BY <1>2, <3>1
    <3> QED BY <1>1, <1>2, <3>1, <3>2 DEF Places
  <2> QED BY <2>1, <2>2, <2>3
<1>4. Places(s, b) \cap Moved = {}
  BY <1>2 DEF Places
<1>5. IsFiniteSet(Places(s, b)) /\ IsFiniteSet(Places(u, b))
  BY UsesCounted
<1>6. IsFiniteSet(Moved) /\ Cardinality(Moved) = Cardinality(Places(u, b))
  <2> DEFINE f == [n \in Places(u, b) |-> n + Len(s)]
  <2>1. Places(u, b) \subseteq Nat
    BY <1>2 DEF Places
  <2>2. f \in Bijection(Places(u, b), Moved)
    BY <1>2, <2>1 DEF Bijection, Injection, Surjection, IsInjective
  <2> QED BY <1>5, <2>2, FS_Bijection DEF ExistsBijection
<1>7. Cardinality(Places(v, b)) = Cardinality(Places(s, b)) + Cardinality(Places(u, b))
  <2>1. Cardinality(Places(s, b)) \in Nat /\ Cardinality(Moved) \in Nat
    BY <1>5, <1>6, FS_CardinalityType
  <2>2. Cardinality(Places(v, b)) =
          Cardinality(Places(s, b)) + Cardinality(Moved) - Cardinality({})
    <3> DEFINE p == Places(s, b)
    <3>1. IsFiniteSet(p) /\ IsFiniteSet(Moved) /\ p \cap Moved = {}
      BY <1>4, <1>5, <1>6
    <3> HIDE DEF p, Moved
    <3>2. Cardinality(p \cup Moved) =
            Cardinality(p) + Cardinality(Moved) - Cardinality(p \cap Moved)
      BY <3>1, FS_Union
    <3> QED BY <1>3, <3>1, <3>2 DEF p
  <2> QED BY <1>6, <2>1, <2>2, FS_EmptySet
<1> QED BY <1>7 DEF Uses, Places, v

LEMMA UsesOfNone == \A b : Uses(<<>>, b) = 0
BY FS_EmptySet DEF Uses

(* s over the beginning of old leaves s there.                             *)
LEMMA OverFront ==
  ASSUME NEW T, NEW s \in Seq(T), NEW old \in Seq(T), Len(s) <= Len(old)
  PROVE  /\ Over(s, old) \in Seq(T) /\ Len(Over(s, old)) = Len(old)
         /\ SubSeq(Over(s, old), 1, Len(s)) = s
         /\ \A n \in 1..Len(s) : Over(s, old)[n] = s[n]
<1> DEFINE o == Over(s, old)
<1>1. /\ Len(s) \in Nat /\ DOMAIN s = 1..Len(s)
      /\ Len(old) \in Nat /\ DOMAIN old = 1..Len(old)
      /\ \A n \in 1..Len(s) : s[n] \in T /\ n \in 1..Len(old)
      /\ \A n \in 1..Len(old) : old[n] \in T
  BY LenProperties, ElementOfSeq
<1>2. /\ o = [n \in 1..Len(old) |-> IF n \in 1..Len(s) THEN s[n] ELSE old[n]]
      /\ \A n \in 1..Len(old) : o[n] = IF n \in 1..Len(s) THEN s[n] ELSE old[n]
  BY <1>1 DEF Over
<1>3. o \in Seq(T) /\ Len(o) = Len(old)
  <2>1. \A n \in 1..Len(old) :
          (IF n \in 1..Len(s) THEN s[n] ELSE old[n]) \in T
    BY <1>1
  <2> QED BY <1>1, <1>2, <2>1, IsASeq, LenProperties
<1> HIDE DEF o
<1>4. \A n \in 1..Len(s) : o[n] = s[n] /\ o[n] \in T
  BY <1>1, <1>2
<1>5. /\ SubSeq(o, 1, Len(s)) \in Seq(T) /\ Len(SubSeq(o, 1, Len(s))) = Len(s)
      /\ \A n \in 1..Len(s) : SubSeq(o, 1, Len(s))[n] = s[n]
  <2>1. /\ SubSeq(o, 1, Len(s)) \in Seq(T)
        /\ Len(SubSeq(o, 1, Len(s))) = IF 1 <= Len(s) THEN Len(s) - 1 + 1 ELSE 0
        /\ \A n \in 1..Len(s) - 1 + 1 : SubSeq(o, 1, Len(s))[n] = o[1 + n - 1]
    BY <1>1, <1>4, SubSeqProperties
  <2> QED BY <1>1, <1>4, <2>1
<1>6. SubSeq(o, 1, Len(s)) = s
  BY <1>5, SeqEqual
<1> QED BY <1>3, <1>4, <1>6 DEF o

(* realloc keeps what is there.                                            *)
LEMMA GrownKeeps ==
  ASSUME _element \in Seq(Slots), NEW capacity \in Nat
  PROVE  /\ Grown(capacity) \in Seq(Slots)
         /\ Len(Grown(capacity)) >= capacity
         /\ Len(Grown(capacity)) >= Len(_element)
         /\ \A n \in 1..Len(_element) : Grown(capacity)[n] = _element[n]
<1>1. Len(_element) \in Nat
  BY LenProperties
<1>2. CASE capacity <= Len(_element)
  BY <1>1, <1>2 DEF Grown
<1>3. CASE ~(capacity <= Len(_element))
  <2> DEFINE m == capacity - Len(_element)
  <2>1. m \in Nat
    BY <1>1, <1>3
  <2> HIDE DEF m
  <2>2. Empty(m) \in Seq(Slots) /\ Len(Empty(m)) = m
    <3>1. Junk \in Slots
      BY DEF Slots
    <3>2. Empty(m) \in [1..m -> Slots]
      BY <3>1 DEF Empty
    <3>3. Empty(m) \in Seq(Slots)
      BY <2>1, <3>2
    <3> QED BY <2>1, <3>2, <3>3, LenProperties
  <2>3. /\ _element \o Empty(m) \in Seq(Slots)
        /\ Len(_element \o Empty(m)) = Len(_element) + m
        /\ \A n \in 1..Len(_element) + m : (_element \o Empty(m))[n] =
             IF n <= Len(_element) THEN _element[n] ELSE Empty(m)[n - Len(_element)]
    BY <2>2, ConcatProperties
  <2>4. Grown(capacity) = _element \o Empty(m)
    BY <1>3 DEF Grown, m
  <2>5. Len(_element) + m = capacity
    BY <1>1 DEF m
  <2> QED BY <1>1, <1>3, <2>1, <2>3, <2>4, <2>5
<1> QED BY <1>2, <1>3

(* The elements, and any part of them.                                     *)
LEMMA ElementsAre ==
  ASSUME ArraysInv
  PROVE  /\ _element \in Seq(Slots) /\ _size \in Nat /\ Elements \in Seq(Block)
         /\ Len(Elements) = _size /\ _size <= Len(_element)
         /\ Len(_element) \in Nat
<1>1. _element \in Seq(Slots) /\ _size \in Nat /\ _size <= Len(_element)
      /\ \A n \in 1.._size : _element[n] \in Block
  BY ArraysAssumption DEF ArraysInv, ArraysTypeOK, ElementsWritten, Slots
<1>2. Elements \in Seq(Block) /\ Len(Elements) = IF 1 <= _size THEN _size - 1 + 1 ELSE 0
  BY <1>1, SubSeqProperties DEF Elements
<1> QED BY <1>1, <1>2, LenProperties

LEMMA PartOfElements ==
  ASSUME ArraysInv, NEW m \in 1.._size + 1, NEW n \in m - 1.._size
  PROVE  /\ SubSeq(_element, m, n) \in Seq(Block)
         /\ Len(SubSeq(_element, m, n)) = n - (m - 1)
<1>1. _size \in Nat /\ \A k \in 1.._size : _element[k] \in Block
  BY ArraysAssumption DEF ArraysInv, ArraysTypeOK, ElementsWritten
<1>2. \A k \in m..n : _element[k] \in Block
  BY <1>1
<1>3. m \in Int /\ n \in Int
  BY <1>1
<1>4. /\ SubSeq(_element, m, n) \in Seq(Block)
      /\ Len(SubSeq(_element, m, n)) = IF m <= n THEN n - m + 1 ELSE 0
  BY <1>2, <1>3, SubSeqProperties
<1> QED BY <1>1, <1>4

LEMMA ElementsParted ==
  ASSUME ArraysInv, NEW k \in 0.._size
  PROVE  /\ SubSeq(_element, 1, k) \o SubSeq(_element, k + 1, _size) = Elements
         /\ \A b : Uses(Elements, b) = Uses(SubSeq(_element, 1, k), b)
                                       + Uses(SubSeq(_element, k + 1, _size), b)
<1>1. /\ _element \in Seq(Slots) /\ _size \in Nat /\ _size <= Len(_element)
      /\ Len(_element) \in Nat
  BY ElementsAre
<1>2. SubSeq(_element, 1, k) \o SubSeq(_element, k + 1, _size) = Elements
  <2>1. 1 \in 1..Len(_element) + 1 /\ k \in 1 - 1..Len(_element)
        /\ _size \in k..Len(_element)
    BY <1>1
  <2> QED BY <1>1, <2>1, ConcatAdjacentSubSeq DEF Elements
<1>3. 1 \in 1.._size + 1 /\ k \in 1 - 1.._size
      /\ k + 1 \in 1.._size + 1 /\ _size \in (k + 1) - 1.._size
  BY <1>1
<1>4. SubSeq(_element, 1, k) \in Seq(Block) /\ SubSeq(_element, k + 1, _size) \in Seq(Block)
  BY <1>3, PartOfElements
<1> QED BY <1>2, <1>4, UsesOfBoth

-----------------------------------------------------------------------------
(* References of threads.                                                  *)
LEMMA ThreadRefsAre ==
  \A b, p : p \in ThreadRefs(b) <=>
              \E t \in Holder : \E n \in 1..holds[t][b] : p = <<t, n>>
BY DEF ThreadRefs

LEMMA ThreadRefsNext ==
  \A b, p : p \in ThreadRefs(b)' <=>
              \E t \in Holder : \E n \in 1..holds'[t][b] : p = <<t, n>>
BY DEF ThreadRefs

LEMMA HeldCounted ==
  ASSUME ArraysInv, NEW b \in Block
  PROVE  /\ IsFiniteSet(ThreadRefs(b)) /\ HeldBy(b) \in Nat
         /\ holds \in [Holder -> [Block -> Nat]]
BY FS_CardinalityType DEF ArraysInv, ArraysTypeOK, HeldBy

LEMMA RefsKept ==
  ASSUME NEW b, \A t \in Holder : holds'[t][b] = holds[t][b]
  PROVE  ThreadRefs(b)' = ThreadRefs(b) /\ HeldBy(b)' = HeldBy(b)
<1>1. \A t \in Holder : {t} \X (1..holds'[t][b]) = {t} \X (1..holds[t][b])
  OBVIOUS
<1>2. ThreadRefs(b)' = ThreadRefs(b)
  BY <1>1 DEF ThreadRefs
<1> QED BY <1>2 DEF HeldBy

LEMMA RefGained ==
  ASSUME ArraysInv, NEW b \in Block, NEW t \in Holder,
         \A u \in Holder : holds'[u][b] = IF u = t THEN holds[u][b] + 1
                                                   ELSE holds[u][b]
  PROVE  IsFiniteSet(ThreadRefs(b)') /\ HeldBy(b)' = HeldBy(b) + 1
<1> DEFINE new == <<t, holds[t][b] + 1>>
<1>1. IsFiniteSet(ThreadRefs(b)) /\ holds \in [Holder -> [Block -> Nat]]
  BY HeldCounted
<1>2. \A u \in Holder : holds[u][b] \in Nat
  BY <1>1
<1>3. ThreadRefs(b)' = ThreadRefs(b) \cup {new}
  <2>1. ASSUME NEW p \in ThreadRefs(b)' PROVE p \in ThreadRefs(b) \cup {new}
    <3>1. PICK u \in Holder : \E n \in 1..holds'[u][b] : p = <<u, n>>
      BY <2>1, ThreadRefsNext
    <3>2. PICK n \in 1..holds'[u][b] : p = <<u, n>>
      BY <3>1
    <3>3. n \in 1..holds[u][b] \/ (u = t /\ n = holds[t][b] + 1)
      BY <1>2, <3>2
    <3> QED BY <3>2, <3>3, ThreadRefsAre
  <2>2. ASSUME NEW p \in ThreadRefs(b) PROVE p \in ThreadRefs(b)'
    <3>1. PICK u \in Holder : \E n \in 1..holds[u][b] : p = <<u, n>>
      BY <2>2, ThreadRefsAre
    <3>2. PICK n \in 1..holds[u][b] : p = <<u, n>>
      BY <3>1
    <3>3. n \in 1..holds'[u][b]
      BY <1>2, <3>2
    <3> QED BY <3>2, <3>3, ThreadRefsNext
  <2>3. new \in ThreadRefs(b)'
    <3>1. holds[t][b] + 1 \in 1..holds'[t][b]
      BY <1>2
    <3> QED BY <3>1, ThreadRefsNext
  <2> QED BY <2>1, <2>2, <2>3
<1>4. new \notin ThreadRefs(b)
  <2>1. SUFFICES ASSUME new \in ThreadRefs(b) PROVE FALSE
    OBVIOUS
  <2>2. PICK u \in Holder : \E n \in 1..holds[u][b] : new = <<u, n>>
    BY <2>1, ThreadRefsAre
  <2> QED BY <1>2, <2>2
<1> HIDE DEF new
<1>5. /\ IsFiniteSet(ThreadRefs(b) \cup {new})
      /\ Cardinality(ThreadRefs(b) \cup {new}) = Cardinality(ThreadRefs(b)) + 1
  BY <1>1, <1>4, FS_AddElement
<1> QED BY <1>3, <1>5 DEF HeldBy

LEMMA RefLost ==
  ASSUME ArraysInv, NEW b \in Block, NEW t \in Holder, holds[t][b] > 0,
         \A u \in Holder : holds'[u][b] = IF u = t THEN holds[u][b] - 1
                                                   ELSE holds[u][b]
  PROVE  /\ IsFiniteSet(ThreadRefs(b)') /\ HeldBy(b)' = HeldBy(b) - 1
         /\ HeldBy(b)' \in Nat
<1> DEFINE old == <<t, holds[t][b]>>
<1>1. IsFiniteSet(ThreadRefs(b)) /\ holds \in [Holder -> [Block -> Nat]]
  BY HeldCounted
<1>2. \A u \in Holder : holds[u][b] \in Nat
  BY <1>1
<1>3. ThreadRefs(b)' = ThreadRefs(b) \ {old}
  <2>1. ASSUME NEW p \in ThreadRefs(b)' PROVE p \in ThreadRefs(b) /\ p # old
    <3>1. PICK u \in Holder : \E n \in 1..holds'[u][b] : p = <<u, n>>
      BY <2>1, ThreadRefsNext
    <3>2. PICK n \in 1..holds'[u][b] : p = <<u, n>>
      BY <3>1
    <3>3. n \in 1..holds[u][b] /\ ~(u = t /\ n = holds[t][b])
      BY <1>2, <3>2
    <3> QED BY <3>2, <3>3, ThreadRefsAre
  <2>2. ASSUME NEW p \in ThreadRefs(b), p # old PROVE p \in ThreadRefs(b)'
    <3>1. PICK u \in Holder : \E n \in 1..holds[u][b] : p = <<u, n>>
      BY <2>2, ThreadRefsAre
    <3>2. PICK n \in 1..holds[u][b] : p = <<u, n>>
      BY <3>1
    <3>3. n \in 1..holds'[u][b]
      BY <1>2, <2>2, <3>2
    <3> QED BY <3>2, <3>3, ThreadRefsNext
  <2> QED BY <2>1, <2>2
<1>4. old \in ThreadRefs(b)
  <2>1. holds[t][b] \in 1..holds[t][b]
    BY <1>2
  <2> QED BY <2>1, ThreadRefsAre
<1> HIDE DEF old
<1>5. /\ IsFiniteSet(ThreadRefs(b) \ {old})
      /\ Cardinality(ThreadRefs(b) \ {old}) = Cardinality(ThreadRefs(b)) - 1
  BY <1>1, <1>4, FS_RemoveElement
<1>6. Cardinality(ThreadRefs(b) \ {old}) \in Nat
  BY <1>5, FS_CardinalityType
<1> QED BY <1>3, <1>5, <1>6 DEF HeldBy

(* A reference that goes to another thread.                                *)
LEMMA RefMoved ==
  ASSUME ArraysInv, NEW b \in Block, NEW t \in Holder, NEW u \in Holder,
         t # u, holds[t][b] > 0,
         \A v \in Holder : holds'[v][b] = IF v = t THEN holds[v][b] - 1
                                          ELSE IF v = u THEN holds[v][b] + 1
                                          ELSE holds[v][b]
  PROVE  IsFiniteSet(ThreadRefs(b)') /\ HeldBy(b)' = HeldBy(b)
<1> DEFINE old == <<t, holds[t][b]>>
           new == <<u, holds[u][b] + 1>>
           others == ThreadRefs(b) \ {old}
<1>1. IsFiniteSet(ThreadRefs(b)) /\ holds \in [Holder -> [Block -> Nat]]
  BY HeldCounted
<1>2. \A v \in Holder : holds[v][b] \in Nat
  BY <1>1
<1>3. ThreadRefs(b)' = others \cup {new}
  <2>1. ASSUME NEW p \in ThreadRefs(b)' PROVE p \in others \cup {new}
    <3>1. PICK v \in Holder : \E n \in 1..holds'[v][b] : p = <<v, n>>
      BY <2>1, ThreadRefsNext
    <3>2. PICK n \in 1..holds'[v][b] : p = <<v, n>>
      BY <3>1
    <3>3. \/ n \in 1..holds[v][b] /\ ~(v = t /\ n = holds[t][b])
          \/ v = u /\ n = holds[u][b] + 1
      BY <1>2, <3>2
    <3> QED BY <3>2, <3>3, ThreadRefsAre
  <2>2. ASSUME NEW p \in others PROVE p \in ThreadRefs(b)'
    <3>1. PICK v \in Holder : \E n \in 1..holds[v][b] : p = <<v, n>>
      BY <2>2, ThreadRefsAre
    <3>2. PICK n \in 1..holds[v][b] : p = <<v, n>>
      BY <3>1
    <3>3. n \in 1..holds'[v][b]
      BY <1>2, <2>2, <3>2
    <3> QED BY <3>2, <3>3, ThreadRefsNext
  <2>3. new \in ThreadRefs(b)'
    <3>1. holds[u][b] + 1 \in 1..holds'[u][b]
      BY <1>2
    <3> QED BY <3>1, ThreadRefsNext
  <2> QED BY <2>1, <2>2, <2>3
<1>4. old \in ThreadRefs(b)
  <2>1. holds[t][b] \in 1..holds[t][b]
    BY <1>2
  <2> QED BY <2>1, ThreadRefsAre
<1>5. new \notin others
  <2>1. SUFFICES ASSUME new \in ThreadRefs(b) PROVE FALSE
    OBVIOUS
  <2>2. PICK v \in Holder : \E n \in 1..holds[v][b] : new = <<v, n>>
    BY <2>1, ThreadRefsAre
  <2> QED BY <1>2, <2>2
<1>6. /\ IsFiniteSet(ThreadRefs(b) \ {old})
      /\ Cardinality(ThreadRefs(b) \ {old}) = Cardinality(ThreadRefs(b)) - 1
  <2> HIDE DEF old
  <2> QED BY <1>1, <1>4, FS_RemoveElement
<1>7. /\ IsFiniteSet(others \cup {new})
      /\ Cardinality(others \cup {new}) = Cardinality(others) + 1
  <2>1. IsFiniteSet(others)
    BY <1>6
  <2> HIDE DEF others, new
  <2> QED BY <1>5, <2>1, FS_AddElement
<1>8. Cardinality(ThreadRefs(b)) \in Nat
  BY <1>1, FS_CardinalityType
<1>9. Cardinality(ThreadRefs(b)') = Cardinality(ThreadRefs(b))
  BY <1>3, <1>6, <1>7, <1>8
<1> QED BY <1>3, <1>7, <1>9 DEF HeldBy

-----------------------------------------------------------------------------
(* Steps of values: the array stays.                                       *)
LEMMA ArraysTypes ==
  ASSUME ArraysInv
  PROVE  /\ ref_count \in [Block -> Nat] /\ holds \in [Holder -> [Block -> Nat]]
         /\ loop \in [Holder -> [op : {"none", "dup", "free"},
                                 block : Slots, expected : Nat]]
         /\ array \in {"none", "live"} /\ _size \in 0..MaxSize
         /\ _element \in Seq(Slots) /\ MaxSize \in Nat
         /\ Junk \notin Block
BY ArraysAssumption DEF ArraysInv, ArraysTypeOK, Slots

LEMMA CountAtPlace ==
  ASSUME ArraysInv, NEW b \in Block
  PROVE  /\ ref_count[b] = HeldBy(b) + Uses(Elements, b)
         /\ HeldBy(b) \in Nat /\ Uses(Elements, b) \in Nat
<1>1. Elements \in Seq(Block)
  BY ElementsAre
<1>2. HeldBy(b) \in Nat /\ Uses(Elements, b) \in Nat
  BY <1>1, UsesCounted, HeldCounted
<1> QED BY <1>2 DEF ArraysInv, CountsExact

LEMMA SameElements ==
  ASSUME _size' = _size, _element' = _element
  PROVE  Elements' = Elements
BY DEF Elements

LEMMA ValueStep ==
  ASSUME ArraysInv, NEW c \in Block, NEW step \in Int,
         UNCHANGED <<array, _size, _element>>,
         holds' \in [Holder -> [Block -> Nat]],
         loop' \in [Holder -> [op : {"none", "dup", "free"},
                               block : Slots, expected : Nat]],
         LoopsHold',
         ref_count' \in [Block -> Int], ref_count'[c] = ref_count[c] + step,
         \A b \in Block \ {c} : ref_count'[b] = ref_count[b],
         IsFiniteSet(ThreadRefs(c)'), HeldBy(c)' = HeldBy(c) + step,
         HeldBy(c)' \in Nat,
         \A b \in Block \ {c} : \A t \in Holder : holds'[t][b] = holds[t][b]
  PROVE  ArraysInv'
<1>1. /\ ref_count \in [Block -> Nat] /\ array \in {"none", "live"}
      /\ _size \in 0..MaxSize /\ _element \in Seq(Slots)
  BY ArraysTypes
<1>2. Elements' = Elements
  BY SameElements
<1>3. \A b \in Block : ref_count'[b] \in Nat
  <2>1. ref_count'[c] \in Nat
    <3>1. ref_count[c] = HeldBy(c) + Uses(Elements, c)
          /\ HeldBy(c) \in Nat /\ Uses(Elements, c) \in Nat
      BY CountAtPlace
    <3> QED BY <3>1
  <2> QED BY <1>1, <2>1
<1>4. ref_count' \in [Block -> Nat]
  BY <1>3
<1>5. ArraysTypeOK'
  BY <1>1, <1>4 DEF ArraysTypeOK, Slots
<1>6. ElementsWritten'
  <2>1. ElementsWritten
    BY DEF ArraysInv
  <2> QED BY <2>1 DEF ElementsWritten
<1>7. ASSUME NEW b \in Block
      PROVE  /\ IsFiniteSet(ThreadRefs(b)')
             /\ ref_count'[b] = HeldBy(b)' + Uses(Elements, b)
  <2>1. ref_count[b] = HeldBy(b) + Uses(Elements, b)
        /\ HeldBy(b) \in Nat /\ Uses(Elements, b) \in Nat
    BY CountAtPlace
  <2>2. CASE b = c
    BY <2>1, <2>2
  <2>3. CASE b # c
    <3>1. ThreadRefs(b)' = ThreadRefs(b) /\ HeldBy(b)' = HeldBy(b)
      BY <2>3, RefsKept
    <3>2. IsFiniteSet(ThreadRefs(b))
      BY HeldCounted
    <3> QED BY <2>1, <2>3, <3>1, <3>2
  <2> QED BY <2>2, <2>3
<1>8. CountsExact'
  BY <1>2, <1>7 DEF CountsExact
<1>9. \A b \in Block : IsFiniteSet(ThreadRefs(b)')
  BY <1>7
<1> QED BY <1>5, <1>6, <1>8, <1>9 DEF ArraysInv

LEMMA StrCopyStep ==
  ASSUME ArraysInv, NEW t \in Holder, NEW b \in Block, StrCopy(t, b)
  PROVE  ArraysInv'
<1>1. /\ ref_count \in [Block -> Nat] /\ holds \in [Holder -> [Block -> Nat]]
      /\ loop \in [Holder -> [op : {"none", "dup", "free"},
                              block : Slots, expected : Nat]]
  BY ArraysTypes
<1>2. /\ ref_count[b] = 0 /\ ref_count' = [ref_count EXCEPT ![b] = 1]
      /\ holds' = [holds EXCEPT ![t][b] = @ + 1] /\ loop' = loop
      /\ UNCHANGED <<array, _size, _element>>
  BY DEF StrCopy
<1>3. /\ holds' \in [Holder -> [Block -> Nat]]
      /\ \A u \in Holder : holds'[u][b] = IF u = t THEN holds[u][b] + 1
                                                   ELSE holds[u][b]
      /\ \A c \in Block \ {b} : \A u \in Holder : holds'[u][c] = holds[u][c]
  BY <1>1, <1>2
<1>4. IsFiniteSet(ThreadRefs(b)') /\ HeldBy(b)' = HeldBy(b) + 1 /\ HeldBy(b) \in Nat
  BY <1>3, RefGained, HeldCounted
<1>5. LoopsHold'
  <2>1. LoopsHold
    BY DEF ArraysInv
  <2>2. \A u \in Holder, c \in Block : holds[u][c] > 0 => holds'[u][c] > 0
    <3>1. ASSUME NEW u \in Holder, NEW c \in Block, holds[u][c] > 0
          PROVE  holds'[u][c] > 0
      <4>1. holds[u][c] \in Nat
        BY <1>1
      <4>2. CASE c = b /\ u = t
        BY <1>3, <3>1, <4>1, <4>2
      <4>3. CASE ~(c = b /\ u = t)
        BY <1>3, <3>1, <4>3
      <4> QED BY <4>2, <4>3
    <3> QED BY <3>1
  <2> QED BY <1>2, <2>1, <2>2 DEF LoopsHold
<1>6. /\ ref_count' \in [Block -> Int] /\ ref_count'[b] = ref_count[b] + 1
      /\ \A c \in Block \ {b} : ref_count'[c] = ref_count[c]
  BY <1>1, <1>2
<1>7. loop' \in [Holder -> [op : {"none", "dup", "free"},
                            block : Slots, expected : Nat]]
  BY <1>1, <1>2
<1>8. HeldBy(b)' \in Nat /\ 1 \in Int
  BY <1>4
<1> QED BY <1>2, <1>3, <1>4, <1>5, <1>6, <1>7, <1>8, ValueStep

(* The count is only read here.                                            *)
LEMMA LoopStep ==
  ASSUME ArraysInv, UNCHANGED <<ref_count, holds, array, _size, _element>>,
         loop' \in [Holder -> [op : {"none", "dup", "free"},
                               block : Slots, expected : Nat]],
         LoopsHold'
  PROVE  ArraysInv'
<1>1. ArraysTypeOK'
  BY DEF ArraysInv, ArraysTypeOK, Slots
<1>2. ElementsWritten'
  BY DEF ArraysInv, ElementsWritten
<1>3. \A b : ThreadRefs(b)' = ThreadRefs(b)
  BY DEF ThreadRefs
<1>4. Elements' = Elements
  BY SameElements
<1>5. CountsExact'
  BY <1>3, <1>4 DEF ArraysInv, CountsExact, HeldBy
<1> QED BY <1>1, <1>2, <1>3, <1>5 DEF ArraysInv

LEMMA LoadStep ==
  ASSUME ArraysInv, NEW t \in Holder, NEW b \in Block, NEW op \in {"dup", "free"},
         Load(t, b, op)
  PROVE  ArraysInv'
<1>1. /\ ref_count \in [Block -> Nat]
      /\ loop \in [Holder -> [op : {"none", "dup", "free"},
                              block : Slots, expected : Nat]]
  BY ArraysTypes
<1> DEFINE r == [op |-> op, block |-> b, expected |-> ref_count[b]]
<1>2. /\ holds[t][b] > 0 /\ loop' = [loop EXCEPT ![t] = r]
      /\ UNCHANGED <<ref_count, holds, array, _size, _element>>
  BY DEF Load
<1>3. r \in [op : {"none", "dup", "free"}, block : Slots, expected : Nat]
      /\ r.block = b
  BY <1>1 DEF Slots
<1> HIDE DEF r
<1>4. loop' \in [Holder -> [op : {"none", "dup", "free"},
                            block : Slots, expected : Nat]]
  BY <1>1, <1>2, <1>3
<1>5. LoopsHold'
  BY <1>1, <1>2, <1>3 DEF ArraysInv, LoopsHold
<1> QED BY <1>2, <1>4, <1>5, LoopStep

LEMMA HandOverStep ==
  ASSUME ArraysInv, NEW t \in Holder, NEW u \in Holder, NEW b \in Block,
         t # u, HandOver(t, u, b)
  PROVE  ArraysInv'
<1>1. /\ ref_count \in [Block -> Nat] /\ holds \in [Holder -> [Block -> Nat]]
      /\ loop \in [Holder -> [op : {"none", "dup", "free"},
                              block : Slots, expected : Nat]]
  BY ArraysTypes
<1>2. /\ loop[t].op = "none" /\ holds[t][b] > 0
      /\ holds' = [holds EXCEPT ![t][b] = @ - 1, ![u][b] = @ + 1]
      /\ loop' = loop /\ ref_count' = ref_count
      /\ UNCHANGED <<array, _size, _element>>
  BY DEF HandOver, NoLoop
<1>3. \A v \in Holder, c \in Block : holds[v][c] \in Nat
  BY <1>1
<1> DEFINE once == [holds EXCEPT ![t][b] = @ - 1]
<1>4. /\ once \in [Holder -> [Block -> Nat]]
      /\ \A v \in Holder, c \in Block :
           once[v][c] = IF v = t /\ c = b THEN holds[v][c] - 1 ELSE holds[v][c]
  BY <1>1, <1>2, <1>3
<1>5. holds' = [once EXCEPT ![u][b] = @ + 1]
  BY <1>2
<1> HIDE DEF once
<1>6. /\ holds' \in [Holder -> [Block -> Nat]]
      /\ \A v \in Holder, c \in Block :
           holds'[v][c] = IF v = u /\ c = b THEN once[v][c] + 1 ELSE once[v][c]
  BY <1>4, <1>5
<1>7. \A v \in Holder : holds'[v][b] = IF v = t THEN holds[v][b] - 1
                                       ELSE IF v = u THEN holds[v][b] + 1
                                       ELSE holds[v][b]
  BY <1>4, <1>6
<1>8. \A c \in Block \ {b} : \A v \in Holder : holds'[v][c] = holds[v][c]
  BY <1>4, <1>6
<1>9. IsFiniteSet(ThreadRefs(b)') /\ HeldBy(b)' = HeldBy(b) /\ HeldBy(b) \in Nat
  BY <1>2, <1>7, RefMoved, HeldCounted
<1>10. LoopsHold'
  <2>1. LoopsHold
    BY DEF ArraysInv
  <2>2. ASSUME NEW v \in Holder, loop'[v].op # "none"
        PROVE  loop'[v].block \in Block /\ holds'[v][loop'[v].block] > 0
    <3>1. loop[v].block \in Block /\ holds[v][loop[v].block] > 0 /\ v # t
      BY <1>2, <2>1, <2>2 DEF LoopsHold
    <3>2. holds'[v][loop[v].block] >= holds[v][loop[v].block]
      BY <1>3, <1>7, <1>8, <3>1
    <3> QED BY <1>2, <1>3, <1>6, <3>1, <3>2
  <2> QED BY <2>2 DEF LoopsHold
<1>11. /\ ref_count' \in [Block -> Int] /\ ref_count'[b] = ref_count[b] + 0
       /\ \A c \in Block \ {b} : ref_count'[c] = ref_count[c]
  BY <1>1, <1>2
<1>12. loop' \in [Holder -> [op : {"none", "dup", "free"},
                             block : Slots, expected : Nat]]
  BY <1>1, <1>2
<1>13. HeldBy(b)' = HeldBy(b) + 0 /\ HeldBy(b)' \in Nat /\ 0 \in Int
  BY <1>9
<1> QED BY <1>2, <1>6, <1>8, <1>9, <1>10, <1>11, <1>12, <1>13, ValueStep

(* The exchange succeeds only on the count that was loaded.                *)
LEMMA ExchangeStep ==
  ASSUME ArraysInv, NEW t \in Holder, CompareExchange(t)
  PROVE  ArraysInv'
<1>1. /\ ref_count \in [Block -> Nat] /\ holds \in [Holder -> [Block -> Nat]]
      /\ loop \in [Holder -> [op : {"none", "dup", "free"},
                              block : Slots, expected : Nat]]
  BY ArraysTypes
<1>a. loop[t].op # "none" /\ loop[t].block \in Block /\ holds[t][loop[t].block] > 0
  BY DEF CompareExchange, ArraysInv, LoopsHold
<1>b. PICK b \in Block : b = loop[t].block
  BY <1>a
<1>c. PICK step \in {1, -1} : step = IF loop[t].op = "dup" THEN 1 ELSE -1
  OBVIOUS
<1>2. loop[t].op # "none" /\ b \in Block /\ holds[t][b] > 0 /\ step \in {1, -1}
  BY <1>a, <1>b
<1>3. LoopsHold /\ UNCHANGED <<array, _size, _element>>
  BY DEF ArraysInv, CompareExchange
<1>4. CASE /\ ref_count' = [ref_count EXCEPT ![b] = @ + step]
           /\ holds' = [holds EXCEPT ![t][b] = @ + step]
           /\ loop' = [loop EXCEPT ![t] = NoLoop]
  <2>0. \A u \in Holder, c \in Block : holds[u][c] \in Nat
    BY <1>1
  <2>1. /\ holds' \in [Holder -> [Block -> Nat]]
        /\ \A u \in Holder, c \in Block : holds'[u][c] =
             IF u = t /\ c = b THEN holds[u][c] + step ELSE holds[u][c]
    <3>1. holds[t][b] + step \in Nat
      BY <1>2, <2>0
    <3> QED BY <1>1, <1>2, <1>4, <3>1
  <2>2. /\ IsFiniteSet(ThreadRefs(b)') /\ HeldBy(b)' = HeldBy(b) + step
        /\ HeldBy(b)' \in Nat
    <3>1. HeldBy(b) \in Nat
      BY <1>2, HeldCounted
    <3>2. CASE step = 1
      <4>1. \A u \in Holder : holds'[u][b] = IF u = t THEN holds[u][b] + 1
                                                      ELSE holds[u][b]
        BY <1>2, <2>1, <3>2
      <4> QED BY <1>2, <3>1, <3>2, <4>1, RefGained
    <3>3. CASE step = -1
      <4>1. \A u \in Holder : holds'[u][b] = IF u = t THEN holds[u][b] - 1
                                                      ELSE holds[u][b]
        BY <1>2, <2>0, <2>1, <3>3
      <4>2. /\ IsFiniteSet(ThreadRefs(b)') /\ HeldBy(b)' = HeldBy(b) - 1
            /\ HeldBy(b)' \in Nat
        BY <1>2, <4>1, RefLost
      <4> QED BY <3>1, <3>3, <4>2
    <3> QED BY <1>2, <3>2, <3>3
  <2>3. loop' \in [Holder -> [op : {"none", "dup", "free"},
                              block : Slots, expected : Nat]]
    BY <1>1, <1>4 DEF NoLoop, Slots
  <2>4. LoopsHold'
    <3>1. ASSUME NEW u \in Holder, loop'[u].op # "none"
          PROVE  loop'[u].block \in Block /\ holds'[u][loop'[u].block] > 0
      <4>1. u # t /\ loop'[u] = loop[u]
        BY <1>1, <1>4, <3>1 DEF NoLoop
      <4> QED BY <1>3, <2>1, <3>1, <4>1 DEF LoopsHold
    <3> QED BY <3>1 DEF LoopsHold
  <2>5. /\ ref_count' \in [Block -> Int] /\ ref_count'[b] = ref_count[b] + step
        /\ \A c \in Block \ {b} : ref_count'[c] = ref_count[c]
    BY <1>1, <1>2, <1>4
  <2>6. \A c \in Block \ {b} : \A u \in Holder : holds'[u][c] = holds[u][c]
    BY <2>1
  <2>7. step \in Int
    BY <1>2
  <2> QED BY <1>2, <1>3, <2>1, <2>2, <2>3, <2>4, <2>5, <2>6, <2>7, ValueStep
<1>5. CASE /\ loop' = [loop EXCEPT ![t].expected = ref_count[b]]
           /\ UNCHANGED <<ref_count, holds>>
  <2>1. ref_count[b] \in Nat
    BY <1>1, <1>2
  <2>2. /\ loop' \in [Holder -> [op : {"none", "dup", "free"},
                                 block : Slots, expected : Nat]]
        /\ \A u \in Holder : loop'[u].op = loop[u].op /\ loop'[u].block = loop[u].block
    BY <1>1, <1>5, <2>1
  <2>3. LoopsHold'
    BY <1>3, <1>5, <2>2 DEF LoopsHold
  <2> QED BY <1>3, <1>5, <2>2, <2>3, LoopStep
<1>6. \/ /\ ref_count' = [ref_count EXCEPT ![b] = @ + step]
         /\ holds' = [holds EXCEPT ![t][b] = @ + step]
         /\ loop' = [loop EXCEPT ![t] = NoLoop]
      \/ /\ loop' = [loop EXCEPT ![t].expected = ref_count[b]]
         /\ UNCHANGED <<ref_count, holds>>
  BY <1>b, <1>c DEF CompareExchange
<1> QED BY <1>4, <1>5, <1>6

-----------------------------------------------------------------------------
(* Steps of the array: l are its elements afterwards, and a string counts  *)
(* as much more as it is more often in l.                                  *)
LEMMA ArrayStep ==
  ASSUME ArraysInv, UNCHANGED <<holds, loop>>, NEW l \in Seq(Block),
         ref_count' \in [Block -> Int],
         \A b \in Block :
           ref_count'[b] = ref_count[b] - Uses(Elements, b) + Uses(l, b),
         array' \in {"none", "live"}, _size' \in 0..MaxSize,
         _element' \in Seq(Slots), _size' = Len(l), Len(l) <= Len(_element'),
         \A n \in 1..Len(l) : _element'[n] = l[n],
         array' = "none" => _size' = 0
  PROVE  ArraysInv'
<1>1. /\ holds \in [Holder -> [Block -> Nat]]
      /\ loop \in [Holder -> [op : {"none", "dup", "free"},
                              block : Slots, expected : Nat]]
  BY ArraysTypes
<1>2. ASSUME NEW b \in Block
      PROVE  /\ ref_count'[b] = HeldBy(b) + Uses(l, b)
             /\ HeldBy(b) \in Nat /\ Uses(l, b) \in Nat
  <2>1. /\ ref_count[b] = HeldBy(b) + Uses(Elements, b)
        /\ HeldBy(b) \in Nat /\ Uses(Elements, b) \in Nat
    BY CountAtPlace
  <2>2. Uses(l, b) \in Nat
    BY UsesCounted
  <2> QED BY <2>1, <2>2
<1>3. ref_count' \in [Block -> Nat]
  BY <1>2
<1>4. Len(l) \in Nat /\ \A n \in 1..Len(l) : l[n] \in Block
  BY LenProperties, ElementOfSeq
<1>5. Elements' = l
  <2>1. \A n \in 1.._size' : _element'[n] \in Block
    BY <1>4
  <2>2. /\ SubSeq(_element', 1, Len(l)) \in Seq(Block)
        /\ Len(SubSeq(_element', 1, Len(l))) = IF 1 <= Len(l) THEN Len(l) - 1 + 1 ELSE 0
        /\ \A n \in 1..Len(l) - 1 + 1 :
             SubSeq(_element', 1, Len(l))[n] = _element'[1 + n - 1]
    BY <1>4, <2>1, SubSeqProperties
  <2>3. /\ SubSeq(_element', 1, Len(l)) \in Seq(Block)
        /\ Len(SubSeq(_element', 1, Len(l))) = Len(l)
        /\ \A n \in 1..Len(l) : SubSeq(_element', 1, Len(l))[n] = l[n]
    BY <1>4, <2>2
  <2>4. SubSeq(_element', 1, Len(l)) = l
    BY <2>3, SeqEqual
  <2> QED BY <2>4 DEF Elements
<1>6. ArraysTypeOK'
  BY <1>1, <1>3 DEF ArraysTypeOK, Slots
<1>7. ElementsWritten'
  BY <1>4 DEF ElementsWritten
<1>8. LoopsHold'
  BY DEF ArraysInv, LoopsHold
<1>9. \A b : ThreadRefs(b)' = ThreadRefs(b) /\ HeldBy(b)' = HeldBy(b)
  BY DEF ThreadRefs, HeldBy
<1>10. CountsExact'
  BY <1>2, <1>5, <1>9 DEF CountsExact
<1>11. \A b \in Block : IsFiniteSet(ThreadRefs(b)')
  BY <1>9 DEF ArraysInv
<1> QED BY <1>6, <1>7, <1>8, <1>10, <1>11 DEF ArraysInv

(* What is taken for s and given back for d, with l = Elements - d + s.    *)
LEMMA TakenCounts ==
  ASSUME ArraysInv, NEW s \in Seq(Block)
  PROVE  /\ Taken(s) \in [Block -> Int] /\ Given(s) \in [Block -> Int]
         /\ \A b \in Block : /\ Taken(s)[b] = ref_count[b] + Uses(s, b)
                             /\ Given(s)[b] = ref_count[b] - Uses(s, b)
                             /\ Uses(s, b) \in Nat /\ Uses(Elements, b) \in Nat
                             /\ ref_count[b] \in Nat
<1>1. \A b \in Block : Uses(s, b) \in Nat /\ ref_count[b] \in Nat
                       /\ Uses(Elements, b) \in Nat
  BY UsesCounted, ArraysTypes, ElementsAre
<1> QED BY <1>1 DEF Taken, Given

LEMMA RunsAre ==
  ASSUME NEW s \in Runs, MaxSize \in Nat
  PROVE  s \in Seq(Block) /\ Len(s) \in 1..MaxSize
<1>1. PICK n \in 1..MaxSize : s \in [1..n -> Block]
  BY DEF Runs
<1>2. n \in Nat
  BY <1>1
<1>3. s \in Seq(Block)
  BY <1>1, <1>2
<1>4. DOMAIN s = 1..Len(s) /\ Len(s) \in Nat /\ DOMAIN s = 1..n
  BY <1>1, <1>3, LenProperties
<1>5. Len(s) = n
  BY <1>2, <1>4, UpToCounted
<1> QED BY <1>3, <1>5

LEMMA NoneIsASeq == <<>> \in Seq(Block) /\ <<>> \in Seq(Slots) /\ Len(<<>>) = 0
BY EmptySeq

LEMMA NoElements ==
  ASSUME ArraysInv, array = "none"
  PROVE  \A b : Uses(Elements, b) = 0
<1>1. Elements \in Seq(Block) /\ Len(Elements) = 0
  BY ElementsAre DEF ArraysInv, ElementsWritten
<1>2. Elements = <<>>
  BY <1>1, EmptySeq
<1> QED BY <1>2, UsesOfNone

LEMMA CreateStep ==
  ASSUME ArraysInv, NEW n \in 0..MaxSize, CreateArray(n)
  PROVE  ArraysInv'
<1>1. /\ ref_count \in [Block -> Nat] /\ MaxSize \in Nat
  BY ArraysTypes
<1>2. /\ array = "none" /\ array' = "live" /\ _size' = 0 /\ _element' = Empty(n)
      /\ ref_count' = ref_count /\ UNCHANGED <<holds, loop>>
  BY DEF CreateArray
<1>3. Empty(n) \in Seq(Slots)
  <2>1. n \in Nat /\ Empty(n) \in [1..n -> Slots]
    BY <1>1 DEF Empty, Slots
  <2> QED BY <2>1
<1>4. \A b \in Block : ref_count'[b] = ref_count[b] - Uses(Elements, b) + Uses(<<>>, b)
  BY <1>1, <1>2, NoElements, UsesOfNone
<1>5. /\ _size' = Len(<<>>) /\ Len(<<>>) <= Len(_element') /\ _size' \in 0..MaxSize
      /\ \A k \in 1..Len(<<>>) : _element'[k] = <<>>[k]
  BY <1>1, <1>2, <1>3, NoneIsASeq, LenProperties
<1>6. ref_count' \in [Block -> Int]
  BY <1>1, <1>2
<1> QED BY <1>2, <1>3, <1>4, <1>5, <1>6, NoneIsASeq, ArrayStep

LEMMA CopyStep ==
  ASSUME ArraysInv, NEW s \in Runs, ArrayCopy(s)
  PROVE  ArraysInv'
<1>1. MaxSize \in Nat /\ s \in Seq(Block) /\ Len(s) \in 1..MaxSize
  BY ArraysTypes, RunsAre
<1>2. /\ array = "none" /\ array' = "live" /\ _size' = Len(s) /\ _element' = s
      /\ ref_count' = Taken(s) /\ UNCHANGED <<holds, loop>>
  BY DEF ArrayCopy
<1>3. s \in Seq(Slots)
  <2>1. \A k \in 1..Len(s) : s[k] \in Slots
    BY <1>1, ElementOfSeq DEF Slots
  <2>2. Len(s) \in Nat /\ s \in [1..Len(s) -> Slots]
    BY <1>1, <2>1, LenProperties
  <2> QED BY <2>2
<1>4. ref_count' \in [Block -> Int]
      /\ \A b \in Block : ref_count'[b] = ref_count[b] - Uses(Elements, b) + Uses(s, b)
  <2>1. \A b \in Block : Uses(Elements, b) = 0
    BY <1>2, NoElements
  <2> QED BY <1>1, <1>2, <2>1, TakenCounts
<1>5. /\ _size' \in 0..MaxSize /\ Len(s) <= Len(_element')
      /\ \A k \in 1..Len(s) : _element'[k] = s[k]
  BY <1>1, <1>2
<1> QED BY <1>1, <1>2, <1>3, <1>4, <1>5, ArrayStep

(* The elements stay the elements in longer memory.                        *)
LEMMA ResizeStep ==
  ASSUME ArraysInv, NEW n \in 0..MaxSize, ArrayResize(n)
  PROVE  ArraysInv'
<1>1. /\ ref_count \in [Block -> Nat] /\ MaxSize \in Nat /\ _size \in 0..MaxSize
      /\ _element \in Seq(Slots) /\ array \in {"none", "live"}
  BY ArraysTypes
<1>2. /\ array = "live" /\ array' = array /\ _size' = _size /\ _element' = Grown(n)
      /\ ref_count' = ref_count /\ UNCHANGED <<holds, loop>>
  BY DEF ArrayResize, ArrayAtHand
<1>3. /\ Elements \in Seq(Block) /\ Len(Elements) = _size /\ _size <= Len(_element)
      /\ Len(_element) \in Nat
  BY ElementsAre
<1>4. n \in Nat
  BY <1>1
<1>5. /\ Grown(n) \in Seq(Slots) /\ Len(Grown(n)) >= Len(_element)
      /\ Len(Grown(n)) \in Nat
      /\ \A k \in 1..Len(_element) : Grown(n)[k] = _element[k]
  BY <1>1, <1>4, GrownKeeps, LenProperties
<1>6. \A k \in 1.._size : Elements[k] = _element[k]
  BY <1>1, <1>3, SubSeqProperties DEF Elements
<1>7. \A b \in Block : ref_count'[b] = ref_count[b] - Uses(Elements, b) + Uses(Elements, b)
  BY <1>2, <1>3, TakenCounts
<1>8. /\ \A k \in 1..Len(Elements) : _element'[k] = Elements[k]
      /\ Len(Elements) <= Len(_element')
  <2>1. \A k \in 1.._size : k \in 1..Len(_element)
    BY <1>1, <1>3
  <2>2. \A k \in 1.._size : Grown(n)[k] = Elements[k]
    BY <1>5, <1>6, <2>1
  <2>3. _size <= Len(Grown(n))
    BY <1>1, <1>3, <1>5
  <2> QED BY <1>2, <1>3, <2>2, <2>3
<1>9. ref_count' \in [Block -> Int] /\ _size' = Len(Elements)
  BY <1>1, <1>2, <1>3
<1> QED BY <1>1, <1>2, <1>3, <1>5, <1>7, <1>8, <1>9, ArrayStep

(* New elements written over the beginning of memory that is long enough.  *)
LEMMA WrittenStep ==
  ASSUME ArraysInv, UNCHANGED <<holds, loop>>, array' = "live",
         NEW l \in Seq(Block), NEW memory \in Seq(Slots),
         Len(l) <= Len(memory), Len(l) \in 0..MaxSize,
         _size' = Len(l), _element' = Over(l, memory),
         ref_count' \in [Block -> Int],
         \A b \in Block :
           ref_count'[b] = ref_count[b] - Uses(Elements, b) + Uses(l, b)
  PROVE  ArraysInv'
<1>1. l \in Seq(Slots)
  <2>1. Len(l) \in Nat /\ \A k \in 1..Len(l) : l[k] \in Slots
    BY ElementOfSeq, LenProperties DEF Slots
  <2>2. l \in [1..Len(l) -> Slots]
    BY <2>1, LenProperties
  <2> QED BY <2>1, <2>2
<1>2. /\ Over(l, memory) \in Seq(Slots) /\ Len(Over(l, memory)) = Len(memory)
      /\ \A k \in 1..Len(l) : Over(l, memory)[k] = l[k]
  BY <1>1, OverFront
<1> QED BY <1>2, ArrayStep

LEMMA AppendStep ==
  ASSUME ArraysInv, NEW b \in Block, ArrayAppend(b)
  PROVE  ArraysInv'
<1>1. /\ MaxSize \in Nat /\ _size \in 0..MaxSize /\ _element \in Seq(Slots)
      /\ Growth \in Nat
  BY ArraysTypes, ArraysAssumption
<1> DEFINE memory == IF _size + 1 > Len(_element) THEN Grown(_size + Growth) ELSE _element
           l == Append(Elements, b)
           one == <<b>>
<1>2. /\ _size < MaxSize /\ array' = "live" /\ _size' = _size + 1
      /\ _element' = Over(l, memory)
      /\ ref_count' = Taken(one) /\ UNCHANGED <<holds, loop>>
  BY DEF ArrayAppend, ArrayAtHand
<1>3. /\ Elements \in Seq(Block) /\ Len(Elements) = _size /\ _size <= Len(_element)
      /\ Len(_element) \in Nat
  BY ElementsAre
<1>4. memory \in Seq(Slots) /\ _size + 1 <= Len(memory)
  <2>1. CASE _size + 1 > Len(_element)
    <3>1. _size + Growth \in Nat /\ _size + Growth >= _size + 1
      BY <1>1, ArraysAssumption
    <3>2. /\ Grown(_size + Growth) \in Seq(Slots)
          /\ Len(Grown(_size + Growth)) >= _size + Growth
          /\ Len(Grown(_size + Growth)) \in Nat
      BY <1>1, <3>1, GrownKeeps, LenProperties
    <3> QED BY <1>1, <2>1, <3>1, <3>2
  <2>2. CASE ~(_size + 1 > Len(_element))
    BY <1>1, <1>3, <2>2
  <2> QED BY <2>1, <2>2
<1>5. l \in Seq(Block) /\ Len(l) = _size + 1 /\ l = Elements \o one
  BY <1>3, AppendProperties, AppendIsConcat
<1>6. one \in Seq(Block)
  OBVIOUS
<1>7. \A c \in Block : Uses(l, c) = Uses(Elements, c) + Uses(one, c)
  <2> HIDE DEF l, one
  <2> QED BY <1>3, <1>5, <1>6, UsesOfBoth
<1> HIDE DEF memory, l, one
<1>8. /\ ref_count' \in [Block -> Int]
      /\ \A c \in Block : ref_count'[c] = ref_count[c] - Uses(Elements, c) + Uses(l, c)
  <2>1. /\ ref_count' \in [Block -> Int]
        /\ \A c \in Block : /\ ref_count'[c] = ref_count[c] + Uses(one, c)
                            /\ ref_count[c] \in Nat /\ Uses(one, c) \in Nat
                            /\ Uses(Elements, c) \in Nat
    BY <1>2, <1>6, TakenCounts
  <2> QED BY <1>7, <2>1
<1>9. Len(l) \in 0..MaxSize /\ Len(l) <= Len(memory)
  BY <1>1, <1>2, <1>4, <1>5
<1> QED BY <1>2, <1>4, <1>5, <1>8, <1>9, WrittenStep

LEMMA InsertStep ==
  ASSUME ArraysInv, NEW start \in -1..(MaxSize - 1), NEW s \in Runs,
         ArrayInsert(start, s, TRUE)
  PROVE  ArraysInv'
<1>1. /\ MaxSize \in Nat /\ _size \in 0..MaxSize /\ _element \in Seq(Slots)
      /\ Growth \in Nat
  BY ArraysTypes, ArraysAssumption
<1>2. s \in Seq(Block) /\ Len(s) \in 1..MaxSize
  BY <1>1, RunsAre
<1>3. start < _size
  BY DEF ArrayInsert
<1>4. PICK k \in 0.._size : k = start + 1
  BY <1>1, <1>3
<1> DEFINE front == SubSeq(_element, 1, k)
           back == SubSeq(_element, k + 1, _size)
           both == front \o s
           l == both \o back
           memory == Grown(_size + Len(s) + Growth)
<1>5. /\ _size + Len(s) <= MaxSize /\ array' = "live" /\ _size' = _size + Len(s)
      /\ _element' = Over(SubSeq(_element, 1, start + 1) \o s
                            \o SubSeq(_element, start + 2, _size), memory)
      /\ ref_count' = Taken(s) /\ UNCHANGED <<holds, loop>>
  BY DEF ArrayInsert, ArrayAtHand, InsertAfter, InsertRefs
<1>6. _element' = Over(l, memory)
  <2>1. start + 1 = k /\ start + 2 = k + 1
    BY <1>1, <1>4
  <2> QED BY <1>5, <2>1
<1>7. /\ Elements \in Seq(Block) /\ Len(Elements) = _size /\ _size <= Len(_element)
      /\ Len(_element) \in Nat
  BY ElementsAre
<1>8. /\ front \in Seq(Block) /\ Len(front) = k
      /\ back \in Seq(Block) /\ Len(back) = _size - k
  <2>1. /\ 1 \in 1.._size + 1 /\ k \in 1 - 1.._size
        /\ k + 1 \in 1.._size + 1 /\ _size \in (k + 1) - 1.._size
    BY <1>1, <1>4
  <2>2. /\ front \in Seq(Block) /\ Len(front) = k - (1 - 1)
        /\ back \in Seq(Block) /\ Len(back) = _size - ((k + 1) - 1)
    BY <2>1, PartOfElements
  <2> QED BY <1>1, <1>4, <2>2
<1>9. \A b : Uses(Elements, b) = Uses(front, b) + Uses(back, b)
  BY ElementsParted
<1> HIDE DEF front, back
<1>10. /\ both \in Seq(Block) /\ Len(both) = k + Len(s)
       /\ \A b : Uses(both, b) = Uses(front, b) + Uses(s, b)
  BY <1>2, <1>8, UsesOfBoth, ConcatProperties
<1> HIDE DEF both
<1>11. /\ l \in Seq(Block) /\ Len(l) = k + Len(s) + (_size - k)
       /\ \A b : Uses(l, b) = Uses(both, b) + Uses(back, b)
  <2>1. l \in Seq(Block) /\ Len(l) = Len(both) + Len(back)
    BY <1>8, <1>10, ConcatProperties
  <2>2. \A b : Uses(l, b) = Uses(both, b) + Uses(back, b)
    BY <1>8, <1>10, UsesOfBoth
  <2> HIDE DEF l
  <2> QED BY <1>8, <1>10, <2>1, <2>2
<1> HIDE DEF l
<1>12. Len(l) = _size + Len(s) /\ Len(l) \in 0..MaxSize
  BY <1>1, <1>2, <1>4, <1>5, <1>11
<1>13. memory \in Seq(Slots) /\ Len(l) <= Len(memory)
  <2>1. _size + Len(s) + Growth \in Nat
    BY <1>1, <1>2
  <2>2. memory \in Seq(Slots) /\ Len(memory) >= _size + Len(s) + Growth
        /\ Len(memory) \in Nat
    BY <1>1, <2>1, GrownKeeps, LenProperties
  <2> HIDE DEF memory
  <2> QED BY <1>1, <1>2, <1>12, <2>2
<1> HIDE DEF memory
<1>14. /\ ref_count' \in [Block -> Int]
       /\ \A b \in Block : ref_count'[b] = ref_count[b] - Uses(Elements, b) + Uses(l, b)
  <2>1. \A b \in Block : /\ Uses(front, b) \in Nat /\ Uses(back, b) \in Nat
                         /\ Uses(s, b) \in Nat
    BY <1>2, <1>8, UsesCounted
  <2>2. /\ ref_count' \in [Block -> Int]
        /\ \A b \in Block : /\ ref_count'[b] = ref_count[b] + Uses(s, b)
                            /\ ref_count[b] \in Nat
    BY <1>2, <1>5, TakenCounts
  <2>3. \A b \in Block : Uses(l, b) = Uses(Elements, b) + Uses(s, b)
    BY <1>9, <1>10, <1>11, <2>1
  <2>4. \A b \in Block : Uses(Elements, b) \in Nat
    BY <1>9, <2>1
  <2> QED BY <2>1, <2>2, <2>3, <2>4
<1> QED BY <1>5, <1>6, <1>11, <1>12, <1>13, <1>14, WrittenStep

LEMMA ClearStep ==
  ASSUME ArraysInv, ArrayClear
  PROVE  ArraysInv'
<1>1. /\ MaxSize \in Nat /\ _element \in Seq(Slots) /\ array \in {"none", "live"}
  BY ArraysTypes
<1>2. /\ ref_count' = Given(Elements) /\ _size' = 0 /\ array' = array
      /\ _element' = _element /\ UNCHANGED <<holds, loop>>
  BY DEF ArrayClear
<1>3. Elements \in Seq(Block) /\ Len(_element) \in Nat
  BY ElementsAre
<1>4. /\ ref_count' \in [Block -> Int]
      /\ \A b \in Block : ref_count'[b] = ref_count[b] - Uses(Elements, b) + Uses(<<>>, b)
  BY <1>2, <1>3, TakenCounts, UsesOfNone
<1>5. /\ _size' = Len(<<>>) /\ Len(<<>>) <= Len(_element') /\ _size' \in 0..MaxSize
      /\ \A n \in 1..Len(<<>>) : _element'[n] = <<>>[n]
  BY <1>1, <1>2, <1>3, NoneIsASeq
<1>6. array' \in {"none", "live"} /\ _element' \in Seq(Slots)
  BY <1>1, <1>2
<1> QED BY <1>2, <1>4, <1>5, <1>6, NoneIsASeq, ArrayStep

(* What is behind the removed elements moves up.                           *)
LEMMA RemoveStep ==
  ASSUME ArraysInv, ~Beyond, NEW start \in 0..MaxSize, NEW count \in 0..MaxSize,
         ArrayRemove(start, count)
  PROVE  ArraysInv'
<1>1. /\ MaxSize \in Nat /\ _size \in 0..MaxSize /\ _element \in Seq(Slots)
  BY ArraysTypes
<1>2. start <= _size
  BY DEF ArrayRemove
<1>3. PICK del_size \in Int :
        del_size = IF start + count < _size THEN count ELSE _size - start
  <2>1. count \in Int /\ _size - start \in Int
    BY <1>1
  <2> QED BY <2>1
<1>4. PICK k \in Int : k = start + del_size
  BY <1>1
<1>5. /\ start \in 0.._size /\ k \in start.._size /\ k - start = del_size
      /\ _size - del_size \in 0..MaxSize
  BY <1>1, <1>2, <1>3, <1>4
<1> DEFINE front == SubSeq(_element, 1, start)
           removed == SubSeq(_element, start + 1, k)
           rest == SubSeq(_element, k + 1, _size)
           behind == SubSeq(_element, start + 1, _size)
           l == front \o rest
<1>6. /\ ref_count' = Given(removed) /\ _size' = _size - del_size
      /\ _element' = Over(l, _element) /\ array' = "live"
      /\ UNCHANGED <<holds, loop>>
  BY <1>2, <1>3, <1>4 DEF ArrayRemove, ArrayAtHand
<1>7. /\ Elements \in Seq(Block) /\ Len(Elements) = _size /\ _size <= Len(_element)
      /\ Len(_element) \in Nat
  BY ElementsAre
<1>8. /\ front \in Seq(Block) /\ Len(front) = start
      /\ removed \in Seq(Block)
      /\ rest \in Seq(Block) /\ Len(rest) = _size - k
  <2>1. /\ 1 \in 1.._size + 1 /\ start \in 1 - 1.._size
        /\ start + 1 \in 1.._size + 1 /\ k \in (start + 1) - 1.._size
        /\ k + 1 \in 1.._size + 1 /\ _size \in (k + 1) - 1.._size
    BY <1>1, <1>5
  <2>2. /\ front \in Seq(Block) /\ Len(front) = start - (1 - 1)
        /\ removed \in Seq(Block)
        /\ rest \in Seq(Block) /\ Len(rest) = _size - ((k + 1) - 1)
    BY <2>1, PartOfElements
  <2> QED BY <1>1, <1>5, <2>2
<1>9. \A b : Uses(Elements, b) = Uses(front, b) + Uses(behind, b)
  BY <1>5, ElementsParted
<1>10. removed \o rest = behind
  <2>1. /\ start + 1 \in 1..Len(_element) + 1 /\ k \in (start + 1) - 1..Len(_element)
        /\ _size \in k..Len(_element)
    BY <1>1, <1>5, <1>7
  <2> QED BY <1>1, <2>1, ConcatAdjacentSubSeq
<1> HIDE DEF front, removed, rest, behind
<1>11. \A b : Uses(behind, b) = Uses(removed, b) + Uses(rest, b)
  BY <1>8, <1>10, UsesOfBoth
<1>12. /\ l \in Seq(Block) /\ Len(l) = start + (_size - k)
       /\ \A b : Uses(l, b) = Uses(front, b) + Uses(rest, b)
  BY <1>8, UsesOfBoth, ConcatProperties
<1> HIDE DEF l
<1>13. /\ Len(l) = _size - del_size /\ Len(l) \in 0..MaxSize
       /\ Len(l) <= Len(_element)
  BY <1>1, <1>5, <1>7, <1>12
<1>14. /\ ref_count' \in [Block -> Int]
       /\ \A b \in Block : ref_count'[b] = ref_count[b] - Uses(Elements, b) + Uses(l, b)
  <2>1. \A b \in Block : /\ Uses(front, b) \in Nat /\ Uses(removed, b) \in Nat
                         /\ Uses(rest, b) \in Nat
    BY <1>8, UsesCounted
  <2>2. /\ ref_count' \in [Block -> Int]
        /\ \A b \in Block : /\ ref_count'[b] = ref_count[b] - Uses(removed, b)
                            /\ ref_count[b] \in Nat
    BY <1>6, <1>8, TakenCounts
  <2>3. \A b \in Block : Uses(Elements, b) = Uses(l, b) + Uses(removed, b)
    BY <1>9, <1>11, <1>12, <2>1
  <2>4. \A b \in Block : Uses(l, b) \in Nat
    BY <1>12, <2>1
  <2> QED BY <2>1, <2>2, <2>3, <2>4
<1> QED BY <1>1, <1>6, <1>12, <1>13, <1>14, WrittenStep

LEMMA FreeArrayStep ==
  ASSUME ArraysInv, FreeArray
  PROVE  ArraysInv'
<1>1. MaxSize \in Nat
  BY ArraysTypes
<1>2. /\ ref_count' = Given(Elements) /\ _size' = 0 /\ array' = "none"
      /\ _element' = <<>> /\ UNCHANGED <<holds, loop>>
  BY DEF FreeArray
<1>3. Elements \in Seq(Block)
  BY ElementsAre
<1>4. /\ ref_count' \in [Block -> Int]
      /\ \A b \in Block : ref_count'[b] = ref_count[b] - Uses(Elements, b) + Uses(<<>>, b)
  BY <1>2, <1>3, TakenCounts, UsesOfNone
<1>5. /\ _size' = Len(<<>>) /\ Len(<<>>) <= Len(_element') /\ _size' \in 0..MaxSize
      /\ \A n \in 1..Len(<<>>) : _element'[n] = <<>>[n]
      /\ _element' \in Seq(Slots)
  BY <1>1, <1>2, NoneIsASeq
<1> QED BY <1>2, <1>4, <1>5, NoneIsASeq, ArrayStep

LEMMA ArraysStart ==
  ASSUME ArraysInit
  PROVE  ArraysInv
<1>1. ArraysTypeOK
  BY ArraysAssumption, EmptySeq DEF ArraysInit, ArraysTypeOK, NoLoop
<1>2. ElementsWritten
  BY EmptySeq DEF ArraysInit, ElementsWritten
<1>3. LoopsHold
  BY DEF ArraysInit, LoopsHold, NoLoop
<1>4. \A b \in Block : ThreadRefs(b) = {}
  <2>1. \A b \in Block, t \in Holder : holds[t][b] = 0
    BY DEF ArraysInit
  <2>2. \A b \in Block, t \in Holder : {t} \X (1..holds[t][b]) = {}
    BY <2>1
  <2> QED BY <2>2 DEF ThreadRefs
<1>5. Elements = <<>>
  <2>1. /\ SubSeq(<<>>, 1, 0) \in Seq(Block) /\ Len(SubSeq(<<>>, 1, 0)) = 0
    <3>1. /\ SubSeq(<<>>, 1, 0) \in Seq(Block)
          /\ Len(SubSeq(<<>>, 1, 0)) = IF 1 <= 0 THEN 0 - 1 + 1 ELSE 0
      <4>1. \A n \in 1..0 : <<>>[n] \in Block
        OBVIOUS
      <4> QED BY <4>1, SubSeqProperties
    <3> QED BY <3>1
  <2> QED BY <2>1, EmptySeq DEF ArraysInit, Elements
<1>6. CountsExact
  BY <1>4, <1>5, UsesOfNone, FS_EmptySet DEF ArraysInit, CountsExact, HeldBy
<1>7. \A b \in Block : IsFiniteSet(ThreadRefs(b))
  BY <1>4, FS_EmptySet
<1> QED BY <1>1, <1>2, <1>3, <1>6, <1>7 DEF ArraysInv

LEMMA ArraysKept ==
  ASSUME ~Managed, ~Beyond, ArraysInv, [ArraysNext]_avVars
  PROVE  ArraysInv'
<1>1. CASE UNCHANGED avVars
  <2>1. /\ ref_count' = ref_count /\ holds' = holds /\ loop' = loop
        /\ array' = array /\ _size' = _size /\ _element' = _element
    BY <1>1 DEF avVars
  <2>2. /\ loop' \in [Holder -> [op : {"none", "dup", "free"},
                                 block : Slots, expected : Nat]]
    BY <2>1, ArraysTypes
  <2>3. LoopsHold'
    BY <2>1 DEF ArraysInv, LoopsHold
  <2> QED BY <2>1, <2>2, <2>3, LoopStep
<1>2. ASSUME NEW t \in Holder, NEW b \in Block,
             StrCopy(t, b) \/ \E op \in {"dup", "free"} : Load(t, b, op)
      PROVE  ArraysInv'
  BY <1>2, StrCopyStep, LoadStep
<1>3. ASSUME NEW t \in Holder, CompareExchange(t) PROVE ArraysInv'
  BY <1>3, ExchangeStep
<1>4. ASSUME NEW t \in Holder, NEW u \in Holder, NEW b \in Block,
             t # u, HandOver(t, u, b)
      PROVE  ArraysInv'
  BY <1>4, HandOverStep
<1>5. ASSUME NEW n \in 0..MaxSize, CreateArray(n) \/ ArrayResize(n)
      PROVE  ArraysInv'
  BY <1>5, CreateStep, ResizeStep
<1>6. ASSUME NEW b \in Block, ArrayAppend(b) PROVE ArraysInv'
  BY <1>6, AppendStep
<1>7. ASSUME NEW s \in Runs, ArrayCopy(s) PROVE ArraysInv'
  BY <1>7, CopyStep
<1>8. ASSUME NEW s \in Runs, NEW n \in -1..(MaxSize - 1), NEW raw \in {TRUE, ~Managed},
             ArrayInsert(n, s, raw)
      PROVE  ArraysInv'
  <2>1. raw = TRUE
    OBVIOUS
  <2> QED BY <1>8, <2>1, InsertStep
<1>9. ASSUME NEW n \in 0..MaxSize, NEW count \in 0..MaxSize, ArrayRemove(n, count)
      PROVE  ArraysInv'
  BY <1>9, RemoveStep
<1>10. CASE ArrayClear
  BY <1>10, ClearStep
<1>11. CASE FreeArray
  BY <1>11, FreeArrayStep
<1> QED BY <1>1, <1>2, <1>3, <1>4, <1>5, <1>6, <1>7, <1>8, <1>9, <1>10, <1>11
        DEF ArraysNext

LEMMA ArraysInvariant ==
  ASSUME ~Managed, ~Beyond
  PROVE  ArraysSpec => []ArraysInv
<1>1. ArraysInit => ArraysInv
  BY ArraysStart
<1>2. ArraysInv /\ [ArraysNext]_avVars => ArraysInv'
  BY ArraysKept
<1> QED BY <1>1, <1>2, PTL DEF ArraysSpec

(* FeatureDupValue and FeatureFreeValue under any interleaving, and every  *)
(* function of arrays: the count of a string is exactly the number of      *)
(* references to it.                                                       *)
THEOREM ArraysCountsExact ==
  ASSUME ~Managed, ~Beyond
  PROVE  ArraysSpec => []CountsExact
<1>1. ArraysInv => CountsExact
  BY DEF ArraysInv
<1> QED BY <1>1, ArraysInvariant, PTL

(* An array never holds more than its memory, and a count is never         *)
(* negative.                                                               *)
THEOREM ArraysTypesHold ==
  ASSUME ~Managed, ~Beyond
  PROVE  ArraysSpec => []ArraysTypeOK
<1>1. ArraysInv => ArraysTypeOK
  BY DEF ArraysInv
<1> QED BY <1>1, ArraysInvariant, PTL
=============================================================================
