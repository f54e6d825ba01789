------------------------------ MODULE Downloads ------------------------------
(***************************************************************************)
(* system.request: the downloads of one RequestContext, and the download   *)
(* with share = false ("unshared" here) that the next one of these         *)
(* cancels.                                                                *)
(*                                                                         *)
(* A download ends when the network says so, or by __request_cancel; both  *)
(* run __request_cb, which calls functions of the script before it frees   *)
(* the ReqInfo.  These may start downloads, and so cancel, in their turn:  *)
(* stack holds the endings that are under way.  Answers of                 *)
(* onDownloadComplete and the results kept for it are left out.            *)
(***************************************************************************)
EXTENDS Naturals, Sequences, FiniteSets

CONSTANTS
  Download,
  Page,     (* Instances of the feature that share the prototype.          *)
  NoInfo,   (* A null ReqInfo.                                             *)
  Abandon   (* TRUE: an unshared download may be refused, or its instance  *)
            (* be detached before it ends.                                 *)

ASSUME DownloadsAssumption ==
  NoInfo \notin Download \cup Page /\ Abandon \in BOOLEAN

VARIABLES
  dlContext, (* the RequestContext: "live", "destroyed"                    *)
  left,      (* instances that are detached                                *)
  owner_of,  (* feature_handle of each ReqInfo, NoInfo before it exists    *)
  unshared,  (* ReqInfos with share = false                                *)
  linklist,  (* the context's list of downloads                            *)
  shareInfo,
  stack,     (* __request_cb on the stack: the ReqInfo, and the download   *)
             (* that cancels it, or NoInfo                                 *)
  freedInfo  (* history: ReqInfos freed                                    *)

dlVars == <<dlContext, left, owner_of, unshared, linklist, shareInfo, stack,
            freedInfo>>

DownloadsInit ==
  /\ dlContext = "live" /\ left = {}
  /\ owner_of = [d \in Download |-> NoInfo]
  /\ unshared = {} /\ linklist = {} /\ shareInfo = NoInfo
  /\ stack = <<>> /\ freedInfo = {}

Ending == {stack[k].ending : k \in DOMAIN stack}

(* The rest of wrap_download: it is committed to the network, or refused   *)
(* for its address or for lack of space.                                   *)
Commit(d, rest) ==
  \/ /\ linklist' = rest \cup {d}
     /\ UNCHANGED freedInfo
  \/ /\ Abandon \/ d \notin unshared'
     /\ linklist' = rest
     /\ freedInfo' = freedInfo \cup {d}

(* A download that replaces no other one. *)
StartDownload(d, p, share) ==
  /\ dlContext = "live" /\ owner_of[d] = NoInfo /\ p \notin left
  /\ share \/ shareInfo = NoInfo
  /\ owner_of' = [owner_of EXCEPT ![d] = p]
  /\ unshared' = IF share THEN unshared ELSE unshared \cup {d}
  /\ shareInfo' = IF share THEN shareInfo ELSE d
  /\ Commit(d, linklist)
  /\ UNCHANGED <<dlContext, left, stack>>

(* Mutant: shareInfo is not reset. *)
RequestCbKeepingShare(d, next) ==
  /\ stack' = <<[ending |-> d, next |-> next]>> \o stack
  /\ UNCHANGED shareInfo

(* __request_cb of a live instance: functions of the script are called.    *)
RequestCb(d, next) ==
  /\ stack' = <<[ending |-> d, next |-> next]>> \o stack
  /\ shareInfo' = IF d \in unshared THEN NoInfo ELSE shareInfo

(* An unshared download first cancels the one before; if the instance of   *)
(* that one is detached no function is called.                             *)
ReplaceDownload(d, p) ==
  /\ dlContext = "live" /\ owner_of[d] = NoInfo /\ p \notin left
  /\ shareInfo # NoInfo
  /\ owner_of' = [owner_of EXCEPT ![d] = p]
  /\ unshared' = unshared \cup {d}
  /\ IF owner_of[shareInfo] \in left
       THEN /\ shareInfo' = d
            /\ \/ /\ linklist' = (linklist \ {shareInfo}) \cup {d}
                  /\ freedInfo' = freedInfo \cup {shareInfo}
               \/ /\ Abandon
                  /\ linklist' = linklist \ {shareInfo}
                  /\ freedInfo' = freedInfo \cup {shareInfo, d}
            /\ UNCHANGED stack
       ELSE /\ RequestCb(shareInfo, d)
            /\ UNCHANGED <<linklist, freedInfo>>
  /\ UNCHANGED <<dlContext, left>>

(* The network ends a download, from the loop. *)
DownloadEnds(d) ==
  /\ dlContext = "live" /\ d \in linklist /\ stack = <<>>
  /\ IF owner_of[d] \in left
       THEN /\ linklist' = linklist \ {d} /\ freedInfo' = freedInfo \cup {d}
            /\ UNCHANGED <<shareInfo, stack>>
       ELSE /\ RequestCb(d, NoInfo)
            /\ UNCHANGED <<linklist, freedInfo>>
  /\ UNCHANGED <<dlContext, left, owner_of, unshared>>

(* The functions have returned: the ReqInfo is freed, and the download     *)
(* that cancelled it goes on.                                              *)
RequestCbReturns ==
  LET f == stack[1] IN
  /\ stack # <<>>
  /\ stack' = Tail(stack)
  /\ IF f.next = NoInfo
       THEN /\ linklist' = linklist \ {f.ending}
            /\ freedInfo' = freedInfo \cup {f.ending}
            /\ UNCHANGED shareInfo
       ELSE /\ shareInfo' = f.next
            /\ \/ /\ linklist' = (linklist \ {f.ending}) \cup {f.next}
                  /\ freedInfo' = freedInfo \cup {f.ending}
               \/ /\ Abandon
                  /\ linklist' = linklist \ {f.ending}
                  /\ freedInfo' = freedInfo \cup {f.ending, f.next}
  /\ UNCHANGED <<dlContext, left, owner_of, unshared>>

(* onDetached cancels nothing: isGlobal is always true.                    *)
PageDetached(p) ==
  /\ p \notin left
  /\ Abandon \/ \A d \in unshared : owner_of[d] = p => d \in freedInfo
  /\ left' = left \cup {p}
  /\ UNCHANGED <<dlContext, owner_of, unshared, linklist, shareInfo, stack,
                 freedInfo>>

(* onDestroy deletes the requests and frees everything.                    *)
DownloadsDestroy ==
  /\ dlContext = "live" /\ stack = <<>> /\ left = Page
  /\ dlContext' = "destroyed"
  /\ freedInfo' = freedInfo \cup linklist /\ linklist' = {}
  /\ shareInfo' = NoInfo
  /\ UNCHANGED <<left, owner_of, unshared, stack>>

DownloadsFinished == dlContext = "destroyed" /\ UNCHANGED dlVars

DownloadsNext ==
  \/ \E d \in Download, p \in Page :
       \/ \E share \in BOOLEAN : StartDownload(d, p, share)
       \/ ReplaceDownload(d, p)
  \/ \E d \in Download : DownloadEnds(d)
  \/ RequestCbReturns
  \/ \E p \in Page : PageDetached(p)
  \/ DownloadsDestroy \/ DownloadsFinished

DownloadsSpec == DownloadsInit /\ [][DownloadsNext]_dlVars

-----------------------------------------------------------------------------
(* Properties *)

DownloadsTypeOK ==
  /\ dlContext \in {"live", "destroyed"} /\ left \subseteq Page
  /\ owner_of \in [Download -> Page \cup {NoInfo}]
  /\ unshared \subseteq Download /\ linklist \subseteq Download
  /\ shareInfo \in Download \cup {NoInfo} /\ freedInfo \subseteq Download
  /\ \A k \in DOMAIN stack :
       stack[k].ending \in Download /\ stack[k].next \in Download \cup {NoInfo}

(* What the next unshared download cancels is one that still runs: never a *)
(* ReqInfo that was freed, nor one whose __request_cb is on the stack and  *)
(* would be run, and freed, again; however the functions of the script     *)
(* that endings call start further downloads.                              *)
SharedInfoAlive == shareInfo # NoInfo => shareInfo \in linklist \ Ending

=============================================================================
