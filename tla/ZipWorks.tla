------------------------------ MODULE ZipWorks ------------------------------
(***************************************************************************)
(* The system.zip feature (zip_impl.cpp): archives that the thread pool    *)
(* extracts.  A work changes into its directory and writes the entries by  *)
(* relative names, and the current directory is one for the process.       *)
(***************************************************************************)
EXTENDS Naturals, FiniteSets

CONSTANTS
  Owner,   (* The instances of the feature.                               *)
  Work,    (* Calls of decompress, each with a directory of its own.      *)
  Nowhere, (* The current directory at first; no call, no instance.       *)
  Workers, (* The size of the thread pool.                                *)
  Entries, (* Bound: the entries of an archive.                           *)
  Failing, (* TRUE: an archive may be broken.                              *)
  Dirty,   (* TRUE: malloc may return memory with a bit set where          *)
           (* unzip_success_flag is, as no constructor runs.               *)
  Abrupt   (* TRUE: a function may drop the instance that calls it.        *)

ASSUME ZipAssumption ==
  /\ IsFiniteSet(Work) /\ Nowhere \notin Work \cup Owner
  /\ Workers \in Nat \ {0} /\ Entries \in Nat \ {0}
  /\ {Failing, Dirty, Abrupt} \subseteq BOOLEAN

VARIABLES
  page,      (* the instances: "live", "detached"                         *)
  feature,   (* zr->handle: the instance a call is of                     *)
  zr,        (* "none", "queued", "opening", "running", "worked",         *)
             (* "canceled", "freed", "left" with nobody to free it        *)
  zr_arr,    (* ZipContext::zr_arr without its null pointers              *)
  unzip_success_flag,
  extracted, (* entries a work has written                                *)
  astray,    (* works that wrote an entry into another's directory        *)
  cwd,       (* the current directory                                     *)
  answer,    (* what a call was told: "nothing", "success", "fail"        *)
  inFunction (* the call whose function runs, and which                   *)

zwVars == <<page, feature, zr, zr_arr, unzip_success_flag, extracted, astray,
            cwd, answer, inFunction>>

NoFunction == [zr |-> Nowhere, which |-> "none"]

ZipInit ==
  /\ page = [i \in Owner |-> "live"]
  /\ feature = [w \in Work |-> Nowhere]
  /\ zr = [w \in Work |-> "none"]
  /\ zr_arr = [i \in Owner |-> {}]
  /\ unzip_success_flag \in [Work -> IF Dirty THEN BOOLEAN ELSE {FALSE}]
  /\ extracted = [w \in Work |-> 0] /\ astray = {} /\ cwd = Nowhere
  /\ answer = [w \in Work |-> "nothing"] /\ inFunction = NoFunction

-----------------------------------------------------------------------------
(* The loop *)

Decompress(i, w) ==
  /\ page[i] = "live" /\ zr[w] = "none"
  /\ feature' = [feature EXCEPT ![w] = i]
  /\ zr' = [zr EXCEPT ![w] = "queued"]
  /\ zr_arr' = [zr_arr EXCEPT ![i] = @ \cup {w}]
  /\ UNCHANGED <<page, unzip_success_flag, extracted, astray, cwd,
                 answer, inFunction>>

(* A path that is none: the functions are called, nothing is kept.         *)
DecompressRefused(i, w) ==
  /\ page[i] = "live" /\ zr[w] = "none"
  /\ feature' = [feature EXCEPT ![w] = i]
  /\ zr' = [zr EXCEPT ![w] = "freed"]
  /\ answer' = [answer EXCEPT ![w] = "fail"]
  /\ UNCHANGED <<page, zr_arr, unzip_success_flag, extracted, astray, cwd,
                 inFunction>>

(* __extract_zip_after_work_cb, up to the function it calls first.         *)
AfterExtract(w) ==
  /\ inFunction = NoFunction
  /\ \/ /\ zr[w] = "worked" /\ page[feature[w]] = "live"
        /\ inFunction' = [zr |-> w, which |-> "outcome"]
        /\ answer' = [answer EXCEPT ![w] = IF unzip_success_flag[w]
                                         THEN "success" ELSE "fail"]
        /\ UNCHANGED zr
     \/ /\ \/ zr[w] = "canceled"
           \/ zr[w] = "worked" /\ page[feature[w]] = "detached"
        /\ zr' = [zr EXCEPT ![w] = "freed"] /\ UNCHANGED <<inFunction, answer>>
  /\ UNCHANGED <<page, feature, zr_arr, unzip_success_flag, extracted, astray,
                 cwd>>

OutcomeFunctionReturns ==
  /\ inFunction.which = "outcome"
  /\ inFunction' = [inFunction EXCEPT !.which = "complete"]
  /\ UNCHANGED <<page, feature, zr, zr_arr, unzip_success_flag, extracted,
                 astray, cwd, answer>>

(* Mutant: the request is freed and stays in the array. *)
CompleteFunctionReturnsListed ==
  /\ inFunction.which = "complete" /\ inFunction' = NoFunction
  /\ zr' = [zr EXCEPT ![inFunction.zr] = "freed"]
  /\ UNCHANGED <<page, feature, zr_arr, unzip_success_flag, extracted, astray,
                 cwd, answer>>

(* With the context gone the assertion of getZipContext fails; without     *)
(* assertions the request is left.                                         *)
CompleteFunctionReturns ==
  /\ inFunction.which = "complete" /\ inFunction' = NoFunction
  /\ LET w == inFunction.zr
     IN  /\ zr_arr' = [i \in Owner |-> zr_arr[i] \ {w}]
         /\ zr' = [zr EXCEPT ![w] = IF page[feature[w]] = "live"
                                      THEN "freed" ELSE "left"]
  /\ UNCHANGED <<page, feature, unzip_success_flag, extracted, astray, cwd,
                 answer>>

(* detach: only a work no thread has begun can be canceled.                *)
ZipDetach(i) ==
  /\ page[i] = "live"
  /\ inFunction # NoFunction /\ ~Abrupt => feature[inFunction.zr] # i
  /\ page' = [page EXCEPT ![i] = "detached"]
  /\ zr' = [w \in Work |-> IF w \in zr_arr[i] /\ zr[w] = "queued"
                             THEN "canceled" ELSE zr[w]]
  /\ zr_arr' = [zr_arr EXCEPT ![i] = {}]
  /\ UNCHANGED <<feature, unzip_success_flag, extracted, astray, cwd, answer,
                 inFunction>>

-----------------------------------------------------------------------------
(* Threads: _do_extract_zip_work_cb *)

Busy == {w \in Work : zr[w] \in {"opening", "running"}}

StartWork(w) ==
  /\ zr[w] = "queued" /\ Cardinality(Busy) < Workers
  /\ zr' = [zr EXCEPT ![w] = "opening"]
  /\ UNCHANGED <<page, feature, zr_arr, unzip_success_flag, extracted, astray,
                 cwd, answer, inFunction>>

OpenFails(w) ==
  /\ Failing /\ zr[w] = "opening" /\ zr' = [zr EXCEPT ![w] = "worked"]
  /\ UNCHANGED <<page, feature, zr_arr, unzip_success_flag, extracted, astray,
                 cwd, answer, inFunction>>

ChangeDirectory(w) ==
  /\ zr[w] = "opening" /\ zr' = [zr EXCEPT ![w] = "running"] /\ cwd' = w
  /\ UNCHANGED <<page, feature, zr_arr, unzip_success_flag, extracted, astray,
                 answer, inFunction>>

(* do_extract_currentfile *)
Extract(w) ==
  /\ zr[w] = "running" /\ extracted[w] < Entries
  /\ extracted' = [extracted EXCEPT ![w] = @ + 1]
  /\ astray' = IF cwd = w THEN astray ELSE astray \cup {w}
  /\ UNCHANGED <<page, feature, zr, zr_arr, unzip_success_flag, cwd, answer,
                 inFunction>>

(* After the last entry, and after one that failed.                        *)
WorkEnds(w) ==
  /\ zr[w] = "running" /\ (Failing \/ extracted[w] = Entries)
  /\ zr' = [zr EXCEPT ![w] = "worked"]
  /\ unzip_success_flag' = [unzip_success_flag EXCEPT ![w] = TRUE]
  /\ UNCHANGED <<page, feature, zr_arr, extracted, astray, cwd, answer,
                 inFunction>>

(* All instances are gone and the pool is idle. *)
ZipEnd ==
  /\ \A i \in Owner : page[i] = "detached"
  /\ \A w \in Work : zr[w] \in {"none", "freed", "left"}
  /\ UNCHANGED zwVars

ZipNext ==
  \/ \E w \in Work :
       \/ \E i \in Owner : Decompress(i, w) \/ DecompressRefused(i, w)
       \/ AfterExtract(w)
       \/ StartWork(w) \/ OpenFails(w) \/ ChangeDirectory(w)
       \/ Extract(w) \/ WorkEnds(w)
  \/ OutcomeFunctionReturns \/ CompleteFunctionReturns
  \/ \E i \in Owner : ZipDetach(i)
  \/ ZipEnd

ZipSpec == ZipInit /\ [][ZipNext]_zwVars

-----------------------------------------------------------------------------
(* Properties *)

ZipTypeOK ==
  /\ page \in [Owner -> {"live", "detached"}] 
  /\ feature \in [Work -> Owner \cup {Nowhere}]
  /\ zr \in [Work -> {"none", "queued", "opening", "running", "worked",
                      "canceled", "freed", "left"}]
  /\ zr_arr \in [Owner -> SUBSET Work]
  /\ unzip_success_flag \in [Work -> BOOLEAN]
  /\ extracted \in [Work -> 0..Entries] /\ astray \subseteq Work
  /\ cwd \in Work \cup {Nowhere}
  /\ answer \in [Work -> {"nothing", "success", "fail"}]
  /\ inFunction \in [zr : Work \cup {Nowhere},
                     which : {"none", "outcome", "complete"}]

(* An instance lists its own requests, from the call to the end of their   *)
(* work, and nothing else: what detach cancels was not freed, whatever the *)
(* functions of other works do, and no request is left when all is over.   *)
ListedUntilFreed ==
  /\ \A i \in Owner :
       zr_arr[i] = {w \in Work : /\ page[i] = "live" /\ feature[w] = i
                                 /\ zr[w] \in {"queued", "opening", "running",
                                               "worked"}}
  /\ \A w \in Work : zr[w] # "left"

(* What a call is told: "unzip_success_flag is true means zip operate      *)
(* success", that all the entries are where the script wanted them.        *)
SuccessMeansExtracted ==
  \A w \in Work : answer[w] = "success" =>
    extracted[w] = Entries /\ w \notin astray
=============================================================================
