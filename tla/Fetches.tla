------------------------------ MODULE Fetches -------------------------------
(***************************************************************************)
(* system.fetch: one promise for each call, settled when the request of    *)
(* uv_ext calls back; the request has a timeout, so it does.               *)
(*                                                                         *)
(* All instances share the list of the prototype.  A call that is under    *)
(* way holds a duplicated handle of its instance, which so outlives its    *)
(* own detachment; onDestroy deletes the requests that are left.           *)
(***************************************************************************)
EXTENDS Naturals, Sequences

CONSTANTS
  FetchCall, (* calls of fetch *)
  FetchPage  (* instances, in pages of one application *)

ASSUME FetchesAssumption == FetchPage # {}

VARIABLES
  fetching,  (* each call: its page, and how far it is                     *)
  linklist,  (* the calls in the list of the prototype; their order tells  *)
             (* nothing                                                    *)
  promise,   (* history: what its promise was told                         *)
  owns,      (* what each call has allocated and not freed                 *)
  sent,      (* what a request carries: its Content-Type and its body      *)
  detached,  (* the pages whose instance is detached                       *)
  destroyed  (* onDestroy has run                                          *)

fhVars == <<fetching, linklist, promise, owns, sent, detached, destroyed>>

FetchSteps == {"idle", "refused", "running", "ended"}
All == {"content", "fetch", "handle", "url"}

NothingSent == [type |-> "none", body |-> "none"]

FetchesInit ==
  /\ fetching = [c \in FetchCall |-> [page |-> CHOOSE p \in FetchPage : TRUE,
                                      step |-> "idle"]]
  /\ linklist = {}
  /\ promise = [c \in FetchCall |-> <<>>]
  /\ owns = [c \in FetchCall |-> {}]
  /\ sent = [c \in FetchCall |-> NothingSent]
  /\ detached = {}
  /\ destroyed = FALSE

Settles(c, outcome) == promise' = [promise EXCEPT ![c] = Append(@, outcome)]

-----------------------------------------------------------------------------
(* The arguments *)

(* What header and data may be: header "text" is a string, which must be   *)
(* empty, "names" an object of names and values without a Content-Type.    *)
Headers == {"unset", "empty", "text", "names", "object within",
            "application/json", "text/plain"}
Data == {"unset", "null", "text", "buffer", "object", "object within",
         "number"}
Methods == {"unset", "GET", "POST", "none such"}

(* check_header, parse_header_cb *)
CheckHeader(header) == header \notin {"text", "object within"}

(* get_method: GET if none is given. *)
GetMethod(method) == method # "none such"
HasBody(method, data) == method = "POST" /\ data # "unset"

(* get_content_type: of the names of content types that it knows, one is a *)
(* content type; the others are "text", "urlencoded" and "stream".         *)
GetContentType(header) == IF header = "application/json" THEN header ELSE "0"

(* get_pdata_and_content_type: an object becomes pairs, each a number, a   *)
(* text or a boolean, unless the header names another form.                *)
PostData(data, type) ==
  CASE data = "null" -> "empty"
    [] data \in {"text", "buffer"} -> "as given"
    [] data \in {"object", "object within"} /\ type = "application/json" ->
         "json"
    [] data = "object" /\ type # "application/json" -> "pairs"
    [] OTHER -> "refused"

(* What goes out without a body is of text/plain, whatever it was to be;   *)
(* a body goes with the Content-Type of the header, or with none.          *)
Carried(method, header, data) ==
  IF HasBody(method, data)
  THEN [type |-> IF header \in {"application/json", "text/plain"}
                 THEN header ELSE "none",
        body |-> PostData(data, GetContentType(header))]
  ELSE [type |-> "text/plain", body |-> "empty"]

Acceptable(method, header, data) ==
  /\ GetMethod(method) /\ CheckHeader(header)
  /\ Carried(method, header, data).body # "refused"

-----------------------------------------------------------------------------
(* Calls, requests and their callback *)

(* fetch: an argument is refused after the content was made; no memory for *)
(* a path, or no request, after the handle was duplicated.  None of these  *)
(* is freed then.                                                          *)
WrapFetchRefused(c, p) ==
  /\ fetching[c].step = "idle" /\ p \notin detached
  /\ fetching' = [fetching EXCEPT ![c] = [page |-> p, step |-> "refused"]]
  /\ \E left \in {{"content"}, {"content", "fetch", "handle"}} :
       /\ owns' = [owns EXCEPT ![c] = left]
       /\ left = {"content"} =>
            \E method \in Methods, header \in Headers, data \in Data :
              ~Acceptable(method, header, data)
  /\ Settles(c, "reject")
  /\ UNCHANGED <<sent, linklist, detached, destroyed>>

(* fetch: fetch_create, request_create; the list comes last, and the loop  *)
(* does not run in between.                                                *)
WrapFetch(c, p) ==
  /\ fetching[c].step = "idle" /\ p \notin detached
  /\ fetching' = [fetching EXCEPT ![c] = [page |-> p, step |-> "running"]]
  /\ owns' = [owns EXCEPT ![c] = All]
  /\ linklist' = linklist \cup {c}
  /\ \E method \in Methods, header \in Headers, data \in Data :
       /\ Acceptable(method, header, data)
       /\ sent' = [sent EXCEPT ![c] = Carried(method, header, data)]
  /\ UNCHANGED <<promise, detached, destroyed>>

Frees(cs) ==
  /\ owns' = [c \in FetchCall |-> IF c \in cs THEN {} ELSE owns[c]]
  /\ linklist' = linklist \ cs
  /\ fetching' = [c \in FetchCall |-> IF c \in cs
                    THEN [fetching[c] EXCEPT !.step = "ended"]
                    ELSE fetching[c]]
  /\ sent' = [c \in FetchCall |-> IF c \in cs THEN NothingSent ELSE sent[c]]

(* fetch_request_cb: a page that is gone is told nothing.  An answer that  *)
(* cannot be read as the type asked for rejects, an HTTP error does not.   *)
FetchRequestCb(c) ==
  /\ fetching[c].step = "running"
  /\ IF fetching[c].page \in detached THEN UNCHANGED promise
     ELSE \E outcome \in {"resolve", "reject"} : Settles(c, outcome)
  /\ Frees({c})
  /\ UNCHANGED <<detached, destroyed>>

FetchDetached(p) ==
  /\ p \notin detached /\ detached' = detached \cup {p}
  /\ UNCHANGED <<fetching, linklist, promise, owns, sent, destroyed>>

(* Mutant: onDestroy closes the session and leaves the list. *)
FetchDestroyed_ListLeft ==
  /\ detached = FetchPage /\ ~destroyed
  /\ destroyed' = TRUE
  /\ UNCHANGED <<fetching, linklist, owns, sent, promise, detached>>

(* onDestroy, after the last instance. *)
FetchDestroyed ==
  /\ detached = FetchPage /\ ~destroyed
  /\ destroyed' = TRUE
  /\ Frees(linklist)
  /\ UNCHANGED <<promise, detached>>

FetchesNext ==
  \/ \E c \in FetchCall :
       \/ \E p \in FetchPage : WrapFetch(c, p) \/ WrapFetchRefused(c, p)
       \/ FetchRequestCb(c)
  \/ \E p \in FetchPage : FetchDetached(p)
  \/ FetchDestroyed

FetchesSpec ==
  /\ FetchesInit /\ [][FetchesNext]_fhVars
  /\ \A c \in FetchCall : WF_fhVars(FetchRequestCb(c))

-----------------------------------------------------------------------------
(* Properties *)

FetchesTypeOK ==
  /\ fetching \in [FetchCall -> [page : FetchPage, step : FetchSteps]]
  /\ linklist \subseteq FetchCall
  /\ owns \in [FetchCall -> SUBSET All]
  /\ detached \subseteq FetchPage /\ destroyed \in BOOLEAN

(* A promise is settled once, unless its page left first; the list has     *)
(* exactly the requests that may still call back, so that none does after  *)
(* onDestroy; what a request holds goes with it; and its body is JSON only *)
(* under a Content-Type that says so, and pairs only under another.        *)
FetchedOnce ==
  /\ \A c \in FetchCall :
       /\ Len(promise[c]) <= 1
       /\ fetching[c].step = "running" <=> c \in linklist
       /\ fetching[c].step = "running" => ~destroyed /\ owns[c] = All
       /\ fetching[c].step = "ended" => owns[c] = {}
       /\ fetching[c].step = "ended" /\ promise[c] = <<>> =>
            fetching[c].page \in detached
       /\ sent[c].body = "json" => sent[c].type = "application/json"
       /\ sent[c].body = "pairs" => sent[c].type # "application/json"

(* A fetch is settled, or its page leaves.                                 *)
FetchSettles ==
  \A c \in FetchCall :
    fetching[c].step = "running" ~>
      (promise[c] # <<>> \/ fetching[c].page \in detached)

=============================================================================
