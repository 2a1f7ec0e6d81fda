---------------------------- MODULE TopcoderForm ----------------------------
(***************************************************************************)
(* One mounted TopcoderForm (src/integrations/react/TopcoderForm.tsx): the *)
(* load of the schema, the retry key kept for unchanged attempts, and the  *)
(* answers that arrive after the page has moved on to another form.  The   *)
(* forms API on the other side of the network is what Forms promises,      *)
(* reduced to the published version of each form and the stored rows.      *)
(***************************************************************************)
EXTENDS Integers, FiniteSets

CONSTANTS
  FormKeys,     \* forms the page may show
  MemberForms,  \* those with access MEMBER
  Answers,      \* contents the visitor may type in
  Visitors,     \* identities getAccessToken can return, NoToken among them
  NoToken,
  None,
  MaxVersion,   \* bound on published versions per form
  MaxLoads,     \* bound on changes of the form shown
  MaxClicks     \* bound on submissions begun

ASSUME ClientAssumption ==
  /\ MemberForms \subseteq FormKeys
  /\ NoToken \in Visitors
  /\ None \notin FormKeys
  /\ MaxVersion \in Nat \ {0} /\ MaxLoads \in Nat \ {0}
  /\ MaxClicks \in Nat

VARIABLES
  formKey,   \* the formKey property
  loads,     \* runs of the effect; the last one is not aborted
  fetching,  \* the form each run is still waiting for
  schema,    \* form and version displayed
  ui,        \* the component's state
  attempt,   \* content and Idempotency-Key of the last attempt
  busy,
  active,    \* the click whose AbortController is in activeSubmission
  clicks,    \* submissions begun
  post,      \* each of them
  receipt,   \* history: the click whose receipt was shown last
  live,      \* server: the published version of each form, 0 for none
  stored     \* server: submissions saved

page == <<formKey, loads, fetching, schema, ui, attempt, busy, active, receipt>>
posts == <<clicks, post>>
server == <<live, stored>>
vars == <<page, posts, server>>

Loads == 1 .. MaxLoads
Clicks == 1 .. MaxClicks
Schemas == [form : FormKeys, version : 1 .. MaxVersion]
Contents == [form : FormKeys, version : 1 .. MaxVersion, answers : Answers]

(* net is what the network holds of the request: not yet sent, on its way  *)
(* to the server, or the response.                                         *)
Posts ==
  [load : Loads, content : Contents, key : Clicks, who : Visitors,
   step : {"token", "sent", "over"}, aborted : BOOLEAN,
   net : {"unsent", "sent", "receipt", "conflict", "error"}]

Attempts == [body : (1 .. MaxVersion) \X Answers, key : Clicks]

(* The stand-in for "none" differs from every real value.                  *)
ASSUME NoneAssumption == None \notin Schemas \cup Posts \cup Attempts

ClientTypeOK ==
  /\ formKey \in FormKeys
  /\ loads \in Loads
  /\ fetching \in [Loads -> FormKeys \cup {None}]
  /\ schema \in Schemas \cup {None}
  /\ ui \in {"loading", "ready", "pending", "success", "load-error"}
  /\ attempt \in Attempts \cup {None}
  /\ busy \in BOOLEAN
  /\ active \in Clicks \cup {0} /\ clicks \in Clicks \cup {0}
  /\ receipt \in Clicks \cup {0}
  /\ post \in [Clicks -> Posts \cup {None}]
  /\ live \in [FormKeys -> 0 .. MaxVersion]
  /\ stored \subseteq [content : Contents, key : Clicks, who : Visitors]

Init ==
  /\ formKey \in FormKeys
  /\ loads = 1
  /\ fetching = [n \in Loads |-> IF n = 1 THEN formKey ELSE None]
  /\ schema = None /\ ui = "loading"
  /\ attempt = None
  /\ busy = FALSE /\ active = 0
  /\ clicks = 0 /\ post = [n \in Clicks |-> None]
  /\ receipt = 0
  /\ live = [f \in FormKeys |-> 1]
  /\ stored = {}

-----------------------------------------------------------------------------
(* The page shows another form: the effect's cleanup aborts what is under  *)
(* way, and the effect starts over.                                        *)
ShowForm(f) ==
  /\ f # formKey
  /\ loads < MaxLoads
  /\ formKey' = f
  /\ loads' = loads + 1
  /\ fetching' = [fetching EXCEPT ![loads + 1] = f]
  /\ schema' = None /\ ui' = "loading" /\ attempt' = None
  /\ busy' = FALSE /\ active' = 0
  /\ post' = IF active = 0 THEN post
             ELSE [post EXCEPT ![active].aborted = TRUE]
  /\ UNCHANGED <<clicks, receipt, server>>

(* The schema arrives, or anything goes wrong with it; the result of an    *)
(* aborted load is dropped.                                                *)
LoadEnds(n) ==
  /\ fetching[n] # None
  /\ fetching' = [fetching EXCEPT ![n] = None]
  /\ \/ n # loads /\ UNCHANGED <<schema, ui>>
     \/ n = loads /\ ui' = "load-error" /\ UNCHANGED schema
     \/ /\ n = loads
        /\ live[fetching[n]] # 0
        /\ schema' = [form |-> fetching[n], version |-> live[fetching[n]]]
        /\ ui' = "ready"
  /\ UNCHANGED <<formKey, loads, attempt, busy, active, receipt, posts, server>>

(* Faulty: every click gets a key of its own.                              *)
NewKey(body) == clicks + 1

(* Faulty: the last key is kept whatever changed, and the first is missing. *)
LastKey(body) == IF attempt = None THEN 0 ELSE attempt.key

KeyFor(body) ==
  IF attempt # None /\ attempt.body = body THEN attempt.key ELSE clicks + 1

MaySubmit == schema # None /\ ui \in {"ready", "pending"} /\ ~busy

Click(a) ==
  LET content == [form |-> schema.form, version |-> schema.version, answers |-> a]
      body == <<schema.version, a>>
  IN /\ MaySubmit
     /\ clicks < MaxClicks
     /\ clicks' = clicks + 1
     /\ attempt' = [body |-> body, key |-> KeyFor(body)]
     /\ post' = [post EXCEPT ![clicks + 1] =
          [load |-> loads, content |-> content, key |-> KeyFor(body),
           who |-> NoToken, step |-> "token", aborted |-> FALSE,
           net |-> "unsent"]]
     /\ active' = clicks + 1 /\ busy' = TRUE /\ ui' = "pending"
     /\ UNCHANGED <<formKey, loads, fetching, schema, receipt, server>>

(* Faulty: the finally block does not look whose submission is active.     *)
FinallyAlways(n) == busy' = FALSE /\ active' = 0

(* The finally block.                                                      *)
Finally(n) ==
  IF active = n THEN busy' = FALSE /\ active' = 0 ELSE UNCHANGED <<busy, active>>

(* Faulty: the abort signal is not looked at after an await.               *)
NeverDropped(n) == FALSE

Dropped(n) == post[n].aborted

(* Submission n is over and shows s, unless the page has moved on.         *)
Ends(n, s) ==
  /\ post' = [post EXCEPT ![n].step = "over"]
  /\ ui' = IF Dropped(n) THEN ui ELSE s
  /\ Finally(n)
  /\ UNCHANGED <<formKey, loads, fetching, schema, clicks, server>>

(* Faulty: the visitor is asked to sign in while the controls stay off.    *)
StaysPending == "pending"

AskAgain == "ready"

(* getAccessToken resolves, or fails, or shows that nobody is signed in.   *)
TokenArrives(n, who) ==
  /\ post[n] # None
  /\ post[n].step = "token"
  /\ \/ /\ Dropped(n) \/ (post[n].content.form \in MemberForms /\ who = NoToken)
        /\ Ends(n, AskAgain)
        /\ UNCHANGED <<attempt, receipt>>
     \/ /\ ~Dropped(n)
        /\ post[n].content.form \in MemberForms => who # NoToken
        /\ post' = [post EXCEPT ![n].step = "sent", ![n].net = "sent", ![n].who = who]
        /\ UNCHANGED <<page, clicks, server>>

TokenFails(n) ==
  /\ post[n] # None
  /\ post[n].step = "token"
  /\ Ends(n, AskAgain)
  /\ UNCHANGED <<attempt, receipt>>

(* The response other than a receipt, a timeout or an abort.               *)
Refused(n) ==
  /\ post[n] # None
  /\ post[n].step = "sent"
  /\ post[n].net # "receipt" \/ Dropped(n)
  /\ Ends(n, AskAgain)
  /\ UNCHANGED <<attempt, receipt>>

(* A receipt can also be lost with its response.                           *)
ReceiptLost(n) ==
  /\ post[n] # None
  /\ post[n].step = "sent" /\ post[n].net = "receipt"
  /\ Ends(n, AskAgain)
  /\ UNCHANGED <<attempt, receipt>>

ReceiptArrives(n) ==
  /\ post[n] # None
  /\ post[n].step = "sent" /\ post[n].net = "receipt"
  /\ ~Dropped(n)
  /\ Ends(n, "success")
  /\ attempt' = None
  /\ receipt' = n

-----------------------------------------------------------------------------
(* The API handles a request, even when nobody waits for it any more.      *)
(* "error" is a 5xx or 429, with the submission saved (503) or not.        *)
Saved(p) ==
  {s \in stored : s.content.form = p.content.form
                  /\ s.content.version = p.content.version /\ s.key = p.key}

ServerHandles(n) ==
  /\ post[n] # None
  /\ post[n].net = "sent"
  /\ LET p == post[n]
         row == [content |-> p.content, key |-> p.key, who |-> p.who]
         open == p.content.version = live[p.content.form]
         Reply(r) == post' = [post EXCEPT ![n].net = r]
     IN \/ Reply("error") /\ UNCHANGED stored
        \/ /\ Saved(p) = {} /\ open
           /\ stored' = stored \cup {row}
           /\ Reply("receipt") \/ Reply("error")
        \/ /\ Saved(p) = {row} /\ Reply("receipt") /\ UNCHANGED stored
        \/ /\ Saved(p) # {row}
           /\ Saved(p) # {} \/ ~open
           /\ Reply("conflict") /\ UNCHANGED stored
  /\ UNCHANGED <<page, clicks, live>>

(* A newer version is published.                                           *)
PublishNext(f) ==
  /\ live[f] < MaxVersion
  /\ live' = [live EXCEPT ![f] = @ + 1]
  /\ UNCHANGED <<page, posts, stored>>

Next ==
  \/ \E f \in FormKeys : ShowForm(f)
  \/ \E n \in Loads : LoadEnds(n)
  \/ \E a \in Answers : Click(a)
  \/ \E n \in Clicks, who \in Visitors : TokenArrives(n, who)
  \/ \E n \in Clicks : TokenFails(n)
  \/ \E n \in Clicks : Refused(n)
  \/ \E n \in Clicks : ReceiptLost(n)
  \/ \E n \in Clicks : ReceiptArrives(n)
  \/ \E n \in Clicks : ServerHandles(n)
  \/ \E f \in FormKeys : PublishNext(f)

Spec == Init /\ [][Next]_vars

(* fetch settles: both have a 20 s timeout.  The token provider belongs to *)
(* the host page; the component has no timeout of its own for it.          *)
FairSpec ==
  /\ Spec
  /\ \A n \in Loads : WF_vars(LoadEnds(n))
  /\ \A n \in Clicks :
       /\ WF_vars(TokenFails(n) \/ \E who \in Visitors : TokenArrives(n, who))
       /\ WF_vars(Refused(n) \/ ReceiptLost(n) \/ ReceiptArrives(n))

-----------------------------------------------------------------------------
(* "an old receipt cannot complete a new form" (TopcoderForm.tsx line 24): *)
(* success is shown for a submission of the very form, version and content *)
(* on display, and the server has stored it.                               *)
SuccessIsReal ==
  ui = "success" =>
    /\ schema # None /\ schema.form = formKey
    /\ receipt # 0
    /\ LET p == post[receipt]
       IN /\ p.content.form = formKey /\ p.content.version = schema.version
          /\ \E s \in stored : s.content = p.content /\ s.key = p.key

(* Clicks m to n ask for the same thing: nothing edited, nothing reloaded, *)
(* no receipt shown.                                                       *)
SameWish(m, n) ==
  /\ n <= clicks
  /\ \A i \in m .. n : /\ post[i].load = post[n].load
                       /\ post[i].content = post[n].content
  /\ receipt \notin m .. n - 1

(* However often a visitor repeats an unchanged attempt after failures,    *)
(* lost responses and late arrivals, at most one submission is stored; and *)
(* no attempt goes out under the key of other content, which the server    *)
(* would refuse as a conflict.                                             *)
RetriesStoreOnce ==
  /\ \A m, n \in Clicks :
       m <= n /\ SameWish(m, n) =>
         Cardinality({s \in stored :
           \E i \in m .. n : s.key = post[i].key /\ s.content = post[i].content}) <= 1
  /\ \A m, n \in Clicks :
       m <= clicks /\ n <= clicks /\ post[m].key = post[n].key =>
         post[m].content = post[n].content

(* Never two submissions under way that could still change the page, and   *)
(* the controls are off exactly while there is one.                        *)
OneSubmissionAtATime ==
  LET underWay == {n \in Clicks : post[n] # None /\ post[n].step # "over"
                                  /\ ~post[n].aborted}
  IN /\ Cardinality(underWay) <= 1
     /\ ui = "pending" <=> underWay # {}
     /\ busy <=> underWay # {}

(* The visitor gets the controls back, or the receipt: the page is never   *)
(* left loading or pending for ever.                                       *)
PageSettles == ui \in {"loading", "pending"} ~> ui \notin {"loading", "pending"}
=============================================================================
