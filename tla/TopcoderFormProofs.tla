-------------------------- MODULE TopcoderFormProofs --------------------------
(* One mounted TopcoderForm: however loads, clicks, tokens and responses   *)
(* interleave, success is only shown for what the server has stored, one   *)
(* submission at a time can change the page, and the attempts to submit    *)
(* unchanged content are stored once.                                      *)
EXTENDS TopcoderForm, FiniteSetTheorems, TLAPS

-----------------------------------------------------------------------------
(* The inductive invariant.  The clicks made so far, and the load of each: *)
ClicksMade ==
  /\ receipt <= clicks
  /\ \A n \in Clicks :
       /\ n <= clicks <=> post[n] # None
       /\ n <= clicks => post[n].load <= loads

(* What is displayed belongs to the form shown; while its schema is still  *)
(* being fetched there is nothing to submit.                               *)
PageShown ==
  /\ schema # None => schema.form = formKey
  /\ ui \in {"ready", "pending", "success"} => schema # None
  /\ fetching[loads] # None =>
       fetching[loads] = formKey /\ schema = None /\ ui = "loading"

UnderWay(n) == post[n].step # "over" /\ ~post[n].aborted

(* The one submission that may still change the page is the active one,    *)
(* and it was made on this page.                                           *)
OnlyActive ==
  /\ busy <=> active # 0
  /\ ui = "pending" <=> active # 0
  /\ \A n \in Clicks : n <= clicks => (UnderWay(n) <=> n = active)
  /\ active # 0 =>
       /\ active <= clicks
       /\ post[active].content.form = schema.form
       /\ post[active].content.version = schema.version

(* A receipt on its way, or shown, stands for a stored submission.         *)
ReceiptsStored ==
  \A n \in Clicks : n <= clicks /\ post[n].net = "receipt" =>
    \E s \in stored : s.content = post[n].content /\ s.key = post[n].key

(* The unique index on version and key.                                    *)
StoredOnce ==
  \A s, t \in stored :
    s.content.form = t.content.form /\ s.content.version = t.content.version
      /\ s.key = t.key => s = t

(* Until its receipt is shown or the page moves on, the last click is the  *)
(* remembered attempt ...                                                  *)
AttemptIsLast ==
  clicks # 0 /\ post[clicks].load = loads /\ ui # "success" =>
    /\ attempt # None
    /\ attempt.body =
         <<post[clicks].content.version, post[clicks].content.answers>>
    /\ attempt.key = post[clicks].key

(* ... so a row of clicks on the same content has one key.                 *)
OneKey ==
  \A m, n \in Clicks :
    /\ m <= n /\ n <= clicks
    /\ \A i \in m .. n : /\ post[i].load = post[n].load
                         /\ post[i].content = post[n].content
    => post[m].key = post[n].key

(* A key, also the remembered one, belongs to one content of one form, and *)
(* the key the next click would make up is new.                            *)
KeysOfContents ==
  /\ \A m, n \in Clicks :
       m <= clicks /\ n <= clicks /\ post[m].key = post[n].key =>
         post[m].content = post[n].content
  /\ \A n \in Clicks : n <= clicks => post[n].key <= clicks
  /\ attempt # None =>
       /\ attempt.key <= clicks
       /\ \A n \in Clicks : n <= clicks /\ post[n].key = attempt.key =>
            /\ post[n].content.form = formKey
            /\ attempt.body = <<post[n].content.version, post[n].content.answers>>

ClientInv ==
  /\ ClientTypeOK /\ ClicksMade /\ PageShown /\ OnlyActive
  /\ ReceiptsStored /\ StoredOnce /\ AttemptIsLast /\ OneKey /\ KeysOfContents
  /\ SuccessIsReal

-----------------------------------------------------------------------------
(* Every step but a click leaves the clicks, and the content, key and load *)
(* of each, as they are.                                                   *)
PostsKept ==
  /\ clicks' = clicks
  /\ \A n \in Clicks :
       /\ post'[n] = None <=> post[n] = None
       /\ post[n] # None =>
            /\ post'[n].load = post[n].load
            /\ post'[n].content = post[n].content
            /\ post'[n].key = post[n].key

LEMMA PostFields ==
  ASSUME ClientTypeOK, NEW n \in Clicks, post[n] # None
  PROVE  /\ post[n] \in Posts
         /\ post[n].load \in Loads /\ post[n].content \in Contents
         /\ post[n].key \in Clicks /\ post[n].who \in Visitors
  BY DEF ClientTypeOK, Posts

LEMMA LastClick ==
  ASSUME ClientTypeOK, ClicksMade, clicks # 0
  PROVE  clicks \in Clicks /\ post[clicks] # None
<1>1. clicks \in Clicks /\ clicks <= clicks
  BY ClientAssumption DEF ClientTypeOK, Clicks
<1>2. QED
  BY <1>1 DEF ClicksMade

(* A submission changes in one of these ways.                              *)
LEMMA PostChanges ==
  ASSUME NEW p \in Posts
  PROVE  /\ [p EXCEPT !.step = "over"] \in Posts
         /\ [p EXCEPT !.step = "over"].step = "over"
         /\ [p EXCEPT !.aborted = TRUE] \in Posts
         /\ [p EXCEPT !.aborted = TRUE].aborted
         /\ \A r \in {"receipt", "conflict", "error"} :
              /\ [p EXCEPT !.net = r] \in Posts
              /\ [p EXCEPT !.net = r].net = r
         /\ \A who \in Visitors :
              [p EXCEPT !.step = "sent", !.net = "sent", !.who = who] \in Posts
  BY DEF Posts

LEMMA OneChanges ==
  ASSUME ClientTypeOK, NEW n \in Clicks, post[n] # None, NEW p \in Posts,
         post' = [post EXCEPT ![n] = p],
         p.load = post[n].load, p.content = post[n].content,
         p.key = post[n].key, clicks' = clicks
  PROVE  /\ PostsKept /\ post' \in [Clicks -> Posts \cup {None}]
         /\ post'[n] = p
         /\ \A m \in Clicks \ {n} : post'[m] = post[m]
  BY NoneAssumption DEF ClientTypeOK, PostsKept

(* What then follows without regard to the step.                           *)
LEMMA ClicksStay ==
  ASSUME ClientInv, PostsKept, loads' \in Nat, loads <= loads',
         receipt' = receipt \/ receipt' <= clicks
  PROVE  ClicksMade' /\ OneKey'
<1>1. ClientTypeOK /\ ClicksMade /\ OneKey
  BY DEF ClientInv
<1>2. \A n \in Clicks : post[n] # None => post[n].load \in Nat
  BY <1>1, PostFields DEF Loads
<1>3. loads \in Nat /\ clicks \in Nat
  BY <1>1, ClientAssumption DEF ClientTypeOK, Loads, Clicks
<1>4. ClicksMade'
  BY <1>1, <1>2, <1>3 DEF ClicksMade, PostsKept
<1>5. OneKey'
  <2> SUFFICES ASSUME NEW m \in Clicks, NEW n \in Clicks,
                      m <= n, n <= clicks,
                      \A i \in m .. n :
                        /\ post'[i].load = post'[n].load
                        /\ post'[i].content = post'[n].content
               PROVE  post'[m].key = post'[n].key
    BY DEF OneKey, PostsKept
  <2>1. \A i \in m .. n : i \in Clicks /\ post[i] # None
    BY <1>1, <1>3, ClientAssumption DEF ClicksMade, Clicks
  <2>2. \A i \in m .. n : /\ post'[i].load = post[i].load
                          /\ post'[i].content = post[i].content
                          /\ post'[i].key = post[i].key
    BY <2>1 DEF PostsKept
  <2>3. m \in m .. n /\ n \in m .. n
    BY DEF Clicks
  <2>4. post[m].key = post[n].key
    BY <1>1, <2>2, <2>3 DEF OneKey
  <2>5. QED
    BY <2>2, <2>3, <2>4
<1>6. QED
  BY <1>4, <1>5

LEMMA KeysStay ==
  ASSUME ClientInv, PostsKept, attempt' = None \/ UNCHANGED <<attempt, formKey>>
  PROVE  KeysOfContents'
<1>1. \A n \in Clicks : n <= clicks =>
        /\ post'[n].content = post[n].content
        /\ post'[n].key = post[n].key
  BY DEF ClientInv, ClicksMade, PostsKept
<1>2. KeysOfContents /\ clicks' = clicks
  BY DEF ClientInv, PostsKept
<1>3. QED
  BY <1>1, <1>2 DEF KeysOfContents

LEMMA ReceiptsStay ==
  ASSUME ClientInv, PostsKept, stored \subseteq stored',
         \A n \in Clicks : n <= clicks /\ post'[n].net = "receipt" =>
           \/ post[n].net = "receipt"
           \/ \E s \in stored' :
                s.content = post[n].content /\ s.key = post[n].key
  PROVE  ReceiptsStored'
  BY DEF ClientInv, ReceiptsStored, PostsKept, ClicksMade

(* Success stays real while the page, its receipt and the rows stay.       *)
LEMMA SuccessStays ==
  ASSUME ClientInv, PostsKept, stored \subseteq stored',
         UNCHANGED <<formKey, schema, receipt>>, ui' = "success" => ui = ui'
  PROVE  SuccessIsReal'
<1>1. CASE ui' # "success"
  BY <1>1 DEF SuccessIsReal
<1>2. CASE ui' = "success"
  <2>1. SuccessIsReal /\ ui = "success" /\ receipt \in Clicks
    BY <1>2 DEF ClientInv, SuccessIsReal, ClientTypeOK
  <2>2. post[receipt] # None
    BY <2>1 DEF ClientInv, ClicksMade
  <2>3. QED
    BY <2>1, <2>2 DEF SuccessIsReal, PostsKept
<1>3. QED
  BY <1>1, <1>2
-----------------------------------------------------------------------------
(* A submission that is over gives the page back, if it was the active     *)
(* one; any other has been aborted, and changes nothing on display.        *)
LEMMA EndsEffect ==
  ASSUME ClientInv, NEW n \in Clicks, post[n] # None, post[n].step # "over",
         NEW s, Ends(n, s)
  PROVE  /\ PostsKept /\ post' \in [Clicks -> Posts \cup {None}]
         /\ post'[n].step = "over" /\ post'[n].net = post[n].net
         /\ \A m \in Clicks \ {n} : post'[m] = post[m]
         /\ UNCHANGED <<formKey, loads, fetching, schema, clicks, live, stored>>
         /\ ~Dropped(n) <=> n = active
         /\ n = active => ui' = s /\ busy' = FALSE /\ active' = 0
         /\ n # active => UNCHANGED <<ui, busy, active>>
<1> DEFINE p == [post[n] EXCEPT !.step = "over"]
<1>1. ClientTypeOK /\ n <= clicks /\ post[n] \in Posts
  BY PostFields DEF ClientInv, ClicksMade
<1>2. /\ p \in Posts /\ p.step = "over"
      /\ p.load = post[n].load /\ p.content = post[n].content
      /\ p.key = post[n].key /\ p.net = post[n].net
  BY <1>1, PostChanges DEF Posts
<1>3. post' = [post EXCEPT ![n] = p] /\ clicks' = clicks
  BY DEF Ends
<1> HIDE DEF p
<1>4. /\ PostsKept /\ post' \in [Clicks -> Posts \cup {None}]
      /\ post'[n] = p /\ \A m \in Clicks \ {n} : post'[m] = post[m]
  BY <1>1, <1>2, <1>3, OneChanges
<1>5. ~Dropped(n) <=> n = active
  BY <1>1 DEF ClientInv, OnlyActive, UnderWay, Dropped
<1>6. /\ n = active => ui' = s /\ busy' = FALSE /\ active' = 0
      /\ n # active => UNCHANGED <<ui, busy, active>>
  BY <1>5 DEF Ends, Finally
<1>7. QED
  BY <1>2, <1>4, <1>5, <1>6 DEF Ends, server

LEMMA EndsShown ==
  ASSUME ClientInv, NEW n \in Clicks, post[n] # None, post[n].step # "over",
         NEW s \in {"ready", "success"}, Ends(n, s), attempt' \in Attempts \cup {None},
         receipt' \in {receipt, n}
  PROVE  /\ ClientTypeOK' /\ ClicksMade' /\ PageShown' /\ OnlyActive'
         /\ ReceiptsStored' /\ StoredOnce' /\ OneKey'
<1>1. ClientTypeOK /\ n <= clicks
  BY DEF ClientInv, ClicksMade
<1>2. /\ PostsKept /\ post' \in [Clicks -> Posts \cup {None}]
      /\ post'[n].step = "over" /\ post'[n].net = post[n].net
      /\ \A m \in Clicks \ {n} : post'[m] = post[m]
      /\ UNCHANGED <<formKey, loads, fetching, schema, clicks, live, stored>>
      /\ n = active => ui' = s /\ busy' = FALSE /\ active' = 0
      /\ n # active => UNCHANGED <<ui, busy, active>>
  BY EndsEffect
<1>3. ClientTypeOK'
  BY <1>1, <1>2 DEF ClientTypeOK
<1>4. ClicksMade' /\ OneKey'
  <2>1. receipt' = receipt \/ receipt' <= clicks
    BY <1>1
  <2>2. loads' \in Nat /\ loads <= loads'
    BY <1>1, <1>2 DEF ClientTypeOK, Loads
  <2>3. QED
    BY <1>2, <2>1, <2>2, ClicksStay
<1>5. PageShown'
  <2>1. n = active => ui = "pending"
    BY DEF ClientInv, OnlyActive, Clicks
  <2>2. QED
    BY <1>2, <2>1 DEF ClientInv, PageShown
<1>6. OnlyActive'
  <2>1. \A m \in Clicks \ {n} : UnderWay(m)' <=> UnderWay(m)
    BY <1>2 DEF UnderWay
  <2>2. ~UnderWay(n)'
    BY <1>2 DEF UnderWay
  <2>3. \A m \in Clicks : m # 0
    BY DEF Clicks
  <2>4. CASE n = active
    BY <1>1, <1>2, <2>1, <2>2, <2>3, <2>4 DEF ClientInv, OnlyActive
  <2>5. CASE n # active
    <3>1. active # 0 => /\ active \in Clicks \ {n}
                        /\ post'[active].content = post[active].content
      BY <1>1, <1>2, <2>5 DEF ClientTypeOK
    <3>2. QED
      BY <1>1, <1>2, <2>1, <2>2, <2>5, <3>1 DEF ClientInv, OnlyActive
  <2>6. QED
    BY <2>4, <2>5
<1>7. ReceiptsStored'
  BY <1>2, ReceiptsStay
<1>8. StoredOnce'
  BY <1>2 DEF ClientInv, StoredOnce
<1>9. QED
  BY <1>3, <1>4, <1>5, <1>6, <1>7, <1>8

(* It fails, is refused, or has been aborted: the attempt is remembered.   *)
LEMMA FailureStep ==
  ASSUME ClientInv, NEW n \in Clicks, post[n] # None, post[n].step # "over",
         Ends(n, AskAgain), UNCHANGED <<attempt, receipt>>
  PROVE  ClientInv'
<1>1. ClientTypeOK /\ AskAgain = "ready"
  BY DEF ClientInv, AskAgain
<1>2. /\ ClientTypeOK' /\ ClicksMade' /\ PageShown' /\ OnlyActive'
      /\ ReceiptsStored' /\ StoredOnce' /\ OneKey'
  BY <1>1, EndsShown DEF ClientTypeOK
<1>3. /\ PostsKept
      /\ UNCHANGED <<formKey, loads, schema, clicks, stored>>
      /\ n = active => ui' = "ready"
      /\ n # active => ui' = ui
  BY <1>1, EndsEffect
<1>4. AttemptIsLast'
  <2>1. ui' # "success" => ui # "success"
    BY <1>3 DEF ClientInv, OnlyActive, Clicks
  <2>2. clicks # 0 => clicks \in Clicks /\ post[clicks] # None
    BY <1>1, LastClick DEF ClientInv
  <2>3. QED
    BY <1>3, <2>1, <2>2 DEF ClientInv, AttemptIsLast, PostsKept
<1>5. SuccessIsReal' /\ KeysOfContents'
  BY <1>3, SuccessStays, KeysStay
<1>6. QED
  BY <1>2, <1>4, <1>5 DEF ClientInv

(* The receipt of the active submission is shown.                          *)
LEMMA ReceiptStep ==
  ASSUME ClientInv, NEW n \in Clicks, ReceiptArrives(n) PROVE ClientInv'
<1>1. /\ post[n] # None /\ post[n].step # "over" /\ post[n].net = "receipt"
      /\ ~Dropped(n) /\ Ends(n, "success") /\ attempt' = None /\ receipt' = n
  BY DEF ReceiptArrives
<1>2. /\ ClientTypeOK' /\ ClicksMade' /\ PageShown' /\ OnlyActive'
      /\ ReceiptsStored' /\ StoredOnce' /\ OneKey'
  BY <1>1, EndsShown
<1>3. /\ PostsKept
      /\ UNCHANGED <<formKey, loads, schema, clicks, stored>>
      /\ n = active /\ ui' = "success"
  BY <1>1, EndsEffect
<1>4. AttemptIsLast'
  BY <1>3 DEF AttemptIsLast
<1>5. SuccessIsReal'
  <2>1. n <= clicks /\ n # 0 /\ post'[n].content = post[n].content
        /\ post'[n].key = post[n].key
    BY <1>1, <1>3 DEF ClientInv, ClicksMade, PostsKept, Clicks
  <2>2. schema # None /\ schema.form = formKey
    BY <1>3, <2>1 DEF ClientInv, OnlyActive, PageShown
  <2>3. /\ post[n].content.form = schema.form
        /\ post[n].content.version = schema.version
    BY <1>3, <2>1 DEF ClientInv, OnlyActive
  <2>4. \E s \in stored : s.content = post[n].content /\ s.key = post[n].key
    BY <1>1, <2>1 DEF ClientInv, ReceiptsStored
  <2>5. QED
    BY <1>1, <1>3, <2>1, <2>2, <2>3, <2>4 DEF SuccessIsReal
<1>6. KeysOfContents'
  BY <1>1, <1>3, KeysStay
<1>7. QED
  BY <1>2, <1>4, <1>5, <1>6 DEF ClientInv
-----------------------------------------------------------------------------
(* A step that changes nothing on the page, and nothing about which        *)
(* submissions are under way.                                              *)
LEMMA QuietStep ==
  ASSUME ClientInv, PostsKept,
         post' \in [Clicks -> Posts \cup {None}],
         UNCHANGED page, stored \subseteq stored',
         stored' \subseteq [content : Contents, key : Clicks, who : Visitors],
         live' \in [FormKeys -> 0 .. MaxVersion], StoredOnce',
         \A m \in Clicks :
           /\ UnderWay(m)' <=> UnderWay(m)
           /\ post'[m].net = "receipt" =>
                \/ post[m].net = "receipt"
                \/ \E s \in stored' :
                     s.content = post[m].content /\ s.key = post[m].key
  PROVE  ClientInv'
<1>1. /\ ClientTypeOK /\ ClicksMade
      /\ UNCHANGED <<formKey, loads, fetching, schema, ui, attempt, busy,
                     active, receipt>>
      /\ clicks' = clicks
  BY DEF ClientInv, page, PostsKept
<1>2. ClientTypeOK'
  BY <1>1 DEF ClientTypeOK
<1>3. ClicksMade' /\ OneKey'
  <2>1. loads' \in Nat /\ loads <= loads'
    BY <1>1 DEF ClientTypeOK, Loads
  <2>2. QED
    BY <1>1, <2>1, ClicksStay
<1>4. PageShown'
  BY <1>1 DEF ClientInv, PageShown
<1>5. OnlyActive'
  <2>1. active # 0 => /\ active \in Clicks /\ post[active] # None
    BY <1>1 DEF ClientInv, ClientTypeOK, OnlyActive, ClicksMade
  <2>2. QED
    BY <1>1, <2>1 DEF ClientInv, OnlyActive, PostsKept
<1>6. ReceiptsStored'
  BY ReceiptsStay
<1>7. AttemptIsLast'
  <2>1. clicks # 0 => clicks \in Clicks /\ post[clicks] # None
    BY <1>1, LastClick
  <2>2. QED
    BY <1>1, <2>1 DEF ClientInv, AttemptIsLast, PostsKept
<1>8. SuccessIsReal' /\ KeysOfContents'
  BY <1>1, SuccessStays, KeysStay
<1>9. QED
  BY <1>2, <1>3, <1>4, <1>5, <1>6, <1>7, <1>8 DEF ClientInv
-----------------------------------------------------------------------------
(* The effect's cleanup aborts what is under way.                          *)
LEMMA ShowStep ==
  ASSUME ClientInv, NEW f \in FormKeys, ShowForm(f) PROVE ClientInv'
<1>1. ClientTypeOK /\ ClicksMade /\ OnlyActive
  BY DEF ClientInv
<1>2. /\ loads \in Nat /\ loads' = loads + 1 /\ loads' \in Loads
      /\ receipt' = receipt /\ stored' = stored /\ clicks' = clicks
      /\ ui' = "loading" /\ schema' = None /\ formKey' = f /\ active' = 0
  BY <1>1, ClientAssumption DEF ShowForm, ClientTypeOK, Loads, server
<1>3. /\ PostsKept /\ post' \in [Clicks -> Posts \cup {None}]
      /\ \A m \in Clicks : m <= clicks =>
           post'[m].net = post[m].net /\ ~UnderWay(m)'
  <2>1. CASE active = 0
    <3>1. post' = post
      BY <2>1 DEF ShowForm
    <3>2. \A m \in Clicks : m # 0
      BY DEF Clicks
    <3>3. QED
      BY <1>1, <1>2, <2>1, <3>1, <3>2
      DEF PostsKept, ClientTypeOK, OnlyActive, UnderWay
  <2>2. CASE active # 0
    <3> DEFINE p == [post[active] EXCEPT !.aborted = TRUE]
    <3>1. /\ active \in Clicks /\ post[active] # None
          /\ post' = [post EXCEPT ![active] = p]
      BY <1>1, <2>2 DEF ShowForm, ClientTypeOK, OnlyActive, ClicksMade
    <3>2. post[active] \in Posts
      BY <1>1, <3>1, PostFields
    <3>3. /\ p \in Posts /\ p.aborted
          /\ p.load = post[active].load /\ p.content = post[active].content
          /\ p.key = post[active].key /\ p.net = post[active].net
      BY <3>2, PostChanges DEF Posts
    <3> HIDE DEF p
    <3>4. /\ PostsKept /\ post' \in [Clicks -> Posts \cup {None}]
          /\ post'[active] = p
          /\ \A m \in Clicks \ {active} : post'[m] = post[m]
      BY <1>1, <1>2, <3>1, <3>3, OneChanges
    <3>5. ASSUME NEW m \in Clicks, m <= clicks
          PROVE  post'[m].net = post[m].net /\ ~UnderWay(m)'
      BY <1>1, <3>3, <3>4, <3>5 DEF UnderWay, OnlyActive
    <3>6. QED
      BY <3>4, <3>5
  <2>3. QED
    BY <2>1, <2>2
<1>4. ClientTypeOK'
  BY <1>1, <1>2, <1>3 DEF ShowForm, ClientTypeOK, server
<1>5. ClicksMade' /\ OneKey'
  BY <1>2, <1>3, ClicksStay DEF Loads
<1>6. PageShown'
  BY <1>1, <1>2 DEF ShowForm, PageShown, ClientTypeOK
<1>7. OnlyActive'
  <2>1. busy' = FALSE
    BY DEF ShowForm
  <2>2. \A m \in Clicks : m # 0
    BY DEF Clicks
  <2>3. QED
    BY <1>2, <1>3, <2>1, <2>2 DEF OnlyActive
<1>8. ReceiptsStored'
  BY <1>2, <1>3, ReceiptsStay
<1>9. AttemptIsLast'
  <2>1. clicks # 0 => post'[clicks].load <= loads /\ post'[clicks].load \in Nat
    BY <1>1, <1>3, LastClick, PostFields DEF PostsKept, ClicksMade, Loads
  <2>2. QED
    BY <1>2, <2>1 DEF AttemptIsLast
<1>10. StoredOnce' /\ SuccessIsReal'
  BY <1>2 DEF ClientInv, StoredOnce, SuccessIsReal
<1>11. KeysOfContents'
  BY <1>3, KeysStay DEF ShowForm
<1>12. QED
  BY <1>4, <1>5, <1>6, <1>7, <1>8, <1>9, <1>10, <1>11 DEF ClientInv

(* Only the last load has a result, and nothing is under way before it.    *)
LEMMA LoadStep ==
  ASSUME ClientInv, NEW n \in Loads, LoadEnds(n) PROVE ClientInv'
<1>1. ClientTypeOK /\ PageShown /\ OnlyActive /\ fetching[n] # None
  BY DEF ClientInv, LoadEnds
<1>2. /\ UNCHANGED <<formKey, loads, attempt, busy, active, receipt, clicks,
                     post, live, stored>>
      /\ fetching' = [fetching EXCEPT ![n] = None]
  BY DEF LoadEnds, posts, server
<1>3. n # loads => schema' = schema /\ ui' = ui
  BY DEF LoadEnds
<1>4. ASSUME n = loads
      PROVE  /\ schema = None /\ ui = "loading" /\ active = 0
             /\ schema' \in Schemas \cup {None}
             /\ schema' # None => schema'.form = formKey
             /\ \/ ui' = "load-error"
                \/ ui' = "ready" /\ schema' # None
  <2>1. /\ fetching[n] = formKey /\ schema = None /\ ui = "loading"
        /\ active = 0 /\ formKey \in FormKeys
        /\ live[formKey] \in 0 .. MaxVersion
    BY <1>1, <1>4 DEF PageShown, OnlyActive, ClientTypeOK
  <2>2. \/ ui' = "load-error" /\ schema' = schema
        \/ /\ live[formKey] # 0 /\ ui' = "ready"
           /\ schema' = [form |-> formKey, version |-> live[formKey]]
    BY <1>4, <2>1 DEF LoadEnds
  <2>3. live[formKey] # 0 =>
          [form |-> formKey, version |-> live[formKey]] \in Schemas
    BY <2>1, ClientAssumption DEF Schemas
  <2>4. QED
    BY <2>1, <2>2, <2>3, NoneAssumption
<1>5. ClientTypeOK'
  BY <1>1, <1>2, <1>3, <1>4 DEF ClientTypeOK
<1>6. PageShown'
  BY <1>1, <1>2, <1>3, <1>4 DEF PageShown, ClientTypeOK
<1>7. OnlyActive'
  BY <1>1, <1>2, <1>3, <1>4 DEF OnlyActive, UnderWay
<1>8. ClicksMade' /\ ReceiptsStored' /\ StoredOnce' /\ OneKey'
  BY <1>2 DEF ClientInv, ClicksMade, ReceiptsStored, StoredOnce, OneKey
<1>9. AttemptIsLast' /\ SuccessIsReal' /\ KeysOfContents'
  BY <1>2, <1>3, <1>4 DEF ClientInv, AttemptIsLast, SuccessIsReal, KeysOfContents
<1>10. QED
  BY <1>5, <1>6, <1>7, <1>8, <1>9 DEF ClientInv

(* A token was found: the submission is on its way.                        *)
LEMMA TokenStep ==
  ASSUME ClientInv, NEW n \in Clicks, NEW who \in Visitors, post[n] # None,
         post[n].step = "token", UNCHANGED <<page, clicks, server>>,
         post' = [post EXCEPT ![n].step = "sent", ![n].net = "sent",
                              ![n].who = who]
  PROVE  ClientInv'
<1> DEFINE p == [post[n] EXCEPT !.step = "sent", !.net = "sent", !.who = who]
<1>1. ClientTypeOK /\ post[n] \in Posts
  BY PostFields DEF ClientInv
<1>2. /\ p \in Posts /\ p.step = "sent" /\ p.net = "sent"
      /\ p.load = post[n].load /\ p.content = post[n].content
      /\ p.key = post[n].key /\ p.aborted = post[n].aborted
  BY <1>1, PostChanges DEF Posts
<1>3. post' = [post EXCEPT ![n] = p]
  BY <1>1 DEF ClientTypeOK, Posts
<1> HIDE DEF p
<1>4. /\ PostsKept /\ post' \in [Clicks -> Posts \cup {None}]
      /\ post'[n] = p /\ \A m \in Clicks \ {n} : post'[m] = post[m]
  BY <1>1, <1>2, <1>3, OneChanges
<1>5. \A m \in Clicks : /\ UnderWay(m)' <=> UnderWay(m)
                        /\ post'[m].net = "receipt" => post[m].net = "receipt"
  BY <1>2, <1>4 DEF UnderWay
<1>6. /\ stored' \subseteq [content : Contents, key : Clicks, who : Visitors]
      /\ stored \subseteq stored' /\ StoredOnce'
      /\ live' \in [FormKeys -> 0 .. MaxVersion]
  BY <1>1 DEF ClientInv, ClientTypeOK, StoredOnce, server
<1>7. QED
  BY <1>4, <1>5, <1>6, QuietStep

LEMMA ServerStep ==
  ASSUME ClientInv, NEW n \in Clicks, ServerHandles(n) PROVE ClientInv'
<1> DEFINE p == post[n]
           row == [content |-> p.content, key |-> p.key, who |-> p.who]
<1>1. /\ ClientTypeOK /\ p \in Posts /\ p # None
      /\ row \in [content : Contents, key : Clicks, who : Visitors]
  BY PostFields DEF ClientInv, ServerHandles
<1>2. PICK r \in {"receipt", "conflict", "error"} :
        /\ post' = [post EXCEPT ![n] = [p EXCEPT !.net = r]]
        /\ \/ stored' = stored
           \/ Saved(p) = {} /\ stored' = stored \cup {row}
        /\ r = "receipt" => row \in stored'
  BY DEF ServerHandles, Saved
<1> DEFINE q == [p EXCEPT !.net = r]
<1>3. /\ q \in Posts /\ q.net = r /\ q.step = p.step
      /\ q.load = p.load /\ q.content = p.content
      /\ q.key = p.key /\ q.aborted = p.aborted
  BY <1>1, PostChanges DEF Posts
<1>4. post' = [post EXCEPT ![n] = q]
  BY <1>2
<1>5. UNCHANGED <<page, clicks, live>>
  BY DEF ServerHandles
<1> HIDE DEF q
<1>6. /\ PostsKept /\ post' \in [Clicks -> Posts \cup {None}]
      /\ post'[n] = q /\ \A m \in Clicks \ {n} : post'[m] = post[m]
  BY <1>1, <1>3, <1>4, <1>5, OneChanges
<1>7. \A m \in Clicks :
        /\ UnderWay(m)' <=> UnderWay(m)
        /\ post'[m].net = "receipt" =>
             \/ post[m].net = "receipt"
             \/ \E s \in stored' :
                  s.content = post[m].content /\ s.key = post[m].key
  BY <1>2, <1>3, <1>6 DEF UnderWay
<1>8. /\ stored \subseteq stored'
      /\ stored' \subseteq [content : Contents, key : Clicks, who : Visitors]
  BY <1>1, <1>2 DEF ClientTypeOK
<1>9. StoredOnce'
  <2>1. CASE stored' = stored
    BY <2>1 DEF ClientInv, StoredOnce
  <2>2. CASE Saved(p) = {} /\ stored' = stored \cup {row}
    <3>1. row.content = p.content /\ row.key = p.key
      OBVIOUS
    <3>2. \A s \in stored :
            ~(/\ s.content.form = row.content.form
              /\ s.content.version = row.content.version
              /\ s.key = row.key)
      BY <2>2, <3>1 DEF Saved
    <3> HIDE DEF row
    <3>3. QED
      BY <2>2, <3>2 DEF ClientInv, StoredOnce
  <2>3. QED
    BY <1>2, <2>1, <2>2
<1>10. UNCHANGED page /\ live' \in [FormKeys -> 0 .. MaxVersion]
  BY <1>1, <1>5 DEF ClientTypeOK
<1>11. QED
  BY <1>6, <1>7, <1>8, <1>9, <1>10, QuietStep

(* A click: no other submission is under way, and the key is that of the   *)
(* last attempt if it was for the same content.                            *)
LEMMA ClickStep ==
  ASSUME ClientInv, NEW a \in Answers, Click(a) PROVE ClientInv'
<1> DEFINE k == clicks + 1
           body == <<schema.version, a>>
           content == [form |-> schema.form, version |-> schema.version,
                       answers |-> a]
           new == [load |-> loads, content |-> content, key |-> KeyFor(body),
                   who |-> NoToken, step |-> "token", aborted |-> FALSE,
                   net |-> "unsent"]
<1>1. /\ ClientTypeOK /\ ClicksMade /\ OnlyActive
      /\ ui \in {"ready", "pending"} /\ active = 0
      /\ schema \in Schemas /\ schema # None
  BY DEF ClientInv, Click, MaySubmit, OnlyActive, ClientTypeOK
<1>2. /\ clicks \in Nat /\ k \in Clicks /\ loads \in Loads /\ loads \in Nat
      /\ clicks < k
  BY <1>1, ClientAssumption DEF Click, ClientTypeOK, Clicks, Loads
<1>3. body \in (1 .. MaxVersion) \X Answers /\ content \in Contents
  BY <1>1 DEF Schemas, Contents
<1>4. KeyFor(body) \in Clicks
  BY <1>1, <1>2 DEF KeyFor, ClientTypeOK, Attempts
<1>5. new \in Posts /\ [body |-> body, key |-> KeyFor(body)] \in Attempts
  BY <1>2, <1>3, <1>4, ClientAssumption DEF Posts, Attempts
<1>6. /\ new.load = loads /\ new.content = content /\ new.key = KeyFor(body)
      /\ new.step = "token" /\ ~new.aborted /\ new.net = "unsent"
      /\ content.form = schema.form /\ content.version = schema.version
      /\ content.answers = a
  OBVIOUS
<1>7. /\ clicks' = k /\ attempt' = [body |-> body, key |-> KeyFor(body)]
      /\ post' = [post EXCEPT ![k] = new]
      /\ active' = k /\ busy' = TRUE /\ ui' = "pending"
      /\ UNCHANGED <<formKey, loads, fetching, schema, receipt, live, stored>>
  BY DEF Click, server
<1>8. /\ attempt'.body = body /\ attempt'.key = KeyFor(body)
      /\ attempt' # None /\ attempt' \in Attempts
  BY <1>5, <1>7, NoneAssumption
<1> HIDE DEF new, content
<1>9. /\ post'[k] = new /\ new # None
      /\ \A m \in Clicks \ {k} : post'[m] = post[m]
      /\ post' \in [Clicks -> Posts \cup {None}]
  BY <1>1, <1>2, <1>5, <1>7, NoneAssumption DEF ClientTypeOK
<1>10. \A m \in Clicks : m <= k <=> m <= clicks \/ m = k
  BY <1>2 DEF Clicks
<1>11. ClientTypeOK'
  BY <1>1, <1>2, <1>7, <1>8, <1>9 DEF ClientTypeOK
<1>12. ClicksMade'
  <2>1. receipt <= k
    BY <1>1, <1>2, ClientAssumption DEF ClicksMade, ClientTypeOK, Clicks
  <2>2. QED
    BY <1>1, <1>2, <1>6, <1>7, <1>9, <1>10, <2>1 DEF ClicksMade
<1>13. PageShown'
  BY <1>1, <1>7 DEF ClientInv, PageShown
<1>14. OnlyActive'
  <2>1. k # 0 /\ \A m \in Clicks : m # 0
    BY <1>2 DEF Clicks
  <2>2. \A m \in Clicks : m <= k => (UnderWay(m)' <=> m = k)
    BY <1>1, <1>6, <1>9, <1>10, <2>1 DEF OnlyActive, UnderWay
  <2>3. QED
    BY <1>2, <1>6, <1>7, <1>9, <2>1, <2>2 DEF OnlyActive
<1>15. ReceiptsStored' /\ StoredOnce'
  BY <1>6, <1>7, <1>9, <1>10 DEF ClientInv, ReceiptsStored, StoredOnce
<1>16. AttemptIsLast'
  BY <1>6, <1>7, <1>8, <1>9 DEF AttemptIsLast
<1>17. ASSUME clicks # 0, post[clicks].load = loads,
              post[clicks].content = content
       PROVE  post[clicks].key = KeyFor(body)
  BY <1>1, <1>6, <1>17 DEF ClientInv, AttemptIsLast, KeyFor
<1>18. OneKey'
  <2> SUFFICES ASSUME NEW m \in Clicks, NEW n \in Clicks, m <= n, n <= k,
                      \A i \in m .. n :
                        /\ post'[i].load = post'[n].load
                        /\ post'[i].content = post'[n].content
               PROVE  post'[m].key = post'[n].key
    BY <1>7 DEF OneKey
  <2>1. /\ m \in Nat /\ m # 0 /\ n \in Nat /\ k \in Nat /\ clicks \in Nat
        /\ k = clicks + 1
        /\ \A i \in m .. n : i \in Clicks /\ i <= n
    BY <1>2, ClientAssumption DEF Clicks
  <2>2. CASE n # k
    <3>1. \A i \in m .. n : post'[i] = post[i]
      <4>1. \A i \in m .. n : i # k
        BY <2>1, <2>2
      <4>2. QED
        BY <1>9, <2>1, <4>1
    <3>2. m \in m .. n /\ n \in m .. n /\ n <= clicks
      BY <1>10, <2>2 DEF Clicks
    <3>3. QED
      BY <3>1, <3>2 DEF ClientInv, OneKey
  <2>3. CASE n = k /\ m # k
    <3>1. /\ clicks \in Clicks /\ clicks # 0 /\ m <= clicks
          /\ clicks \in m .. n
          /\ \A i \in m .. clicks : i \in m .. n /\ i \in Clicks \ {k}
      <4>1. m <= clicks /\ clicks # 0 /\ clicks \in m .. n
        BY <2>1, <2>3
      <4>2. \A i \in m .. clicks : i \in m .. n /\ i # k
        BY <2>1, <2>3
      <4>3. QED
        BY <2>1, <4>1, <4>2
    <3>2. \A i \in m .. clicks : post[i].load = loads
                                 /\ post[i].content = content
      BY <1>6, <1>9, <2>3, <3>1
    <3>3. m \in m .. clicks /\ clicks \in m .. clicks
      BY <3>1 DEF Clicks
    <3>4. post[clicks].key = KeyFor(body)
      BY <1>17, <3>1, <3>2, <3>3
    <3>5. post[m].key = post[clicks].key
      <4>1. \A i \in m .. clicks :
              /\ post[i].load = post[clicks].load
              /\ post[i].content = post[clicks].content
        BY <3>2, <3>3
      <4>2. clicks <= clicks
        BY <1>2
      <4>3. QED
        BY <3>1, <4>1, <4>2 DEF ClientInv, OneKey
    <3>6. QED
      BY <1>6, <1>9, <2>3, <3>4, <3>5
  <2>4. QED
    BY <2>2, <2>3
<1>19. SuccessIsReal'
  BY <1>7 DEF SuccessIsReal
<1>20. KeysOfContents'
  <2>1. KeysOfContents /\ schema.form = formKey
    BY <1>1 DEF ClientInv, PageShown
  <2>2. KeyFor(body) = k \/ (/\ attempt # None /\ attempt.body = body
                            /\ KeyFor(body) = attempt.key /\ attempt.key <= clicks)
    BY <2>1 DEF KeyFor, KeysOfContents
  <2>3. KeyFor(body) <= k
    BY <1>2, <1>4, <2>2 DEF Clicks
  <2>4. \A n \in Clicks : n <= clicks =>
          /\ post'[n] = post[n] /\ post[n].key <= clicks /\ post[n].key \in Clicks
          /\ post[n].content \in Contents /\ n # k
    BY <1>1, <1>2, <1>9, <2>1, PostFields DEF KeysOfContents, ClicksMade, Clicks
  <2>5. \A n \in Clicks : n <= k => post'[n].key <= k
    BY <1>2, <1>6, <1>9, <1>10, <2>3, <2>4 DEF Clicks
  <2>6. ASSUME NEW n \in Clicks, n <= clicks, post[n].key = KeyFor(body)
        PROVE  post[n].content = content
    <3>1. attempt # None /\ attempt.body = body /\ KeyFor(body) = attempt.key
      BY <1>2, <2>2, <2>4, <2>6 DEF Clicks
    <3>2. /\ post[n].content.form = formKey
          /\ body = <<post[n].content.version, post[n].content.answers>>
      BY <2>1, <2>6, <3>1 DEF KeysOfContents
    <3>3. post[n].content.version = schema.version /\ post[n].content.answers = a
      BY <3>2
    <3> QED  BY <2>1, <2>4, <2>6, <3>2, <3>3 DEF Contents, content
  <2>7. \A n \in Clicks : n <= k /\ post'[n].key = KeyFor(body) =>
          post'[n].content = content
    BY <1>6, <1>9, <1>10, <2>4, <2>6
  <2>8. attempt'.body = <<content.version, content.answers>> /\ content.form = formKey
    BY <1>6, <1>8, <2>1
  <2>9. \A m, n \in Clicks :
          m <= k /\ n <= k /\ post'[m].key = post'[n].key =>
            post'[m].content = post'[n].content
    <3> SUFFICES ASSUME NEW m \in Clicks, NEW n \in Clicks, m <= k, n <= k,
                        post'[m].key = post'[n].key
                 PROVE  post'[m].content = post'[n].content
      OBVIOUS
    <3>1. CASE m = k \/ n = k
      BY <1>6, <1>9, <2>7, <3>1
    <3>2. CASE m <= clicks /\ n <= clicks
      BY <2>1, <2>4, <3>2 DEF KeysOfContents
    <3> QED  BY <1>10, <3>1, <3>2
  <2> QED  BY <1>7, <1>8, <2>3, <2>5, <2>7, <2>8, <2>9 DEF KeysOfContents
<1>21. QED
  BY <1>11, <1>12, <1>13, <1>14, <1>15, <1>16, <1>18, <1>19, <1>20 DEF ClientInv
-----------------------------------------------------------------------------
LEMMA PublishStep ==
  ASSUME ClientInv, NEW f \in FormKeys, PublishNext(f) PROVE ClientInv'
<1>1. /\ UNCHANGED <<page, clicks, post, stored>>
      /\ live' \in [FormKeys -> 0 .. MaxVersion]
  BY ClientAssumption DEF PublishNext, posts, ClientInv, ClientTypeOK
<1>2. /\ PostsKept /\ post' \in [Clicks -> Posts \cup {None}] /\ StoredOnce'
      /\ stored' \subseteq [content : Contents, key : Clicks, who : Visitors]
  BY <1>1 DEF PostsKept, ClientInv, ClientTypeOK, StoredOnce
<1>3. QED
  BY <1>1, <1>2, QuietStep DEF UnderWay

LEMMA StutterStep == ClientInv /\ UNCHANGED vars => ClientInv'
<1> SUFFICES ASSUME ClientInv, UNCHANGED vars PROVE ClientInv'
  OBVIOUS
<1>1. /\ UNCHANGED <<page, clicks, post, stored>>
      /\ live' \in [FormKeys -> 0 .. MaxVersion]
  BY DEF vars, posts, server, ClientInv, ClientTypeOK
<1>2. /\ PostsKept /\ post' \in [Clicks -> Posts \cup {None}] /\ StoredOnce'
      /\ stored' \subseteq [content : Contents, key : Clicks, who : Visitors]
  BY <1>1 DEF PostsKept, ClientInv, ClientTypeOK, StoredOnce
<1>3. QED
  BY <1>1, <1>2, QuietStep DEF UnderWay

LEMMA ClientInductive == ClientInv /\ [Next]_vars => ClientInv'
<1> SUFFICES ASSUME ClientInv, [Next]_vars PROVE ClientInv'
  OBVIOUS
<1>1. ASSUME NEW n \in Clicks, NEW who \in Visitors, TokenArrives(n, who)
      PROVE  ClientInv'
  <2>1. /\ post[n] # None /\ post[n].step = "token"
        /\ \/ Ends(n, AskAgain) /\ UNCHANGED <<attempt, receipt>>
           \/ /\ post' = [post EXCEPT ![n].step = "sent", ![n].net = "sent",
                                      ![n].who = who]
              /\ UNCHANGED <<page, clicks, server>>
    BY <1>1 DEF TokenArrives
  <2>2. QED
    BY <2>1, FailureStep, TokenStep
<1>2. ASSUME NEW n \in Clicks, TokenFails(n) \/ Refused(n) \/ ReceiptLost(n)
      PROVE  ClientInv'
  BY <1>2, FailureStep DEF TokenFails, Refused, ReceiptLost
<1>3. QED
  BY <1>1, <1>2, ShowStep, LoadStep, ClickStep, ReceiptStep, ServerStep,
     PublishStep, StutterStep
  DEF Next

LEMMA ClientInitially == Init => ClientInv
<1> SUFFICES ASSUME Init PROVE ClientInv
  OBVIOUS
<1>1. 1 \in Loads /\ 0 \in Nat /\ 1 \in 0 .. MaxVersion
  BY ClientAssumption DEF Loads
<1>2. ClientTypeOK
  BY <1>1 DEF Init, ClientTypeOK
<1>3. \A n \in Clicks : ~(n <= 0)
  BY DEF Clicks
<1>4. ClicksMade /\ OnlyActive /\ ReceiptsStored /\ OneKey
  BY <1>3 DEF Init, ClicksMade, OnlyActive, ReceiptsStored, OneKey
<1>5. PageShown /\ StoredOnce /\ AttemptIsLast /\ SuccessIsReal
  BY <1>1
  DEF Init, PageShown, StoredOnce, AttemptIsLast, SuccessIsReal
<1>6. KeysOfContents
  BY <1>3 DEF Init, KeysOfContents
<1>7. QED
  BY <1>2, <1>4, <1>5, <1>6 DEF ClientInv

(* The invariant of the component, for any number of forms, loads and      *)
(* clicks.                                                                 *)
THEOREM ClientInvariant == Spec => []ClientInv
  BY ClientInitially, ClientInductive, PTL DEF Spec

(* Page, submissions and server stay well-typed.                           *)
THEOREM ClientTypeCorrect == Spec => []ClientTypeOK
  BY ClientInvariant, PTL DEF ClientInv

(* Success is shown only for the form, version and content on display,     *)
(* stored by the server: no old receipt completes a new form.              *)
THEOREM SuccessIsStored == Spec => []SuccessIsReal
  BY ClientInvariant, PTL DEF ClientInv

LEMMA AtMostOne ==
  ASSUME NEW S, \A s, t \in S : s = t
  PROVE  Cardinality(S) <= 1
<1>1. CASE S = {}
  BY <1>1, FS_EmptySet
<1>2. CASE S # {}
  <2>1. PICK s : s \in S
    BY <1>2
  <2>2. S = {s}
    BY <2>1
  <2>3. Cardinality(S) = 1
    BY <2>2, FS_Singleton
  <2>4. QED
    BY <2>3
<1>3. QED
  BY <1>1, <1>2

(* No two submissions that could still change the page, and the controls   *)
(* are off exactly while there is one.                                     *)
THEOREM OneAtATime == Spec => []OneSubmissionAtATime
<1>1. ClientInv => OneSubmissionAtATime
  <2> SUFFICES ASSUME ClientInv PROVE OneSubmissionAtATime
    OBVIOUS
  <2> DEFINE U == {n \in Clicks : post[n] # None /\ post[n].step # "over"
                                  /\ ~post[n].aborted}
  <2>1. \A n \in U : n = active
    BY DEF ClientInv, ClicksMade, OnlyActive, UnderWay
  <2>2. \A n \in Clicks : n # 0
    BY DEF Clicks
  <2>3. active # 0 => active \in U
    BY DEF ClientInv, ClientTypeOK, ClicksMade, OnlyActive, UnderWay
  <2>4. U # {} <=> active # 0
    BY <2>1, <2>2, <2>3
  <2>5. (ui = "pending" <=> U # {}) /\ (busy <=> U # {})
    BY <2>4 DEF ClientInv, OnlyActive
  <2>6. Cardinality(U) <= 1
    BY <2>1, AtMostOne
  <2>7. QED
    BY <2>5, <2>6 DEF OneSubmissionAtATime
<1>2. QED
  BY <1>1, ClientInvariant, PTL

(* However often unchanged content is submitted again, at most one         *)
(* submission is stored for it, and changed content never gets its key.    *)
THEOREM RetriesAreOne == Spec => []RetriesStoreOnce
<1>1. ClientInv => RetriesStoreOnce
  <2> SUFFICES ASSUME ClientInv, NEW m \in Clicks, NEW n \in Clicks, m <= n,
                      SameWish(m, n)
               PROVE  Cardinality({s \in stored : \E i \in m .. n :
                         s.key = post[i].key /\ s.content = post[i].content})
                        <= 1
    BY DEF RetriesStoreOnce, ClientInv, KeysOfContents
  <2> DEFINE S == {s \in stored : \E i \in m .. n :
                     s.key = post[i].key /\ s.content = post[i].content}
  <2>1. /\ n <= clicks
        /\ \A i \in m .. n : /\ post[i].load = post[n].load
                             /\ post[i].content = post[n].content
    BY DEF SameWish
  <2>2. \A i \in m .. n : post[i].key = post[n].key
    <3> SUFFICES ASSUME NEW i \in m .. n PROVE post[i].key = post[n].key
      OBVIOUS
    <3>1. /\ i \in Clicks /\ i <= n
          /\ \A j \in i .. n : j \in m .. n
      BY ClientAssumption DEF Clicks
    <3>2. QED
      BY <2>1, <3>1 DEF ClientInv, OneKey
  <2>3. \A s, t \in S : s = t
    BY <2>1, <2>2 DEF ClientInv, StoredOnce
  <2>4. Cardinality(S) <= 1
    BY <2>3, AtMostOne
  <2>5. QED
    BY <2>4
<1>2. QED
  BY <1>1, ClientInvariant, PTL
=============================================================================
