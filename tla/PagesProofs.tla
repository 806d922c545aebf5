----------------------------- MODULE PagesProofs -----------------------------
(***************************************************************************)
(* Theorems about PageLoads, for any number of pages, requests, filters and *)
(* refresh cycles.  A request is in one place at a time: it waits in a lane *)
(* or it is being read, once (Places); what is read for the latest request  *)
(* was seen after what the page shows (Fresh).  At the end, the components  *)
(* of MCPages together.                                                     *)
(***************************************************************************)
EXTENDS MCPages, ReadersProofs, SettingsPetsProofs, TLAPS

Reads == [request : Requests, filter : Filters, saw : {Unseen} \cup 0..version]

\* The number of a request, which no other has.
Same(a, b) == a.page = b.page /\ a.seq = b.seq
\* It has been given out, when n requests of page p have been.
Given(r, p, n) == r.page < p \/ (r.page = p /\ r.seq <= n)

Places ==
  /\ \A r \in reads : Given(r.request, page, sequence)
  /\ \A r, q \in reads : Same(r.request, q.request) => r = q
  /\ Given(shared.pending, page, sequence)
  /\ \A r \in reads : ~Same(r.request, shared.pending)
  /\ \A p \in 1..MaxPages :
       /\ Given(local[p].pending, page, sequence)
       /\ local[p].pending # NoRequest => local[p].pending.page = p
       /\ \A r \in reads : ~Same(r.request, local[p].pending)
       /\ shared.pending # NoRequest => ~Same(shared.pending, local[p].pending)

Fresh ==
  /\ data.version <= version
  /\ \A r \in reads : Current(r.request) /\ r.saw # Unseen => r.saw >= data.version

Inv == LoadsTypeOK /\ Places /\ Fresh

-----------------------------------------------------------------------------
(* Lanes and requests *)

LEMMA NoRequestFacts ==
  /\ NoRequest \notin Requests /\ IdleLane \in Lanes
  /\ \A r \in Requests : ~Same(r, NoRequest)
  /\ NoRequest.page = 0
BY DEF NoRequest, Requests, IdleLane, Lanes, Same

LEMMA LaneFacts ==
  ASSUME NEW lane \in Lanes, NEW r \in Requests,
         lane.active = NoRequest => lane.pending = NoRequest
  PROVE  /\ Enter(lane, r) \in Lanes /\ Finished(lane) \in Lanes
         /\ Enter(lane, r).active # NoRequest
         /\ Enter(lane, r).pending = IF Busy(lane) THEN r ELSE NoRequest
         /\ Finished(lane).pending = NoRequest /\ Finished(lane).active = lane.pending
<1>1. lane = [active |-> lane.active, pending |-> lane.pending]
  BY DEF Lanes
<1>2. lane.active \in Requests \cup {NoRequest} /\ lane.pending \in Requests \cup {NoRequest}
  BY DEF Lanes
<1>3. QED
  BY <1>1, <1>2, NoRequestFacts DEF Enter, Finished, Busy, Lanes

\* The next request of the page is nobody's yet.
LEMMA AskedFacts ==
  ASSUME LoadsTypeOK, Places, sequence < MaxRequests, NEW kind \in {"first", "background", "user"}
  PROVE  /\ Asked(kind) \in Requests /\ Asked(kind).page = page /\ Asked(kind).seq = sequence + 1
         /\ \A r \in reads : ~Same(r.request, Asked(kind))
         /\ ~Same(shared.pending, Asked(kind))
         /\ \A p \in 1..MaxPages : ~Same(local[p].pending, Asked(kind))
<1>1. sequence \in 0..MaxRequests /\ page \in 1..MaxPages /\ MaxRequests \in Nat /\ MaxPages \in Nat
  BY LoadsAssumption DEF LoadsTypeOK
<1>2. Asked(kind) \in Requests /\ Asked(kind).page = page /\ Asked(kind).seq = sequence + 1
  BY <1>1 DEF Asked, Requests
<1>3. \A r : Given(r, page, sequence) => ~Same(r, Asked(kind))
  BY <1>1, <1>2 DEF Given, Same
<1>4. QED
  BY <1>2, <1>3 DEF Places

-----------------------------------------------------------------------------
(* Types *)

\* The type invariant, in parts.
ShownOK ==
  /\ version \in 0..MaxVersion /\ page \in 1..MaxPages /\ sequence \in 0..MaxRequests
  /\ filter \in Filters /\ loadsWith \in Filters
  /\ data = NoData \/ data \in [filter : Filters, version : 0..version]
FlagsOK ==
  /\ due \in BOOLEAN /\ loading \in BOOLEAN /\ error \in BOOLEAN /\ listening \in BOOLEAN
  /\ debounce \in BOOLEAN /\ missed \in BOOLEAN /\ outrun \in BOOLEAN
LaneOK(lane) == lane \in Lanes /\ (lane.active = NoRequest => lane.pending = NoRequest)
LanesOK ==
  /\ LaneOK(shared)
  /\ local \in [1..MaxPages -> Lanes] /\ \A p \in 1..MaxPages : LaneOK(local[p])
  /\ reads \subseteq Reads

LEMMA TypeParts == LoadsTypeOK <=> ShownOK /\ FlagsOK /\ LanesOK
BY DEF LoadsTypeOK, ShownOK, FlagsOK, LanesOK, LaneOK, Reads

LEMMA TypePartsNext == ShownOK' /\ FlagsOK' /\ LanesOK' => LoadsTypeOK'
BY DEF LoadsTypeOK, ShownOK, FlagsOK, LanesOK, LaneOK, Reads

LEMMA StepFlags == FlagsOK /\ [LoadsNext]_loadVars => FlagsOK'
<1> SUFFICES ASSUME FlagsOK, [LoadsNext]_loadVars PROVE FlagsOK'
  OBVIOUS
<1>1. ASSUME NEW kind, Request(kind)
      PROVE  loading' \in BOOLEAN /\ error' \in BOOLEAN /\ outrun' \in BOOLEAN
             /\ listening' = listening /\ missed' = missed
  BY <1>1, Zenon DEF Request
<1>2. CASE LoadEffect
  BY <1>1, <1>2 DEF LoadEffect, FlagsOK
<1>3. CASE Reload
  BY <1>1, <1>3 DEF Reload, FlagsOK
<1>4. CASE Debounced
  BY <1>1, <1>4 DEF Debounced, FlagsOK
<1>5. ASSUME NEW r \in reads, NEW ok \in BOOLEAN, Answer(r, ok) PROVE FlagsOK'
  <2>1. loading' \in BOOLEAN /\ error' \in BOOLEAN /\ outrun' \in BOOLEAN
    BY <1>5, Zenon DEF Answer, Show
  <2>2. QED
    BY <1>5, <2>1 DEF Answer, FlagsOK
<1>6. CASE Navigate
  BY <1>6 DEF Navigate, FlagsOK
<1>7. ASSUME NEW f \in Filters, Render(f) PROVE FlagsOK'
  BY <1>7 DEF Render, shown, FlagsOK
<1>8. CASE Listen
  BY <1>8 DEF Listen, shown, FlagsOK
<1>9. CASE CycleEnds
  BY <1>9 DEF CycleEnds, shown, FlagsOK
<1>10. ASSUME NEW r \in reads, See(r) PROVE FlagsOK'
  BY <1>10 DEF See, shown, FlagsOK
<1>11. CASE UNCHANGED loadVars
  BY <1>11 DEF loadVars, shown, FlagsOK
<1>12. QED
  BY <1>2, <1>3, <1>4, <1>5, <1>6, <1>7, <1>8, <1>9, <1>10, <1>11 DEF LoadsNext

LEMMA EnterOK ==
  ASSUME NEW lane, LaneOK(lane), NEW r \in Requests
  PROVE  LaneOK(Enter(lane, r)) /\ LaneOK(Finished(lane))
BY LaneFacts, NoRequestFacts DEF LaneOK

LEMMA StartsOK ==
  ASSUME loadsWith \in Filters, NEW R, R \subseteq Requests \cup {NoRequest}
  PROVE  Starts(R) \subseteq Reads
<1>1. \A r \in Requests : Started(r) \in Reads
  BY DEF Started, Reads
<1>2. QED
  BY <1>1 DEF Starts

LEMMA InitLoadTypes == LoadsInit => LoadsTypeOK
<1> SUFFICES ASSUME LoadsInit PROVE ShownOK /\ FlagsOK /\ LanesOK
  BY TypeParts
<1>n. 0 \in 0..MaxVersion /\ 1 \in 1..MaxPages /\ 0 \in 0..MaxRequests /\ Default \in Filters
  BY LoadsAssumption
<1>f. FlagsOK
  BY DEF LoadsInit, FlagsOK
<1>1. ShownOK /\ FlagsOK
  BY <1>n, <1>f DEF LoadsInit, ShownOK
<1>2. LaneOK(IdleLane)
  BY NoRequestFacts DEF LaneOK, IdleLane
<1>3. QED
  BY <1>1, <1>2 DEF LoadsInit, LanesOK, LaneOK

LEMMA StepLoadTypes == LoadsTypeOK /\ Places /\ [LoadsNext]_loadVars => LoadsTypeOK'
<1> SUFFICES ASSUME LoadsTypeOK, Places, [LoadsNext]_loadVars PROVE ShownOK' /\ LanesOK'
  BY TypeParts, TypePartsNext, StepFlags
<1>0. ShownOK /\ LanesOK
  BY TypeParts
<1>n. /\ MaxRequests \in Nat /\ MaxPages \in Nat /\ MaxVersion \in Nat
      /\ page \in 1..MaxPages /\ sequence \in 0..MaxRequests /\ LaneOK(local[page]) /\ local[page] \in Lanes
  BY <1>0, LoadsAssumption DEF ShownOK, LanesOK, LaneOK
<1>r. ASSUME NEW kind \in {"first", "background", "user"}, sequence < MaxRequests
      PROVE  Asked(kind) \in Requests
  BY <1>r, AskedFacts
<1>1. CASE LoadEffect
  <2>1. ShownOK'
    BY <1>0, <1>1, <1>n DEF LoadEffect, Request, ShownOK
  <2>2. PICK kind \in {"first", "background", "user"} :
          /\ \/ shared' = Enter(shared, Asked(kind)) \/ shared' = shared
          /\ \/ local' = local \/ local' = [local EXCEPT ![page] = Enter(@, Asked(kind))]
          /\ \/ reads' = reads
             \/ reads' = reads \cup {[request |-> Asked(kind), filter |-> filter, saw |-> Unseen]}
          /\ sequence < MaxRequests
    BY <1>1 DEF LoadEffect, Request
  <2>3. Asked(kind) \in Requests
    BY <1>r, <2>2
  <2>4. LaneOK(shared') /\ local' \in [1..MaxPages -> Lanes] /\ \A p \in 1..MaxPages : LaneOK(local'[p])
    <3>1. LaneOK(Enter(shared, Asked(kind))) /\ LaneOK(Enter(local[page], Asked(kind)))
      BY <1>0, <1>n, <2>3, EnterOK DEF LanesOK
    <3>2. QED
      BY <1>0, <1>n, <2>2, <3>1 DEF LanesOK, LaneOK
  <2>5. reads' \subseteq Reads'
    BY <1>0, <1>1, <2>2, <2>3 DEF LanesOK, ShownOK, Reads, LoadEffect, Request
  <2>6. QED
    BY <2>1, <2>4, <2>5 DEF LanesOK, LaneOK
<1>2. CASE Reload
  <2>1. ShownOK'
    BY <1>0, <1>2, <1>n DEF Reload, Request, ShownOK
  <2>2. Starts({Asked("user")}) \subseteq Reads
    BY <1>0, <1>2, <1>r, StartsOK DEF Reload, Request, ShownOK
  <2>3. QED
    BY <1>0, <1>2, <2>1, <2>2 DEF Reload, Request, LanesOK, LaneOK, Reads
<1>3. CASE Debounced
  <2>1. ShownOK'
    BY <1>0, <1>3, <1>n DEF Debounced, Request, ShownOK
  <2>2. Asked("background") \in Requests
    BY <1>3, <1>r DEF Debounced, Request
  <2>3. Starts({Asked("background")}) \subseteq Reads
    BY <1>0, <2>2, StartsOK DEF ShownOK
  <2>4. /\ local' = [local EXCEPT ![page] = Enter(local[page], Asked("background"))]
        /\ reads' \subseteq reads \cup Starts({Asked("background")})
        /\ shared' \in {shared, Finished(shared)}
        /\ version' = version
    BY <1>3 DEF Debounced, Request
  <2>5. LaneOK(shared') /\ local' \in [1..MaxPages -> Lanes] /\ \A p \in 1..MaxPages : LaneOK(local'[p])
    BY <1>0, <1>n, <2>2, <2>4, EnterOK DEF LanesOK, LaneOK
  <2>6. QED
    BY <1>0, <2>1, <2>3, <2>4, <2>5 DEF LanesOK, LaneOK, Reads
<1>4. ASSUME NEW r \in reads, See(r) PROVE ShownOK' /\ LanesOK'
  <2>1. r \in Reads
    BY <1>0 DEF LanesOK
  <2>2. [r EXCEPT !.saw = version] \in Reads
    BY <1>0, <2>1 DEF Reads, ShownOK
  <2>3. QED
    BY <1>0, <1>4, <2>2 DEF See, shown, ShownOK, LanesOK, LaneOK, Reads
<1>5. ASSUME NEW r \in reads, NEW ok \in BOOLEAN, Answer(r, ok) PROVE ShownOK' /\ LanesOK'
  <2>1. r.request \in Requests /\ r.filter \in Filters /\ r.saw \in 0..version
    BY <1>0, <1>5 DEF LanesOK, Reads, Answer
  <2>2. ShownOK'
    <3>1. data' = NoData \/ data' \in [filter : Filters, version : 0..version]
      BY <1>0, <1>5, <2>1 DEF Answer, Show, ShownOK
    <3>2. QED
      BY <1>0, <1>5, <3>1 DEF Answer, ShownOK
  <2> DEFINE home  == r.request.page
             own   == r.request.kind # "user" /\ local[home].active = r.request
             next  == IF own THEN Finished(local[home]).active ELSE NoRequest
             late  == IF r.request.kind = "first" THEN Finished(shared).active ELSE NoRequest
             freed == IF own THEN [local EXCEPT ![home] = Finished(@)] ELSE local
  <2>3. home \in 1..MaxPages
    BY <2>1 DEF Requests
  <2>4. freed \in [1..MaxPages -> Lanes] /\ \A p \in 1..MaxPages : LaneOK(freed[p])
    BY <1>0, <2>1, <2>3, EnterOK DEF LanesOK, LaneOK
  <2>5. next \in Requests \cup {NoRequest} /\ late \in Requests \cup {NoRequest}
    BY <1>0, <2>1, <2>3, LaneFacts DEF LanesOK, LaneOK, Lanes
  <2>6. local' = IF late = NoRequest THEN freed ELSE [freed EXCEPT ![late.page] = Enter(@, late)]
    BY <1>5 DEF Answer
  <2>7. local' \in [1..MaxPages -> Lanes] /\ \A p \in 1..MaxPages : LaneOK(local'[p])
    <3>1. CASE late = NoRequest
      BY <2>4, <2>6, <3>1
    <3>2. CASE late # NoRequest
      <4>1. late \in Requests /\ late.page \in 1..MaxPages
        BY <2>5, <3>2 DEF Requests
      <4>2. LaneOK(Enter(freed[late.page], late))
        BY <2>4, <4>1, EnterOK
      <4>3. QED
        BY <2>4, <2>6, <3>2, <4>1, <4>2 DEF LaneOK
    <3>3. QED
      BY <3>1, <3>2
  <2>8. LaneOK(shared')
    BY <1>0, <1>5, <2>1, EnterOK DEF Answer, LanesOK
  <2>9. reads' \subseteq Reads
    <3>1. PICK R : R \subseteq {next, late, NoRequest} /\ reads' = (reads \ {r}) \cup Starts(R)
      BY <1>5 DEF Answer
    <3>2. Starts(R) \subseteq Reads
      BY <1>0, <2>5, <3>1, StartsOK DEF ShownOK
    <3>3. QED
      BY <1>0, <3>1, <3>2 DEF LanesOK
  <2>10. version' = version
    BY <1>5 DEF Answer
  <2>11. QED
    BY <2>2, <2>7, <2>8, <2>9, <2>10 DEF LanesOK, LaneOK, Reads
<1>6. CASE Navigate
  <2>1. page + 1 \in 1..MaxPages /\ 0 \in 0..MaxRequests /\ Default \in Filters
    BY <1>6, <1>n, LoadsAssumption DEF Navigate
  <2>2. QED
    BY <1>0, <1>6, <2>1 DEF Navigate, ShownOK, LanesOK, LaneOK, Reads
<1>7. ASSUME NEW f \in Filters, Render(f) PROVE ShownOK' /\ LanesOK'
  BY <1>0, <1>7, <1>n DEF Render, shown, ShownOK, LanesOK, LaneOK, Reads
<1>8. CASE Listen
  BY <1>0, <1>8 DEF Listen, shown, ShownOK, LanesOK, LaneOK, Reads
<1>9. CASE CycleEnds
  <2>1. version' = version + 1 /\ version' \in 0..MaxVersion /\ 0..version \subseteq 0..version'
    BY <1>0, <1>9, <1>n DEF CycleEnds, ShownOK
  <2>2. UNCHANGED <<page, filter, loadsWith, sequence, data, shared, local, reads>>
    BY <1>9 DEF CycleEnds, shown
  <2>3. data' = NoData \/ data' \in [filter : Filters, version : 0..version']
    BY <1>0, <2>1, <2>2 DEF ShownOK
  <2>4. reads' \subseteq Reads'
    BY <1>0, <2>1, <2>2 DEF LanesOK, Reads
  <2>5. QED
    BY <1>0, <2>1, <2>2, <2>3, <2>4 DEF ShownOK, LanesOK, LaneOK
<1>10. CASE UNCHANGED loadVars
  BY <1>0, <1>10 DEF loadVars, shown, ShownOK, LanesOK, LaneOK, Reads
<1>11. QED
  BY <1>1, <1>2, <1>3, <1>4, <1>5, <1>6, <1>7, <1>8, <1>9, <1>10 DEF LoadsNext

-----------------------------------------------------------------------------
(* Where the requests are *)

\* A step that asks for nothing and moves no request.
LEMMA PlacesKept ==
  ASSUME LoadsTypeOK, Places, UNCHANGED <<shared, local>>,
         \A r \in reads' : \E q \in reads : r.request = q.request,
         \A r, q \in reads' : Same(r.request, q.request) => r = q,
         \A r \in Requests \cup {NoRequest} :
           Given(r, page, sequence) => Given(r, page', sequence')
  PROVE  Places'
<1>1. /\ \A r \in reads : r.request \in Requests
      /\ shared.pending \in Requests \cup {NoRequest}
      /\ \A p \in 1..MaxPages : local[p].pending \in Requests \cup {NoRequest}
  BY DEF LoadsTypeOK, Lanes
<1>2. \A r \in reads' : /\ Given(r.request, page', sequence') /\ ~Same(r.request, shared.pending)
                        /\ \A p \in 1..MaxPages : ~Same(r.request, local[p].pending)
  BY <1>1 DEF Places
<1>3. QED
  BY <1>1, <1>2 DEF Places

\* A step that puts the next request in one place.
LEMMA PlacesAsked ==
  ASSUME LoadsTypeOK, Places, NEW kind \in {"first", "background", "user"}, Request(kind),
         NEW waits \in {"shared", "local", "no"}, NEW x, x.request = Asked(kind),
         \/ shared'.pending \in {shared.pending, NoRequest}
         \/ waits = "shared" /\ shared'.pending = Asked(kind),
         \A p \in 1..MaxPages :
            \/ local'[p].pending \in {local[p].pending, NoRequest}
            \/ waits = "local" /\ p = page /\ local'[p].pending = Asked(kind),
         reads' = reads \/ (waits = "no" /\ reads' = reads \cup {x})
  PROVE  Places'
<1> DEFINE a == Asked(kind)
<1>1. /\ a \in Requests /\ a.page = page /\ a.seq = sequence + 1 /\ sequence' = sequence + 1 /\ page' = page
      /\ \A r \in reads : ~Same(r.request, a)
      /\ ~Same(shared.pending, a) /\ \A p \in 1..MaxPages : ~Same(local[p].pending, a)
  BY AskedFacts DEF Request
<1>2. sequence \in Nat /\ page \in Nat \ {0}
  BY LoadsAssumption DEF LoadsTypeOK
<1>3. Given(a, page', sequence') /\ Given(NoRequest, page', sequence') /\ \A r : r.seq \in Nat => (Given(r, page, sequence) => Given(r, page', sequence'))
  BY <1>1, <1>2 DEF Given, NoRequest
<1>4. /\ \A r \in reads : r.request \in Requests /\ r.request.seq \in Nat
      /\ shared.pending \in Requests \cup {NoRequest} /\ shared.pending.seq \in Nat
      /\ \A p \in 1..MaxPages : local[p].pending \in Requests \cup {NoRequest} /\ local[p].pending.seq \in Nat
  BY DEF LoadsTypeOK, Lanes, Requests, NoRequest
<1>5. \A r, q : Same(r, q) <=> Same(q, r)
  BY DEF Same
<1>6. a # NoRequest /\ \A r \in Requests : ~Same(r, NoRequest)
  BY <1>1, NoRequestFacts
<1>7. \A r \in reads' : /\ Given(r.request, page', sequence') /\ r.request \in Requests
                        /\ r \in reads \/ (r = x /\ waits = "no")
  BY <1>1, <1>3, <1>4 DEF Places
<1>8. \A r, q \in reads' : Same(r.request, q.request) => r = q
  BY <1>1, <1>5, <1>7 DEF Places
<1>9. Given(shared'.pending, page', sequence') /\ \A r \in reads' : ~Same(r.request, shared'.pending)
  BY <1>1, <1>3, <1>4, <1>5, <1>6, <1>7 DEF Places
<1>10. ASSUME NEW p \in 1..MaxPages
       PROVE  /\ Given(local'[p].pending, page', sequence')
              /\ local'[p].pending # NoRequest => local'[p].pending.page = p
              /\ \A r \in reads' : ~Same(r.request, local'[p].pending)
              /\ shared'.pending # NoRequest => ~Same(shared'.pending, local'[p].pending)
  <2>1. CASE local'[p].pending = NoRequest
    <3>1. shared'.pending # NoRequest => shared'.pending \in Requests
      BY <1>1, <1>4
    <3>2. QED
      BY <1>3, <1>6, <1>7, <2>1, <3>1
  <2>2. CASE local'[p].pending = local[p].pending
    BY <1>1, <1>3, <1>4, <1>5, <1>6, <1>7, <2>2 DEF Places
  <2>3. CASE waits = "local" /\ p = page /\ local'[p].pending = a
    BY <1>1, <1>3, <1>4, <1>5, <1>6, <1>7, <2>3 DEF Places
  <2>4. QED
    BY <2>1, <2>2, <2>3
<1>11. QED
  BY <1>7, <1>8, <1>9, <1>10 DEF Places

LEMMA AnswerPlaces ==
  ASSUME LoadsTypeOK, Places, NEW r \in reads, NEW ok \in BOOLEAN, Answer(r, ok)
  PROVE  Places'
<1> DEFINE home  == r.request.page
           own   == r.request.kind # "user" /\ local[home].active = r.request
           first == r.request.kind = "first"
           next  == IF own THEN Finished(local[home]).active ELSE NoRequest
           late  == IF first THEN Finished(shared).active ELSE NoRequest
           freed == IF own THEN [local EXCEPT ![home] = Finished(@)] ELSE local
           starts == {next, IF late # NoRequest /\ ~Busy(freed[late.page]) THEN late ELSE NoRequest}
<1>0. /\ r.request \in Requests /\ home \in 1..MaxPages
      /\ \A q \in reads : q.request \in Requests
      /\ LaneOK(shared) /\ local \in [1..MaxPages -> Lanes] /\ \A p \in 1..MaxPages : LaneOK(local[p])
      /\ page' = page /\ sequence' = sequence
  BY TypeParts DEF LanesOK, Reads, Requests, Answer
<1>1. \A a, b : Same(a, b) <=> Same(b, a)
  BY DEF Same
<1>2. /\ shared.pending \in Requests \cup {NoRequest}
      /\ \A p \in 1..MaxPages : local[p].pending \in Requests \cup {NoRequest}
  BY <1>0 DEF LaneOK, Lanes
<1>3. /\ next = IF own THEN local[home].pending ELSE NoRequest
      /\ late = IF first THEN shared.pending ELSE NoRequest
  BY <1>0, LaneFacts DEF LaneOK
<1>4. /\ freed \in [1..MaxPages -> Lanes]
      /\ \A p \in 1..MaxPages : freed[p].pending = IF own /\ p = home THEN NoRequest ELSE local[p].pending
      /\ \A p \in 1..MaxPages : LaneOK(freed[p])
  BY <1>0, LaneFacts, EnterOK DEF LaneOK
<1>5. /\ local' = IF late = NoRequest THEN freed ELSE [freed EXCEPT ![late.page] = Enter(@, late)]
      /\ shared' = IF first THEN Finished(shared) ELSE shared
      /\ reads' = (reads \ {r}) \cup Starts(starts)
  BY DEF Answer
<1>6. shared'.pending = IF first THEN NoRequest ELSE shared.pending
  BY <1>0, <1>5, LaneFacts DEF LaneOK
<1>7. late # NoRequest => late \in Requests /\ late.page \in 1..MaxPages
  BY <1>2, <1>3 DEF Requests
<1>8. ASSUME NEW p \in 1..MaxPages
      PROVE  \/ local'[p].pending = freed[p].pending
             \/ local'[p].pending = NoRequest
             \/ /\ late # NoRequest /\ p = late.page /\ Busy(freed[late.page])
                /\ local'[p].pending = late
  <2>1. CASE late = NoRequest \/ p # late.page
    BY <1>4, <1>5, <1>7, <2>1
  <2>2. CASE late # NoRequest /\ p = late.page
    <3>1. local'[p] = Enter(freed[p], late)
      BY <1>4, <1>5, <1>7, <2>2
    <3>2. QED
      BY <1>4, <1>7, <2>2, <3>1, LaneFacts DEF LaneOK
  <2>3. QED
    BY <2>1, <2>2
\* What is started has waited: in its page's lane, or in the shared one.
<1>9. \A q \in Starts(starts) : \/ q = Started(next) /\ next # NoRequest
                                \/ q = Started(late) /\ late # NoRequest /\ ~Busy(freed[late.page])
  BY DEF Starts
<1>10. \A a : Started(a).request = a
  BY DEF Started
<1>11. /\ next # NoRequest => /\ own /\ next \in Requests /\ Given(next, page, sequence)
                              /\ \A q \in reads : ~Same(q.request, next)
       /\ late # NoRequest => /\ first /\ late \in Requests /\ Given(late, page, sequence)
                              /\ \A q \in reads : ~Same(q.request, late)
                              /\ \A p \in 1..MaxPages : ~Same(late, local[p].pending)
       /\ next # NoRequest /\ late # NoRequest => ~Same(next, late)
  BY <1>0, <1>1, <1>2, <1>3 DEF Places
<1>12. \A q \in reads' :
         /\ q.request \in Requests /\ Given(q.request, page, sequence)
         /\ q \in reads \/ q \in Starts(starts)
  BY <1>0, <1>5, <1>9, <1>10, <1>11 DEF Places
<1>13. ASSUME NEW q \in reads', NEW s \in reads', Same(q.request, s.request) PROVE q = s
  BY <1>1, <1>9, <1>10, <1>11, <1>12, <1>13 DEF Places
<1>14. Given(NoRequest, page, sequence)
  BY NoRequestFacts, LoadsAssumption DEF Given, LoadsTypeOK
<1>15. ASSUME NEW q \in reads' PROVE ~Same(q.request, shared'.pending)
  <2>1. CASE first
    BY <1>6, <1>12, <2>1, NoRequestFacts
  <2>2. CASE ~first
    <3>1. late = NoRequest /\ shared'.pending = shared.pending
      BY <1>3, <1>6, <2>2
    <3>2. q \in reads \/ (own /\ q.request = local[home].pending)
      BY <1>3, <1>9, <1>10, <1>11, <1>12, <3>1
    <3>3. QED
      BY <1>0, <1>1, <1>12, <3>1, <3>2, NoRequestFacts DEF Places
  <2>3. QED
    BY <2>1, <2>2
<1>16. ASSUME NEW p \in 1..MaxPages
       PROVE  /\ Given(local'[p].pending, page, sequence)
              /\ local'[p].pending # NoRequest => local'[p].pending.page = p
              /\ \A q \in reads' : ~Same(q.request, local'[p].pending)
              /\ shared'.pending # NoRequest => ~Same(shared'.pending, local'[p].pending)
  <2>1. CASE local'[p].pending = NoRequest
    BY <1>2, <1>6, <1>12, <1>14, <2>1, NoRequestFacts
  <2>2. CASE late # NoRequest /\ p = late.page /\ Busy(freed[late.page]) /\ local'[p].pending = late
    <3>1. shared'.pending = NoRequest
      BY <1>6, <1>11, <2>2
    <3>2. \A q \in reads' : q \in reads \/ (q = Started(next) /\ next # NoRequest)
      BY <1>9, <1>12, <2>2
    <3>3. QED
      BY <1>10, <1>11, <2>2, <3>1, <3>2
  <2>3. CASE local'[p].pending # NoRequest /\ local'[p].pending = freed[p].pending
    <3>1. local'[p].pending = local[p].pending /\ ~(own /\ p = home)
      BY <1>4, <2>3
    <3>2. next # NoRequest => ~Same(next, local[p].pending)
      <4>1. next # NoRequest => next.page = home
        BY <1>0, <1>3 DEF Places
      <4>2. local[p].pending.page = p
        BY <2>3, <3>1 DEF Places
      <4>3. QED
        BY <1>11, <3>1, <4>1, <4>2 DEF Same
    <3>3. \A q \in reads' : ~Same(q.request, local[p].pending)
      BY <1>9, <1>10, <1>11, <1>12, <3>2 DEF Places
    <3>4. QED
      BY <1>6, <3>1, <3>3 DEF Places
  <2>4. QED
    BY <1>8, <2>1, <2>2, <2>3
<1>17. Given(shared'.pending, page, sequence)
  BY <1>6, <1>14 DEF Places
<1>18. QED
  BY <1>0, <1>12, <1>13, <1>15, <1>16, <1>17 DEF Places

LEMMA StepPlaces == LoadsTypeOK /\ Places /\ [LoadsNext]_loadVars => Places'
<1> SUFFICES ASSUME LoadsTypeOK, Places, [LoadsNext]_loadVars PROVE Places'
  OBVIOUS
<1>0. /\ LaneOK(shared) /\ local \in [1..MaxPages -> Lanes] /\ \A p \in 1..MaxPages : LaneOK(local[p])
      /\ reads \subseteq Reads /\ page \in 1..MaxPages /\ sequence \in Nat
  BY TypeParts DEF LanesOK, ShownOK
<1>1. CASE LoadEffect
  <2> DEFINE first == sequence = 0 /\ local[page] = IdleLane
             kind  == IF first THEN "first" ELSE "user"
             read  == [request |-> Asked(kind), filter |-> filter, saw |-> Unseen]
  <2>1. Request("user") /\ kind \in {"first", "background", "user"} /\ Request(kind)
        /\ read.request = Asked(kind) /\ Asked(kind) \in Requests
    BY <1>1, AskedFacts DEF LoadEffect, Request
  <2>2. CASE first /\ Busy(shared)
    <3>1. shared'.pending = Asked(kind) /\ local' = local /\ reads' = reads
      BY <1>0, <1>1, <2>1, <2>2, LaneFacts DEF LoadEffect, LaneOK
    <3>2. QED
      BY <2>1, <3>1, PlacesAsked
  <2>3. CASE first /\ ~Busy(shared)
    <3>1. shared'.pending = NoRequest /\ reads' = reads \cup {read}
          /\ local' = [local EXCEPT ![page] = Enter(local[page], Asked(kind))]
      BY <1>0, <1>1, <2>1, <2>3, LaneFacts DEF LoadEffect, LaneOK
    <3>2. Enter(local[page], Asked(kind)).pending = NoRequest
      BY <2>3 DEF Enter, IdleLane, Busy
    <3>3. \A p \in 1..MaxPages : local'[p].pending \in {local[p].pending, NoRequest}
      BY <1>0, <3>1, <3>2
    <3>4. QED
      BY <2>1, <3>1, <3>3, PlacesAsked
  <2>4. CASE ~first
    <3>1. shared' = shared /\ local' = local /\ reads' = reads \cup {read}
      BY <1>1, <2>4 DEF LoadEffect
    <3>2. QED
      BY <2>1, <3>1, PlacesAsked
  <2>5. QED
    BY <2>2, <2>3, <2>4
<1>2. CASE Reload
  <2>1. Asked("user") \in Requests /\ Started(Asked("user")).request = Asked("user")
    BY <1>2, AskedFacts DEF Reload, Request, Started
  <2>2. reads' = reads \cup {Started(Asked("user"))} /\ shared' = shared /\ local' = local
    BY <1>2, <2>1, NoRequestFacts DEF Reload, Starts
  <2>3. QED
    BY <1>2, <2>1, <2>2, PlacesAsked DEF Reload
<1>3. CASE Debounced
  <2> DEFINE a == Asked("background")
  <2>1. Request("background") /\ a \in Requests /\ Started(a).request = a
    BY <1>3, AskedFacts DEF Debounced, Request, Started
  <2>2. local' = [local EXCEPT ![page] = Enter(local[page], a)] /\ shared' \in {shared, Finished(shared)}
    BY <1>3 DEF Debounced
  <2>3. shared'.pending \in {shared.pending, NoRequest}
    BY <1>0, <2>1, <2>2, LaneFacts DEF LaneOK
  <2>4. Enter(local[page], a).pending = IF Busy(local[page]) THEN a ELSE NoRequest
    BY <1>0, <2>1, LaneFacts DEF LaneOK
  <2>5. CASE Busy(local[page])
    <3>1. reads' = reads
      BY <1>3, <2>5 DEF Debounced
    <3>2. \A p \in 1..MaxPages : local'[p].pending = local[p].pending \/ (p = page /\ local'[p].pending = a)
      BY <1>0, <2>2, <2>4, <2>5
    <3>3. QED
      BY <2>1, <2>3, <3>1, <3>2, PlacesAsked
  <2>6. CASE ~Busy(local[page])
    <3>1. reads' = reads \cup {Started(a)}
      BY <1>3, <2>1, <2>6, NoRequestFacts DEF Debounced, Starts
    <3>2. \A p \in 1..MaxPages : local'[p].pending \in {local[p].pending, NoRequest}
      BY <1>0, <2>2, <2>4, <2>6
    <3>3. QED
      BY <2>1, <2>3, <3>1, <3>2, PlacesAsked
  <2>7. QED
    BY <2>5, <2>6
<1>4. ASSUME NEW r \in reads, See(r) PROVE Places'
  <2>1. r \in Reads /\ [r EXCEPT !.saw = version].request = r.request
    BY <1>0 DEF Reads
  <2>2. reads' = (reads \ {r}) \cup {[r EXCEPT !.saw = version]} /\ page' = page /\ sequence' = sequence
    BY <1>4 DEF See
  <2>3. \A q, s \in reads' : Same(q.request, s.request) => q = s
    BY <2>1, <2>2 DEF Places
  <2>4. \A q \in reads' : \E s \in reads : q.request = s.request
    BY <2>1, <2>2
  <2>5. QED
    BY <1>4, <2>2, <2>3, <2>4, PlacesKept DEF See
<1>5. ASSUME NEW r \in reads, NEW ok \in BOOLEAN, Answer(r, ok) PROVE Places'
  BY <1>5, AnswerPlaces
<1>6. ASSUME UNCHANGED <<shared, local, reads>>,
             (page' = page /\ sequence' >= sequence /\ sequence' \in Nat) \/ page' = page + 1
      PROVE  Places'
  <2>1. \A r \in Requests \cup {NoRequest} : r.page \in Nat /\ r.seq \in Nat
    BY DEF Requests, NoRequest
  <2>2. \A r \in Requests \cup {NoRequest} :
          Given(r, page, sequence) => Given(r, page', sequence')
    BY <1>0, <1>6, <2>1, LoadsAssumption DEF Given
  <2>3. \A r, q \in reads' : Same(r.request, q.request) => r = q
    BY <1>6 DEF Places
  <2>4. QED
    BY <1>6, <2>2, <2>3, PlacesKept
<1>7. CASE Navigate
  BY <1>6, <1>7 DEF Navigate
<1>8. ASSUME NEW f \in Filters, Render(f) PROVE Places'
  BY <1>0, <1>6, <1>8 DEF Render
<1>9. CASE Listen
  BY <1>0, <1>6, <1>9 DEF Listen
<1>10. CASE CycleEnds
  BY <1>0, <1>6, <1>10 DEF CycleEnds
<1>11. CASE UNCHANGED loadVars
  BY <1>0, <1>6, <1>11 DEF loadVars
<1>12. QED
  BY <1>1, <1>2, <1>3, <1>4, <1>5, <1>7, <1>8, <1>9, <1>10, <1>11 DEF LoadsNext

-----------------------------------------------------------------------------
(* What is shown *)

LEMMA StepFresh == Inv /\ [LoadsNext]_loadVars => Fresh'
<1> SUFFICES ASSUME Inv, [LoadsNext]_loadVars PROVE Fresh'
  OBVIOUS
<1>0. /\ LoadsTypeOK /\ Places /\ Fresh /\ version \in Nat /\ sequence \in Nat /\ page \in 1..MaxPages
      /\ reads \subseteq Reads /\ data.version \in Int /\ MaxPages \in Nat
      /\ \A p \in 1..MaxPages : LaneOK(local[p])
  BY TypeParts, LoadsAssumption DEF Inv, ShownOK, LanesOK, NoData
<1>n. NoData.version = -1 /\ Unseen = -1
  BY DEF NoData, Unseen
<1>s. \A a : Started(a).saw = Unseen
  BY DEF Started
<1>1. \A r \in reads : r.request.page \in Nat /\ r.request.seq \in Nat /\ r.saw \in {Unseen} \cup 0..version
  BY <1>0 DEF Reads, Requests
\* The requests so far are not the next one, nor those of the next page.
<1>2. ASSUME UNCHANGED <<data, version>>, (page' = page /\ sequence' = sequence + 1) \/ page' = page + 1,
             \A r \in reads' : r \in reads \/ r.saw = Unseen
      PROVE  Fresh'
  <2>1. \A r \in reads : ~(r.request.page = page' /\ r.request.seq = sequence')
          \/ page' = page + 1
    BY <1>0, <1>1, <1>2 DEF Places, Given
  <2>2. \A r \in reads : page' = page + 1 => r.request.page # page'
    BY <1>0, <1>1 DEF Places, Given
  <2>3. QED
    BY <1>0, <1>2, <2>1, <2>2 DEF Fresh, Current
<1>3. ASSUME UNCHANGED <<data, reads, page, sequence>>, version' \in {version, version + 1} PROVE Fresh'
  BY <1>0, <1>3 DEF Fresh, Current
<1>4. CASE LoadEffect
  BY <1>2, <1>4 DEF LoadEffect, Request
<1>5. CASE Reload
  BY <1>2, <1>5, <1>s DEF Reload, Request, Starts
<1>6. CASE Debounced
  <2>1. \A r \in reads' : r \in reads \/ r \in Starts({Asked("background")})
    BY <1>6 DEF Debounced
  <2>2. QED
    BY <1>2, <1>6, <1>s, <2>1 DEF Debounced, Request, Starts
<1>7. ASSUME NEW r \in reads, See(r) PROVE Fresh'
  <2>1. [r EXCEPT !.saw = version].saw = version
    BY <1>0 DEF Reads
  <2>2. QED
    BY <1>0, <1>7, <2>1 DEF See, shown, Fresh, Current
<1>8. ASSUME NEW r \in reads, NEW ok \in BOOLEAN, Answer(r, ok) PROVE Fresh'
  <2>1. \A q \in reads' : (q \in reads /\ q # r) \/ q.saw = Unseen
    BY <1>8, <1>s DEF Answer, Starts
  <2>2. UNCHANGED <<version, page, sequence>>
    BY <1>8 DEF Answer
  <2>3. CASE data' = data
    BY <1>0, <2>1, <2>2, <2>3 DEF Fresh, Current
  <2>4. CASE Current(r.request) /\ data' = [filter |-> r.filter, version |-> r.saw]
    <3>1. data'.version = r.saw /\ r.saw <= version
      <4>1. r.saw \in 0..version
        BY <1>1, <1>8 DEF Answer
      <4>2. QED
        BY <1>0, <2>4, <4>1
    <3>2. \A q \in reads' : q.saw # Unseen => ~Current(q.request)
      BY <1>0, <2>1, <2>4 DEF Places, Same, Current
    <3>3. QED
      BY <2>2, <3>1, <3>2 DEF Fresh, Current
  <2>5. QED
    BY <1>8, <2>3, <2>4 DEF Answer, Show
<1>9. CASE Navigate
  <2>1. UNCHANGED <<version, reads>> /\ data' = NoData /\ page' = page + 1
    BY <1>9 DEF Navigate
  <2>2. \A r \in reads : r.request.page # page'
    BY <1>0, <1>1, <2>1 DEF Places, Given
  <2>3. QED
    BY <1>0, <1>n, <2>1, <2>2 DEF Fresh, Current
<1>10. ASSUME NEW f \in Filters, Render(f) PROVE Fresh'
  BY <1>2, <1>10 DEF Render, shown
<1>11. CASE Listen
  BY <1>3, <1>11 DEF Listen, shown
<1>12. CASE CycleEnds
  BY <1>3, <1>12 DEF CycleEnds, shown
<1>13. CASE UNCHANGED loadVars
  BY <1>3, <1>13 DEF loadVars, shown
<1>14. QED
  BY <1>4, <1>5, <1>6, <1>7, <1>8, <1>9, <1>10, <1>11, <1>12, <1>13 DEF LoadsNext

LEMMA Invariance == LoadsSpec => []Inv
<1>1. LoadsInit => Places /\ Fresh
  <2> SUFFICES ASSUME LoadsInit PROVE Places /\ Fresh
    OBVIOUS
  <2>1. reads = {} /\ shared.pending = NoRequest /\ \A p \in 1..MaxPages : local[p].pending = NoRequest
    BY DEF LoadsInit, IdleLane
  <2>2. Given(NoRequest, page, sequence) /\ data.version <= version
    BY DEF LoadsInit, Given, NoRequest, NoData
  <2>3. QED
    BY <2>1, <2>2 DEF Places, Fresh
<1>2. Inv /\ [LoadsNext]_loadVars => Inv'
  BY StepLoadTypes, StepPlaces, StepFresh DEF Inv
<1>3. QED
  BY InitLoadTypes, <1>1, <1>2, PTL DEF Inv, LoadsSpec

\* Lanes, reads and what is shown are always well formed.
THEOREM LoadsTypeCorrect == LoadsSpec => []LoadsTypeOK
<1>1. Inv => LoadsTypeOK
  BY DEF Inv
<1>2. QED
  BY Invariance, <1>1, PTL

\* use-latest-request-guard.ts drops every answer but the latest request's: whatever
\* lanes the requests go through and in whatever order they are answered, a page
\* never goes back to older data.
THEOREM DataNeverGoesBack == LoadsSpec => NeverOlder
<1>1. Inv /\ [LoadsNext]_loadVars
        => [page' = page /\ data'.filter = data.filter => data'.version >= data.version]_loadVars
  <2> SUFFICES ASSUME Inv, [LoadsNext]_loadVars, page' = page PROVE data'.version >= data.version
    OBVIOUS
  <2>0. data.version \in Int /\ page \in Nat
    BY LoadsAssumption DEF Inv, LoadsTypeOK, NoData
  <2>1. CASE data' = data
    BY <2>0, <2>1
  <2>2. ASSUME NEW r \in reads, NEW ok \in BOOLEAN, Answer(r, ok), data' # data
        PROVE  data'.version >= data.version
    BY <2>2 DEF Inv, Fresh, Answer, Show
  <2>3. QED
    BY <2>0, <2>1, <2>2 DEF LoadsNext, loadVars, shown, LoadEffect, Reload, Debounced, Request, See,
       Navigate, Render, Listen, CycleEnds
<1>2. QED
  BY Invariance, <1>1, PTL DEF LoadsSpec, NeverOlder

-----------------------------------------------------------------------------
(* What a spinner waits for *)

\* A new request is the current one, and is read or waits.
LEMMA RequestsAreUnderWay == Inv /\ (LoadEffect \/ Reload \/ Debounced) => UnderWay'
<1> SUFFICES ASSUME Inv, LoadEffect \/ Reload \/ Debounced PROVE UnderWay'
  OBVIOUS
<1>0. /\ LoadsTypeOK /\ Places /\ page \in 1..MaxPages /\ sequence \in Nat
      /\ LaneOK(shared) /\ local \in [1..MaxPages -> Lanes] /\ \A p \in 1..MaxPages : LaneOK(local[p])
  BY TypeParts DEF Inv, LanesOK, ShownOK
<1>s. \A a : Started(a).request = a
  BY DEF Started
<1>1. ASSUME NEW kind \in {"first", "background", "user"}, Request(kind),
             \/ \E r \in reads' : r.request = Asked(kind)
             \/ shared'.pending = Asked(kind)
             \/ local'[page].pending = Asked(kind)
      PROVE  UnderWay'
  <2>1. page' = page /\ Asked(kind).page = page' /\ Asked(kind).seq = sequence'
    BY <1>0, <1>1, AskedFacts DEF Request
  <2>2. QED
    BY <1>1, <2>1 DEF UnderWay, Current
<1>2. CASE LoadEffect
  <2> DEFINE kind == IF sequence = 0 /\ local[page] = IdleLane THEN "first" ELSE "user"
  <2>1. Request(kind) /\ Asked(kind) \in Requests
    BY <1>0, <1>2, AskedFacts DEF LoadEffect, Request
  <2>2. \/ \E r \in reads' : r.request = Asked(kind)
        \/ shared'.pending = Asked(kind)
    <3> DEFINE read == [request |-> Asked(kind), filter |-> filter, saw |-> Unseen]
    <3>1. CASE kind = "first" /\ Busy(shared)
      <4>1. shared' = Enter(shared, Asked(kind))
        BY <1>2, <3>1 DEF LoadEffect
      <4>2. QED
        BY <1>0, <2>1, <3>1, <4>1, LaneFacts DEF LaneOK
    <3>2. CASE ~(kind = "first" /\ Busy(shared))
      <4>1. reads' = reads \cup {read}
        BY <1>2, <3>2 DEF LoadEffect
      <4>2. read \in reads' /\ read.request = Asked(kind)
        BY <4>1
      <4>3. QED
        BY <4>2
    <3>3. QED
      BY <3>1, <3>2
  <2>3. QED
    BY <1>1, <2>1, <2>2
<1>3. CASE Reload
  <2>1. Asked("user") \in Requests
    BY <1>0, <1>3, AskedFacts DEF Reload, Request
  <2>2. Started(Asked("user")) \in reads'
    BY <1>3, <2>1, NoRequestFacts DEF Reload, Starts
  <2>3. QED
    BY <1>1, <1>3, <1>s, <2>2 DEF Reload
<1>4. CASE Debounced
  <2> DEFINE a == Asked("background")
  <2>1. a \in Requests /\ Request("background")
    BY <1>0, <1>4, AskedFacts DEF Debounced, Request
  <2>2. CASE Busy(local[page])
    <3>1. local'[page].pending = a
      BY <1>0, <1>4, <2>1, <2>2, LaneFacts DEF Debounced, LaneOK
    <3>2. QED
      BY <1>1, <2>1, <3>1
  <2>3. CASE ~Busy(local[page])
    <3>1. Started(a) \in reads'
      BY <1>4, <2>1, <2>3, NoRequestFacts DEF Debounced, Starts
    <3>2. QED
      BY <1>1, <1>s, <2>1, <3>1
  <2>4. QED
    BY <2>2, <2>3
<1>5. QED
  BY <1>2, <1>3, <1>4

\* An answer to another request leaves the current one on its way, unless a first
\* load displaces it from the lane of its page: the spinner ends with it.
LEMMA AnswerUnderWay ==
  ASSUME Inv, NEW r \in reads, NEW ok \in BOOLEAN, Answer(r, ok), UnderWay
  PROVE  UnderWay' \/ Current(r.request) \/ (outrun' /\ ~loading')
<1>0. /\ LoadsTypeOK /\ Places /\ page \in 1..MaxPages /\ sequence \in Nat
      /\ LaneOK(shared) /\ local \in [1..MaxPages -> Lanes] /\ \A p \in 1..MaxPages : LaneOK(local[p])
      /\ reads \subseteq Reads
  BY TypeParts DEF Inv, LanesOK, ShownOK
<1>s. \A a : Started(a).request = a
  BY DEF Started
<1> DEFINE home  == r.request.page
           own   == r.request.kind # "user" /\ local[home].active = r.request
           first == r.request.kind = "first"
           next  == IF own THEN Finished(local[home]).active ELSE NoRequest
           late  == IF first THEN Finished(shared).active ELSE NoRequest
           freed == IF own THEN [local EXCEPT ![home] = Finished(@)] ELSE local
           displaced == IF late = NoRequest THEN NoRequest ELSE freed[late.page].pending
<1>1. /\ UNCHANGED <<page, sequence>>
      /\ loading' => ~Current(displaced)
      /\ displaced # NoRequest => outrun'
      /\ local' = IF late = NoRequest THEN freed ELSE [freed EXCEPT ![late.page] = Enter(@, late)]
      /\ shared' = IF first THEN Finished(shared) ELSE shared
      /\ reads' = (reads \ {r})
                    \cup Starts({next, IF late # NoRequest /\ ~Busy(freed[late.page])
                                       THEN late ELSE NoRequest})
  BY DEF Answer, Show
<1>2. /\ r.request \in Requests /\ home \in 1..MaxPages
      /\ shared.pending \in Requests \cup {NoRequest}
      /\ local[page].pending \in Requests \cup {NoRequest}
  BY <1>0 DEF Reads, Requests, LaneOK, Lanes
<1>3. /\ next = IF own THEN local[home].pending ELSE NoRequest
      /\ late = IF first THEN shared.pending ELSE NoRequest
  BY <1>0, <1>2, LaneFacts DEF LaneOK
<1>4. /\ freed \in [1..MaxPages -> Lanes] /\ \A p \in 1..MaxPages : LaneOK(freed[p])
      /\ ~(own /\ page = home) => freed[page] = local[page]
  BY <1>0, <1>2, EnterOK DEF LaneOK
<1>5. ~Current(NoRequest)
  BY <1>0, NoRequestFacts DEF Current
<1>6. SUFFICES ASSUME ~Current(r.request) PROVE UnderWay' \/ (outrun' /\ ~loading')
  OBVIOUS
<1>7. CASE \E q \in reads : Current(q.request)
  <2>1. PICK q \in reads' : Current(q.request)
    BY <1>1, <1>6, <1>7
  <2>2. QED
    BY <1>1, <2>1 DEF UnderWay, Current
<1>8. CASE Current(shared.pending)
  <2>1. CASE ~first
    BY <1>1, <1>8, <2>1 DEF UnderWay, Current
  <2>2. CASE first
    <3>1. late = shared.pending /\ late # NoRequest /\ late \in Requests /\ late.page = page
      BY <1>2, <1>3, <1>5, <1>8, <2>2 DEF Current
    <3>2. CASE Busy(freed[page])
      <4>1. local'[page].pending = late
        BY <1>0, <1>1, <1>4, <3>1, <3>2, LaneFacts DEF LaneOK
      <4>2. QED
        BY <1>1, <1>8, <3>1, <4>1 DEF UnderWay, Current
    <3>3. CASE ~Busy(freed[page])
      <4>1. Started(late) \in reads'
        BY <1>1, <3>1, <3>3 DEF Starts
      <4>2. QED
        BY <1>s, <1>1, <1>8, <3>1, <4>1 DEF UnderWay, Current
    <3>4. QED
      BY <3>2, <3>3
  <2>3. QED
    BY <2>1, <2>2
<1>9. CASE Current(local[page].pending)
  <2>1. CASE own /\ page = home
    <3>1. next = local[page].pending /\ next # NoRequest
      BY <1>3, <1>5, <1>9, <2>1
    <3>2. Started(next) \in reads'
      BY <1>1, <3>1 DEF Starts
    <3>3. QED
      BY <1>s, <1>1, <1>9, <3>1, <3>2 DEF UnderWay, Current
  <2>2. CASE ~(own /\ page = home) /\ (late = NoRequest \/ late.page # page)
    <3>1. local'[page] = local[page]
      <4>1. CASE late = NoRequest
        BY <1>1, <1>4, <2>2, <4>1
      <4>2. CASE late # NoRequest /\ late.page # page
        BY <1>0, <1>1, <1>4, <2>2, <4>2
      <4>3. QED
        BY <2>2, <4>1, <4>2
    <3>2. QED
      BY <1>1, <1>9, <3>1 DEF UnderWay, Current
  <2>3. CASE ~(own /\ page = home) /\ late # NoRequest /\ late.page = page
    <3>1. displaced = local[page].pending
      BY <1>4, <2>3
    <3>2. QED
      BY <1>1, <1>5, <1>9, <3>1
  <2>4. QED
    BY <2>1, <2>2, <2>3
<1>10. QED
  BY <1>7, <1>8, <1>9 DEF UnderWay

LEMMA StepSpinner == Inv /\ SpinnerHasALoad /\ [LoadsNext]_loadVars => SpinnerHasALoad'
<1> SUFFICES ASSUME Inv, SpinnerHasALoad, [LoadsNext]_loadVars PROVE SpinnerHasALoad'
  OBVIOUS
<1>0. reads \subseteq Reads
  BY TypeParts DEF Inv, LanesOK
<1>1. CASE LoadEffect \/ Reload \/ Debounced
  BY <1>1, RequestsAreUnderWay DEF SpinnerHasALoad
<1>2. ASSUME NEW r \in reads, See(r) PROVE SpinnerHasALoad'
  <2>1. [r EXCEPT !.saw = version].request = r.request
    BY <1>0 DEF Reads
  <2>2. \A q \in reads : \E s \in reads' : s.request = q.request
    BY <1>2, <2>1 DEF See
  <2>3. UNCHANGED <<loading, due, page, sequence, shared, local>>
    BY <1>2 DEF See, shown
  <2>4. QED
    BY <2>2, <2>3 DEF SpinnerHasALoad, UnderWay, Current
<1>3. ASSUME NEW r \in reads, NEW ok \in BOOLEAN, Answer(r, ok) PROVE SpinnerHasALoad'
  <2>1. due' = due /\ (loading' => loading /\ ~Current(r.request))
    BY <1>3 DEF Answer, Show
  <2>2. QED
    BY <1>3, <2>1, AnswerUnderWay DEF SpinnerHasALoad
<1>4. CASE Navigate
  BY <1>4 DEF Navigate, SpinnerHasALoad
<1>5. ASSUME NEW f \in Filters, Render(f) PROVE SpinnerHasALoad'
  BY <1>5 DEF Render, SpinnerHasALoad
<1>6. ASSUME UNCHANGED <<loading, due, page, sequence, shared, local, reads>> PROVE SpinnerHasALoad'
  BY <1>6 DEF SpinnerHasALoad, UnderWay, Current
<1>7. CASE Listen \/ CycleEnds \/ UNCHANGED loadVars
  BY <1>6, <1>7 DEF Listen, CycleEnds, loadVars, shown
<1>8. QED
  BY <1>1, <1>2, <1>3, <1>4, <1>5, <1>7 DEF LoadsNext

\* A page that shows its spinner has a load to wait for, however the two lanes
\* displace and start what waits in them (latest-wins-scheduler.ts).
THEOREM SpinnersHaveLoads == LoadsSpec => []SpinnerHasALoad
<1>1. LoadsInit => SpinnerHasALoad
  BY DEF LoadsInit, SpinnerHasALoad
<1>2. QED
  BY Invariance, StepSpinner, <1>1, PTL DEF LoadsSpec

-----------------------------------------------------------------------------
(* What a page at rest shows *)

\* A load of the current request reads with the page's present dependencies, unless
\* an effect is due that replaces it.
Ready ==
  ~due => /\ loadsWith = filter
          /\ \A r \in reads : Current(r.request) => r.filter = filter

\* A cycle that ends while the current request is being read is one that the page
\* missed or one whose debounce timer is set.
UpToDate ==
  ~missed /\ ~debounce => \A r \in reads : Current(r.request) => r.saw \in {Unseen, version}

\* RestShowsTheLatest, also of a page that does not listen yet.
Rested ==
  ~due /\ ~UnderWay /\ ~error /\ ~outrun =>
    /\ data.filter = filter
    /\ ~debounce /\ ~missed => data.version = version

AllSettled == Ready /\ UpToDate /\ Rested

\* A step that asks for something.
LEMMA AskSettles == Inv /\ AllSettled /\ (LoadEffect \/ Reload \/ Debounced) => AllSettled'
<1> SUFFICES ASSUME Inv, AllSettled, LoadEffect \/ Reload \/ Debounced PROVE AllSettled'
  OBVIOUS
<1>0. /\ LoadsTypeOK /\ Places /\ page \in Nat /\ sequence \in Nat /\ reads \subseteq Reads
  BY TypeParts, LoadsAssumption DEF Inv, ShownOK, LanesOK
<1>1. page' = page /\ sequence' = sequence + 1 /\ filter' = filter
  BY DEF LoadEffect, Reload, Debounced, Request
<1>2. \A r \in reads : ~Current(r.request)'
  <2>1. \A r \in reads : r.request.page \in Nat /\ r.request.seq \in Nat
    BY <1>0 DEF Reads, Requests
  <2>2. QED
    BY <1>0, <1>1, <2>1 DEF Places, Given, Current
<1>3. \A r \in reads' : r \in reads \/ (r.saw = Unseen /\ r.filter = loadsWith')
  BY DEF LoadEffect, Reload, Debounced, Starts, Started
<1>4. ~due' => loadsWith' = filter'
  BY <1>1 DEF LoadEffect, Reload, Debounced, AllSettled, Ready
<1>5. QED
  BY <1>2, <1>3, <1>4, RequestsAreUnderWay DEF AllSettled, Ready, UpToDate, Rested

\* A step that takes an answer.
LEMMA AnswerSettles ==
  ASSUME Inv, AllSettled, NEW r \in reads, NEW ok \in BOOLEAN, Answer(r, ok)
  PROVE  AllSettled'
<1>0. reads \subseteq Reads /\ Places
  BY TypeParts DEF Inv, LanesOK
<1>1. /\ UNCHANGED <<version, page, filter, loadsWith, due, sequence, debounce, missed>>
      /\ \A q \in reads' : (q \in reads /\ q # r) \/ (q.saw = Unseen /\ q.filter = loadsWith)
  <2>1. \A a : Started(a).saw = Unseen /\ Started(a).filter = loadsWith
    BY DEF Started
  <2>2. QED
    BY <2>1 DEF Answer, Starts
<1>2. Ready'
  BY <1>1 DEF AllSettled, Ready, Current
<1>3. UpToDate'
  BY <1>1 DEF AllSettled, UpToDate, Current
<1>4. Rested'
  <2>1. SUFFICES ASSUME ~due', ~UnderWay', ~error', ~outrun'
                 PROVE  /\ data'.filter = filter'
                        /\ ~debounce' /\ ~missed' => data'.version = version'
    BY DEF Rested
  <2>2. ~error /\ ~outrun
    BY <2>1 DEF Answer, Show
  <2>3. CASE Current(r.request)
    <3>1. data' = [filter |-> r.filter, version |-> r.saw] /\ r.saw # Unseen
      BY <2>1, <2>3 DEF Answer, Show
    <3>2. r.filter = filter /\ (~debounce /\ ~missed => r.saw = version)
      BY <1>1, <2>1, <2>3, <3>1 DEF AllSettled, Ready, UpToDate
    <3>3. QED
      BY <1>1, <3>1, <3>2
  <2>4. CASE ~Current(r.request)
    <3>1. data' = data
      BY <2>4 DEF Answer, Show
    <3>2. ~UnderWay
      BY <2>1, <2>4, AnswerUnderWay
    <3>3. QED
      BY <1>1, <2>1, <2>2, <3>1, <3>2 DEF AllSettled, Rested
  <2>5. QED
    BY <2>3, <2>4
<1>5. QED
  BY <1>2, <1>3, <1>4 DEF AllSettled

LEMMA StepSettled == Inv /\ AllSettled /\ [LoadsNext]_loadVars => AllSettled'
<1> SUFFICES ASSUME Inv, AllSettled, [LoadsNext]_loadVars PROVE AllSettled'
  OBVIOUS
<1>0. /\ Places /\ page \in Nat /\ sequence \in Nat /\ version \in Nat /\ reads \subseteq Reads
      /\ debounce \in BOOLEAN
  BY TypeParts, LoadsAssumption DEF Inv, ShownOK, LanesOK, FlagsOK
<1>1. CASE LoadEffect \/ Reload \/ Debounced
  BY <1>1, AskSettles
<1>2. ASSUME NEW r \in reads, See(r) PROVE AllSettled'
  <2> DEFINE seen == [r EXCEPT !.saw = version]
  <2>1. seen.request = r.request /\ seen.filter = r.filter /\ seen.saw = version
    BY <1>0 DEF Reads
  <2>2. /\ reads' = (reads \ {r}) \cup {seen}
        /\ UNCHANGED <<version, page, filter, loadsWith, due, sequence, data, error, debounce,
                       shared, local, missed, outrun>>
    BY <1>2 DEF See, shown
  <2>3. UnderWay => UnderWay'
    BY <2>1, <2>2 DEF UnderWay, Current
  <2>4. Ready' /\ UpToDate'
    BY <2>1, <2>2 DEF AllSettled, Ready, UpToDate, Current
  <2>5. Rested'
    BY <2>2, <2>3 DEF AllSettled, Rested
  <2>6. QED
    BY <2>4, <2>5 DEF AllSettled
<1>3. ASSUME NEW r \in reads, NEW ok \in BOOLEAN, Answer(r, ok) PROVE AllSettled'
  BY <1>3, AnswerSettles
\* The requests so far are not the current one any more.
<1>4. CASE Navigate \/ \E f \in Filters : Render(f)
  <2>1. due' /\ reads' = reads /\ (page' = page + 1 \/ (page' = page /\ sequence' = sequence + 1))
    BY <1>4 DEF Navigate, Render
  <2>2. \A r \in reads : r.request.page \in Nat /\ r.request.seq \in Nat
    BY <1>0 DEF Reads, Requests
  <2>3. \A r \in reads : ~Current(r.request)'
    BY <1>0, <2>1, <2>2 DEF Places, Given, Current
  <2>4. QED
    BY <2>1, <2>3 DEF AllSettled, Ready, UpToDate, Rested
<1>5. CASE CycleEnds
  <2>1. /\ missed' \/ debounce'
        /\ UNCHANGED <<page, filter, loadsWith, due, sequence, data, error, shared, local, reads, outrun>>
    BY <1>5 DEF CycleEnds, shown
  <2>2. Ready' /\ UpToDate'
    BY <2>1 DEF AllSettled, Ready, UpToDate, Current
  <2>3. UnderWay' <=> UnderWay
    BY <2>1 DEF UnderWay, Current
  <2>4. QED
    BY <2>1, <2>2, <2>3 DEF AllSettled, Rested
<1>6. CASE Listen \/ UNCHANGED loadVars
  <2>1. UNCHANGED <<version, page, filter, loadsWith, due, sequence, data, error, debounce, shared,
                    local, reads, missed, outrun>>
    BY <1>6 DEF Listen, loadVars, shown
  <2>2. Ready' /\ UpToDate' /\ (UnderWay' <=> UnderWay)
    BY <2>1 DEF AllSettled, Ready, UpToDate, UnderWay, Current
  <2>3. QED
    BY <2>1, <2>2 DEF AllSettled, Rested
<1>7. QED
  BY <1>1, <1>2, <1>3, <1>4, <1>5, <1>6 DEF LoadsNext

\* A page that waits is waiting for a load, and one that rests without an error shows
\* data of its present dependencies, from after the last cycle it has heard of,
\* whatever lanes displace, answers overtake and renders supersede (use-page-load.ts).
THEOREM LoadsStaySettled == LoadsSpec => []LoadsSettle
<1>1. LoadsInit => AllSettled
  BY DEF LoadsInit, AllSettled, Ready, UpToDate, Rested
<1>2. AllSettled => RestShowsTheLatest
  BY DEF AllSettled, Rested, RestShowsTheLatest
<1>3. QED
  BY Invariance, StepSettled, SpinnersHaveLoads, <1>1, <1>2, PTL DEF LoadsSpec, LoadsSettle

-----------------------------------------------------------------------------
(* The components side by side *)

\* A behaviour of MCPages is one of each of its components.
THEOREM EachPageIsItsComponent ==
  Spec => /\ ViewsSpec /\ CardSpec /\ SettingsSpec
          /\ PetSpec /\ AlertSpec /\ LoadsSpec
<1> DEFINE allVars == <<part, viewVars, cardVars, settingVars, petVars, alertVars, loadVars>>
<1>1. Init => ViewsInit /\ CardInit /\ SettingsInit /\ PetInit /\ AlertInit /\ LoadsInit
  BY DEF Init
<1>2. [Next]_allVars => [ViewsNext]_viewVars
  BY DEF Next, ViewsStep, CardStep, SettingsStep, PetStep, AlertStep, LoadStep
<1>3. [Next]_allVars => [CardNext]_cardVars
  BY DEF Next, ViewsStep, CardStep, SettingsStep, PetStep, AlertStep, LoadStep
<1>4. [Next]_allVars => [SettingsNext]_settingVars
  BY DEF Next, ViewsStep, CardStep, SettingsStep, PetStep, AlertStep, LoadStep
<1>5. [Next]_allVars => [PetNext]_petVars
  BY DEF Next, ViewsStep, CardStep, SettingsStep, PetStep, AlertStep, LoadStep
<1>6. [Next]_allVars => [AlertNext]_alertVars
  BY DEF Next, ViewsStep, CardStep, SettingsStep, PetStep, AlertStep, LoadStep
<1>7. [Next]_allVars => [LoadsNext]_loadVars
  BY DEF Next, ViewsStep, CardStep, SettingsStep, PetStep, AlertStep, LoadStep
<1> QED
  BY <1>1, <1>2, <1>3, <1>4, <1>5, <1>6, <1>7, PTL
  DEF Spec, ViewsSpec, CardSpec, SettingsSpec, PetSpec, AlertSpec, LoadsSpec

\* Every component keeps to its types and bounds, whatever the others are about.
THEOREM PagesKeepTheirTypes == Spec => []PagesTypeOK
<1>1. AlertSpec => []AlertTypeOK
  <2>1. AlertInv => AlertTypeOK
    BY DEF AlertInv
  <2> QED BY <2>1, AlertsAlways, PTL
<1>2. ViewsTypeOK /\ CardTypeOK /\ SettingsTypeOK /\ PetTypeOK /\ AlertTypeOK /\ LoadsTypeOK
        => PagesTypeOK
  BY DEF PagesTypeOK
<1> QED
  BY <1>1, <1>2, EachPageIsItsComponent, ViewsTypes, CardTypes, TypesAlways, PetTypeCorrect,
     LoadsTypeCorrect, PTL
=============================================================================
