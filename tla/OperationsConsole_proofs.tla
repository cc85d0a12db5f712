---------------------- MODULE OperationsConsole_proofs ----------------------
(***************************************************************************)
(* What the settings, API key, backup and request pages of the console and *)
(* its frame keep, for any number of rows, requests, losses and edits.     *)
(* Each section proves an inductive invariant of one component; as a       *)
(* behaviour runs one component, the theorem about the whole follows.      *)
(***************************************************************************)
EXTENDS MCOperationsConsole, FiniteSetTheorems, SequenceTheorems, WellFoundedInduction, TLAPS

(***************************************************************************)
(* One component runs for good, and behaves as it does alone.              *)
(***************************************************************************)
LEMMA FormsRun == Spec => Forms!Spec \/ [](~(which = "forms"))
<1>1. Init /\ which = "forms" => Forms!Init
  BY DEF Init
<1>2. [Next]_vars /\ which = "forms" => (which = "forms")' /\ [Forms!Next]_(Forms!vars)
  BY DEF Next, vars, sharedVars, formVars, Forms!vars
<1>3. [Next]_vars /\ ~(which = "forms") => ~(which = "forms")'
  BY DEF Next, vars
<1>4. QED
  BY <1>1, <1>2, <1>3, PTL DEF Spec, Forms!Spec

LEMMA MappingsRun == Spec => Mappings!Spec \/ [](~(which = "mappings"))
<1>1. Init /\ which = "mappings" => Mappings!Init
  BY DEF Init
<1>2. [Next]_vars /\ which = "mappings" => (which = "mappings")' /\ [Mappings!Next]_(Mappings!vars)
  BY DEF Next, vars, sharedVars, mappingVars, Mappings!vars
<1>3. [Next]_vars /\ ~(which = "mappings") => ~(which = "mappings")'
  BY DEF Next, vars
<1>4. QED
  BY <1>1, <1>2, <1>3, PTL DEF Spec, Mappings!Spec

LEMMA KeysRun == Spec => Keys!Spec \/ [](~(which = "keys"))
<1>1. Init /\ which = "keys" => Keys!Init
  BY DEF Init
<1>2. [Next]_vars /\ which = "keys" => (which = "keys")' /\ [Keys!Next]_(Keys!vars)
  BY DEF Next, vars, sharedVars, keyVars, Keys!vars, Keys!server, Keys!view, Keys!ui, Keys!count
<1>3. [Next]_vars /\ ~(which = "keys") => ~(which = "keys")'
  BY DEF Next, vars
<1>4. QED
  BY <1>1, <1>2, <1>3, PTL DEF Spec, Keys!Spec

LEMMA BackupsRun == Spec => Backups!Spec \/ [](~(which = "backups"))
<1>1. Init /\ which = "backups" => Backups!Init
  BY DEF Init
<1>2. [Next]_vars /\ which = "backups" => (which = "backups")' /\ [Backups!Next]_(Backups!vars)
  BY DEF Next, vars, sharedVars, backupVars, Backups!vars, Backups!server, Backups!count
<1>3. [Next]_vars /\ ~(which = "backups") => ~(which = "backups")'
  BY DEF Next, vars
<1>4. QED
  BY <1>1, <1>2, <1>3, PTL DEF Spec, Backups!Spec

LEMMA ScheduleRuns == Spec => Schedule!Spec \/ [](~(which = "schedule"))
<1>1. Init /\ which = "schedule" => Schedule!Init
  BY DEF Init
<1>2. [Next]_vars /\ which = "schedule" => (which = "schedule")' /\ [Schedule!Next]_(Schedule!vars)
  BY DEF Next, vars, sharedVars, scheduleVars, Schedule!vars
<1>3. [Next]_vars /\ ~(which = "schedule") => ~(which = "schedule")'
  BY DEF Next, vars
<1>4. QED
  BY <1>1, <1>2, <1>3, PTL DEF Spec, Schedule!Spec

LEMMA RequestsRun == Spec => Requests!Spec \/ [](~(which = "requests"))
<1>1. Init /\ which = "requests" => Requests!Init
  BY DEF Init
<1>2. [Next]_vars /\ which = "requests" => (which = "requests")' /\ [Requests!Next]_(Requests!vars)
  BY DEF Next, vars, sharedVars, requestVars, Requests!vars, Requests!search, Requests!list
<1>3. [Next]_vars /\ ~(which = "requests") => ~(which = "requests")'
  BY DEF Next, vars
<1>4. QED
  BY <1>1, <1>2, <1>3, PTL DEF Spec, Requests!Spec

LEMMA FrameRuns == Spec => Frame!Spec \/ [](~(which = "shell"))
<1>1. Init /\ which = "shell" => Frame!Init
  BY DEF Init
<1>2. [Next]_vars /\ which = "shell" => (which = "shell")' /\ [Frame!Next]_(Frame!vars)
  BY DEF Next, vars, sharedVars, frameVars, Frame!vars, Frame!pal, Frame!notes, Frame!update, Frame!look
<1>3. [Next]_vars /\ ~(which = "shell") => ~(which = "shell")'
  BY DEF Next, vars
<1>4. QED
  BY <1>1, <1>2, <1>3, PTL DEF Spec, Frame!Spec

LEMMA AmountsRun == Spec => Amounts!Spec \/ [](~(which = "amounts"))
<1>1. Init /\ which = "amounts" => Amounts!Init
  BY DEF Init
<1>2. [Next]_vars /\ which = "amounts" => (which = "amounts")' /\ [Amounts!Next]_(Amounts!vars)
  BY DEF Next, vars, sharedVars, amountVars, Amounts!vars
<1>3. [Next]_vars /\ ~(which = "amounts") => ~(which = "amounts")'
  BY DEF Next, vars
<1>4. QED
  BY <1>1, <1>2, <1>3, PTL DEF Spec, Amounts!Spec

(***************************************************************************)
(* A settings card never edits a stale copy without saying so.             *)
(*                                                                         *)
(* A write of the setting is missing from the cached copy only while it is *)
(* announced, marked or being fetched; and a mounted card has looked at    *)
(* the cached copy, and has noted a difference from the base of its edit.  *)
(* The first part is about the query client, the second about the card,    *)
(* and only both together reach the server's value.                        *)
(***************************************************************************)

\* What the cards offer: a value of a setting that is set.
Value     == UNION {Forms!Cards[c].offers : c \in Forms!Name}
FormState == [base : Value, draft : Value, seen : Value, changed : BOOLEAN]

FormType ==
  /\ shown \subseteq Forms!Name /\ page \in {"on", "asking", "off"}
  /\ late \in BOOLEAN /\ notify \in BOOLEAN
  /\ stored \in [shown -> Value \cup {"unset"}]
  /\ cache \in [status : {"pending", "ok", "error"}, data : [shown -> Value] \cup {Forms!Empty}, stale : BOOLEAN]
  /\ cache.status = "ok" => cache.data \in [shown -> Value]
  /\ load \in [st : {"idle", "sent", "served"}, val : [shown -> Value] \cup {Forms!Empty}]
  /\ load.st = "served" => load.val \in [shown -> Value]
  /\ form \in [shown -> FormState \cup {Forms!Gone}]
  /\ save \in [shown -> [st : {"idle", "sent", "ok", "failed"}, val : Value \cup {Forms!None}]]
  /\ \A c \in shown : save[c].st # "idle" => save[c].val \in Value

\* A mounted card has looked at the cached copy, and has noted a difference from its base.
LooksAtCopy ==
  \A c \in shown : Forms!Mounted(c) =>
    /\ form[c].seen = cache.data[c]
    /\ form[c].changed \/ form[c].base = form[c].seen

\* A write is known to be missing from the copy: it is announced, marked or being fetched.
CopyIsFresh ==
  ~notify /\ ~late =>
    /\ load.st = "served" => load.val = Forms!Slice(stored)
    /\ load.st = "idle" /\ cache.status = "ok" /\ ~cache.stale => cache.data = Forms!Slice(stored)

\* A marked copy is not shown without being fetched.
MarkIsFetched == page # "off" /\ cache.status = "ok" /\ cache.stale => load.st # "idle"

FormIInv == FormType /\ LooksAtCopy /\ CopyIsFresh /\ MarkIsFetched

LEMMA CardNames ==
  Forms!Name = {"usage", "integrity", "routing", "history", "auto", "thinking", "endpoint", "filter"}
  BY SMT DEF Forms!Name, Forms!Cards

LEMMA CardOf ==
  /\ Forms!Cards["usage"] = Forms!UsageCard /\ Forms!Cards["integrity"] = Forms!StreamIntegrityCard
  /\ Forms!Cards["routing"] = Forms!RoutingCard /\ Forms!Cards["history"] = Forms!ToolHistoryCard
  /\ Forms!Cards["auto"] = Forms!AutoContinueCard /\ Forms!Cards["thinking"] = Forms!ThinkingCard
  /\ Forms!Cards["endpoint"] = Forms!EndpointCard /\ Forms!Cards["filter"] = Forms!PromptFilterCard
  BY SMT DEF Forms!Cards

LEMMA OneCard ==
  ASSUME NEW q, NEW m, NEW o, NEW r
  PROVE  Forms!Card(q, m, o, r).missing = m /\ Forms!Card(q, m, o, r).offers = o
  BY SMT DEF Forms!Card

\* A card offers what an unset setting reads as, and no card offers "none".
LEMMA CardOffers ==
  \A c \in Forms!Name : Forms!Cards[c].missing \in Forms!Cards[c].offers /\ Forms!None \notin Forms!Cards[c].offers
<1> DEFINE Fits(k) == k.missing \in k.offers /\ Forms!None \notin k.offers
<1>1. Fits(Forms!UsageCard) /\ Fits(Forms!StreamIntegrityCard) /\ Fits(Forms!RoutingCard) /\ Fits(Forms!ToolHistoryCard)
  BY OneCard DEF Forms!UsageCard, Forms!StreamIntegrityCard, Forms!RoutingCard, Forms!ToolHistoryCard, Forms!None
<1>2. Fits(Forms!AutoContinueCard)
  <2>1. Forms!AutoContinueCard.missing = "3" /\ Forms!AutoContinueCard.offers = {"3", "10", "11", "empty"}
    BY SMT DEF Forms!AutoContinueCard, Forms!Card
  <2>2. QED
    BY <2>1 DEF Forms!None
<1>3. Fits(Forms!ThinkingCard)
  <2>1. Forms!ThinkingCard.missing = "-thinking" /\ Forms!ThinkingCard.offers = {"-thinking", "-x", " "}
    BY SMT DEF Forms!ThinkingCard, Forms!Card
  <2>2. QED
    BY <2>1 DEF Forms!None
<1>4. Fits(Forms!EndpointCard)
  <2>1. Forms!EndpointCard.missing = "auto" /\ Forms!EndpointCard.offers = {"auto", "kiro"}
    BY SMT DEF Forms!EndpointCard, Forms!Card
  <2>2. QED
    BY <2>1 DEF Forms!None
<1>5. Fits(Forms!PromptFilterCard)
  <2>1. Forms!PromptFilterCard.missing = "no rules" /\ Forms!PromptFilterCard.offers = {"no rules", "rule", "two rules"}
    BY SMT DEF Forms!PromptFilterCard, Forms!Card
  <2>2. QED
    BY <2>1 DEF Forms!None
<1>6. \A c \in Forms!Name : Fits(Forms!Cards[c])
  <2> HIDE DEF Fits
  <2> QED
    BY <1>1, <1>2, <1>3, <1>4, <1>5, CardNames, CardOf
<1>7. QED
  BY <1>6

LEMMA OfferedValues ==
  /\ Forms!None \notin Value
  /\ \A c \in Forms!Name : Forms!Cards[c].missing \in Value /\ Forms!Cards[c].offers \subseteq Value
  BY CardOffers, Zenon DEF Value

\* What is sent, stored and read back stays a value.
LEMMA ValuesTravel ==
  ASSUME NEW c \in Forms!Name
  PROVE  /\ \A v \in Value : Forms!Sends(c, v) \in Value /\ Forms!Stores(c, v) \in Value \cup {"unset"}
         /\ \A v \in Value \cup {"unset"} : Forms!Reads(c, v) \in Value
  BY OfferedValues DEF Forms!Sends, Forms!Stores, Forms!Reads

LEMMA SliceType ==
  ASSUME FormType
  PROVE  Forms!Slice(stored) \in [shown -> Value]
<1>1. \A c \in shown : Forms!Reads(c, stored[c]) \in Value
  BY ValuesTravel DEF FormType
<1>2. QED
  BY <1>1 DEF Forms!Slice

LEMMA MarksApart ==
  /\ Forms!Gone = [base |-> Forms!None, draft |-> Forms!None, seen |-> Forms!None, changed |-> FALSE]
  /\ Forms!Gone \notin FormState
<1>1. Forms!Gone = [base |-> Forms!None, draft |-> Forms!None, seen |-> Forms!None, changed |-> FALSE]
  BY Zenon DEF Forms!Gone, Forms!InitialDraft
<1>2. QED
  BY <1>1, OfferedValues DEF FormState

\* Looking at a copy: what each operation of a draft makes of it.
LEMMA DraftOps ==
  ASSUME NEW v \in Value
  PROVE  /\ Forms!InitialDraft(v) \in FormState
         /\ Forms!InitialDraft(v).seen = v /\ Forms!InitialDraft(v).base = v
         /\ \A f \in FormState :
              /\ Forms!Set(f, v) \in FormState /\ Forms!Commit(f, v) \in FormState
              /\ Forms!Set(f, v).seen = f.seen /\ Forms!Set(f, v).base = f.base /\ Forms!Set(f, v).changed = f.changed
              /\ Forms!Commit(f, v).base = v /\ Forms!Commit(f, v).draft = v
  BY DEF Forms!InitialDraft, Forms!Set, Forms!Commit, FormState

LEMMA LookOne ==
  ASSUME NEW f \in FormState, NEW v \in Value,
         f.changed \/ f.base = f.seen \/ (f.base = v /\ f.draft = v)
  PROVE  LET g == Forms!ReceiveServer(f, v)
         IN  g \in FormState /\ g.seen = v /\ (g.changed \/ g.base = g.seen)
<1> DEFINE h == [f EXCEPT !.seen = v, !.changed = TRUE]
<1>1. h \in FormState /\ h.seen = v /\ h.changed
  BY DEF FormState
<1>2. CASE f.seen = v
  BY <1>2 DEF Forms!ReceiveServer, Forms!IsEqual
<1>3. CASE f.seen # v /\ Forms!Clean(f)
  BY <1>3, DraftOps DEF Forms!ReceiveServer, Forms!IsEqual
<1>4. CASE f.seen # v /\ ~Forms!Clean(f)
  <2>1. Forms!ReceiveServer(f, v) = h
    BY <1>4, Zenon DEF Forms!ReceiveServer, Forms!IsEqual
  <2>2. QED
    BY <1>1, <2>1
<1>5. QED
  BY <1>2, <1>3, <1>4

\* Rendering: every card looks.
LEMMA AllLook ==
  ASSUME NEW forms \in [shown -> FormState \cup {Forms!Gone}], NEW data \in [shown -> Value], NEW on \in BOOLEAN,
         \A c \in shown : forms[c] # Forms!Gone =>
           forms[c].changed \/ forms[c].base = forms[c].seen \/ (forms[c].base = data[c] /\ forms[c].draft = data[c])
  PROVE  LET r == Forms!Rendered(forms, data, on)
         IN  /\ r \in [shown -> FormState \cup {Forms!Gone}]
             /\ \A c \in shown : r[c] # Forms!Gone => r[c].seen = data[c] /\ (r[c].changed \/ r[c].base = r[c].seen)
<1> DEFINE One(c) == IF ~on THEN Forms!Gone
                     ELSE IF forms[c] = Forms!Gone THEN Forms!InitialDraft(data[c])
                     ELSE Forms!ReceiveServer(forms[c], data[c])
<1>1. ASSUME NEW c \in shown
      PROVE  One(c) \in FormState \cup {Forms!Gone} /\ (One(c) # Forms!Gone => One(c).seen = data[c] /\ (One(c).changed \/ One(c).base = One(c).seen))
  <2>1. CASE ~on
    BY <2>1
  <2>2. CASE on /\ forms[c] = Forms!Gone
    BY <2>2, DraftOps
  <2>3. CASE on /\ forms[c] # Forms!Gone
    <3>1. forms[c] \in FormState /\ data[c] \in Value
      BY <2>3
    <3>2. PICK g : g = Forms!ReceiveServer(forms[c], data[c])
      OBVIOUS
    <3>3. g \in FormState /\ g.seen = data[c] /\ (g.changed \/ g.base = g.seen)
      BY <2>3, <3>1, <3>2, LookOne
    <3>4. One(c) = g
      BY <2>3, <3>2
    <3>5. QED
      BY <3>3, <3>4
  <2>4. QED
    BY <2>1, <2>2, <2>3
<1>2. Forms!Rendered(forms, data, on) = [c \in shown |-> One(c)]
  BY Zenon DEF Forms!Rendered
<1>3. QED
  <2> HIDE DEF One
  <2> QED
    BY <1>1, <1>2

LEMMA FormsStart == ASSUME Forms!Init PROVE FormIInv
<1>1. shown \subseteq Forms!Name
  BY CardNames DEF Forms!Init
<1>2. /\ cache.status = "pending" /\ cache.data = Forms!Empty /\ cache.stale = FALSE
      /\ cache \in [status : {"pending", "ok", "error"}, data : [shown -> Value] \cup {Forms!Empty}, stale : BOOLEAN]
  BY DEF Forms!Init
<1>3. load.st = "sent" /\ load \in [st : {"idle", "sent", "served"}, val : [shown -> Value] \cup {Forms!Empty}]
  BY DEF Forms!Init
<1>4. form \in [shown -> FormState \cup {Forms!Gone}] /\ \A c \in shown : form[c] = Forms!Gone
  BY DEF Forms!Init
<1>5. /\ save \in [shown -> [st : {"idle", "sent", "ok", "failed"}, val : Value \cup {Forms!None}]]
      /\ \A c \in shown : save[c].st = "idle"
  BY DEF Forms!Init, Forms!Idle
<1>6. FormType
  BY <1>1, <1>2, <1>3, <1>4, <1>5 DEF Forms!Init, FormType
<1>7. QED
  BY <1>2, <1>3, <1>4, <1>6 DEF FormIInv, LooksAtCopy, CopyIsFresh, MarkIsFetched, Forms!Mounted

\* Marking or fetching again: the copy is known to lag behind from then on.
LEMMA FormsInvalidate ==
  ASSUME FormType, NEW c \in [status : {"pending", "ok", "error"}, data : [shown -> Value] \cup {Forms!Empty}, stale : BOOLEAN],
         c.status = "ok" => c.data \in [shown -> Value],
         Forms!Invalidate(c), UNCHANGED <<shown, page>>
  PROVE  /\ cache'.data = c.data /\ cache'.status = c.status
         /\ cache' \in [status : {"pending", "ok", "error"}, data : [shown -> Value] \cup {Forms!Empty}, stale : BOOLEAN]
         /\ load' \in [st : {"idle", "sent", "served"}, val : [shown -> Value] \cup {Forms!Empty}]
         /\ load'.st = "served" => load'.val \in [shown -> Value]
         /\ late' \in BOOLEAN
         /\ ~late' => /\ load'.st # "served"
                      /\ load'.st = "idle" => cache'.stale
         /\ page # "off" => load'.st = "sent"
<1>1. CASE page = "off"
  <2>1. cache' = [c EXCEPT !.stale = TRUE] /\ late' = (late \/ load.st = "served") /\ load' = load
    BY <1>1 DEF Forms!Invalidate
  <2>2. /\ cache'.data = c.data /\ cache'.status = c.status /\ cache'.stale
        /\ cache' \in [status : {"pending", "ok", "error"}, data : [shown -> Value] \cup {Forms!Empty}, stale : BOOLEAN]
    BY <2>1
  <2>3. late' \in BOOLEAN /\ (~late' => load.st # "served")
    BY <2>1, Zenon DEF FormType
  <2>4. QED
    BY <1>1, <2>1, <2>2, <2>3 DEF FormType
<1>2. CASE page # "off"
  <2>1. cache' = c /\ load' = [st |-> "sent", val |-> Forms!Empty] /\ late' = FALSE
    BY <1>2 DEF Forms!Invalidate, Forms!StartFetch
  <2>2. load'.st = "sent" /\ load' \in [st : {"idle", "sent", "served"}, val : [shown -> Value] \cup {Forms!Empty}]
    BY <2>1
  <2>3. QED
    BY <2>1, <2>2
<1>3. QED
  BY <1>1, <1>2

LEMMA FormQueryKeeps == ASSUME FormIInv, Forms!Query PROVE FormIInv'
<1> USE DEF FormIInv
<1>1. CASE Forms!FetchServed
  <2>1. /\ load' = [st |-> "served", val |-> Forms!Slice(stored)]
        /\ UNCHANGED <<shown, page, stored, cache, late, notify, form, save>>
    BY <1>1 DEF Forms!FetchServed
  <2>2. load'.st = "served" /\ load'.val = Forms!Slice(stored) /\ load' \in [st : {"idle", "sent", "served"}, val : [shown -> Value] \cup {Forms!Empty}]
    BY <2>1, SliceType
  <2>3. Forms!Slice(stored)' = Forms!Slice(stored) /\ Forms!Empty' = Forms!Empty
    BY <2>1 DEF Forms!Slice, Forms!Empty
  <2>4. FormType'
    BY <2>1, <2>2, <2>3, SliceType DEF FormType
  <2>5. LooksAtCopy' /\ MarkIsFetched'
    BY <2>1, <2>2 DEF LooksAtCopy, MarkIsFetched, Forms!Mounted
  <2>6. CopyIsFresh'
    BY <2>1, <2>2, <2>3 DEF CopyIsFresh
  <2>7. QED
    BY <2>4, <2>5, <2>6
<1>2. CASE Forms!FetchDone
  <2>1. /\ load.st = "served" /\ load' = [st |-> "idle", val |-> Forms!Empty]
        /\ cache' = [status |-> "ok", data |-> load.val, stale |-> FALSE]
        /\ form' = Forms!Rendered(form, load.val, page # "off")
        /\ UNCHANGED <<shown, page, stored, late, notify, save>>
    BY <1>2 DEF Forms!FetchDone
  <2>2. load.val \in [shown -> Value]
    BY <2>1 DEF FormType
  <2>3. load'.st = "idle" /\ load' \in [st : {"idle", "sent", "served"}, val : [shown -> Value] \cup {Forms!Empty}]
    BY <2>1
  <2>4. /\ cache'.status = "ok" /\ cache'.data = load.val /\ cache'.stale = FALSE
        /\ cache' \in [status : {"pending", "ok", "error"}, data : [shown -> Value] \cup {Forms!Empty}, stale : BOOLEAN]
    BY <2>1, <2>2
  <2>5. Forms!Slice(stored)' = Forms!Slice(stored) /\ Forms!Empty' = Forms!Empty
    BY <2>1 DEF Forms!Slice, Forms!Empty
  <2>6. /\ form' \in [shown -> FormState \cup {Forms!Gone}]
        /\ \A c \in shown : form'[c] # Forms!Gone => form'[c].seen = load.val[c] /\ (form'[c].changed \/ form'[c].base = form'[c].seen)
    <3>1. PICK on \in BOOLEAN : on = (page # "off")
      OBVIOUS
    <3>2. form' = Forms!Rendered(form, load.val, on)
      BY <2>1, <3>1
    <3>3. form \in [shown -> FormState \cup {Forms!Gone}] /\ \A c \in shown : form[c] # Forms!Gone => form[c].changed \/ form[c].base = form[c].seen
      BY DEF FormType, LooksAtCopy, Forms!Mounted
    <3>4. QED
      BY <2>2, <3>2, <3>3, AllLook
  <2>7. FormType'
    BY <2>1, <2>2, <2>3, <2>4, <2>5, <2>6 DEF FormType
  <2>8. LooksAtCopy' /\ MarkIsFetched'
    BY <2>1, <2>4, <2>6 DEF LooksAtCopy, MarkIsFetched, Forms!Mounted
  <2>9. CopyIsFresh'
    BY <2>1, <2>3, <2>4, <2>5 DEF CopyIsFresh
  <2>10. QED
    BY <2>7, <2>8, <2>9
<1>3. CASE Forms!FetchFails
  <2>1. /\ load' = [st |-> "idle", val |-> Forms!Empty] /\ cache' = [cache EXCEPT !.status = "error"]
        /\ form' = [c \in shown |-> Forms!Gone] /\ UNCHANGED <<shown, page, stored, late, notify, save>>
    BY <1>3 DEF Forms!FetchFails
  <2>2. load'.st = "idle" /\ load' \in [st : {"idle", "sent", "served"}, val : [shown -> Value] \cup {Forms!Empty}]
    BY <2>1
  <2>3. cache'.status = "error" /\ cache' \in [status : {"pending", "ok", "error"}, data : [shown -> Value] \cup {Forms!Empty}, stale : BOOLEAN]
    BY <2>1 DEF FormType
  <2>4. Forms!Empty' = Forms!Empty
    BY <2>1 DEF Forms!Empty
  <2>5. form' \in [shown -> FormState \cup {Forms!Gone}] /\ \A c \in shown : form'[c] = Forms!Gone
    BY <2>1
  <2>6. FormType'
    BY <2>1, <2>2, <2>3, <2>4, <2>5 DEF FormType
  <2>7. LooksAtCopy' /\ MarkIsFetched' /\ CopyIsFresh'
    BY <2>1, <2>2, <2>3, <2>5 DEF LooksAtCopy, MarkIsFetched, CopyIsFresh, Forms!Mounted
  <2>8. QED
    BY <2>6, <2>7
<1>4. CASE Forms!Retry
  <2>1. /\ load' = [st |-> "sent", val |-> Forms!Empty] /\ late' = FALSE
        /\ UNCHANGED <<shown, page, stored, cache, notify, form, save>>
    BY <1>4 DEF Forms!Retry, Forms!StartFetch
  <2>2. load'.st = "sent" /\ load' \in [st : {"idle", "sent", "served"}, val : [shown -> Value] \cup {Forms!Empty}]
    BY <2>1
  <2>3. Forms!Empty' = Forms!Empty
    BY <2>1 DEF Forms!Empty
  <2>4. FormType'
    BY <2>1, <2>2, <2>3 DEF FormType
  <2>5. LooksAtCopy' /\ MarkIsFetched' /\ CopyIsFresh'
    BY <2>1, <2>2 DEF LooksAtCopy, MarkIsFetched, CopyIsFresh, Forms!Mounted
  <2>6. QED
    BY <2>4, <2>5
<1>5. CASE Forms!Notified
  <2>1. Forms!Invalidate(cache) /\ notify' = FALSE /\ UNCHANGED <<shown, page, stored, form, save>>
    BY <1>5 DEF Forms!Notified
  <2>2. /\ cache'.data = cache.data /\ cache'.status = cache.status
        /\ cache' \in [status : {"pending", "ok", "error"}, data : [shown -> Value] \cup {Forms!Empty}, stale : BOOLEAN]
        /\ load' \in [st : {"idle", "sent", "served"}, val : [shown -> Value] \cup {Forms!Empty}]
        /\ load'.st = "served" => load'.val \in [shown -> Value]
        /\ late' \in BOOLEAN
        /\ ~late' => load'.st # "served" /\ (load'.st = "idle" => cache'.stale)
        /\ page # "off" => load'.st = "sent"
    BY <2>1, FormsInvalidate DEF FormType
  <2>3. Forms!Empty' = Forms!Empty
    BY <2>1 DEF Forms!Empty
  <2>4. FormType'
    BY <2>1, <2>2, <2>3 DEF FormType
  <2>5. LooksAtCopy' /\ MarkIsFetched' /\ CopyIsFresh'
    BY <2>1, <2>2 DEF LooksAtCopy, MarkIsFetched, CopyIsFresh, Forms!Mounted
  <2>6. QED
    BY <2>4, <2>5
<1>6. CASE Forms!OtherTabSaves
  <2>1a. PICK c \in shown : \E v \in Forms!Cards[c].offers : stored' = [stored EXCEPT ![c] = Forms!Stores(c, Forms!Sends(c, v))]
    BY <1>6 DEF Forms!OtherTabSaves
  <2>1. PICK v \in Forms!Cards[c].offers : stored' = [stored EXCEPT ![c] = Forms!Stores(c, Forms!Sends(c, v))]
    BY <2>1a
  <2>2. notify' = TRUE /\ UNCHANGED <<shown, page, cache, load, late, form, save>>
    BY <1>6 DEF Forms!OtherTabSaves
  <2>3. c \in Forms!Name /\ v \in Value
    BY OfferedValues DEF FormType
  <2>4. stored' \in [shown -> Value \cup {"unset"}]
    BY <2>1, <2>3, ValuesTravel DEF FormType
  <2>5. Forms!Empty' = Forms!Empty
    BY <2>2 DEF Forms!Empty
  <2>6. FormType'
    BY <2>2, <2>4, <2>5 DEF FormType
  <2>7. LooksAtCopy' /\ MarkIsFetched' /\ CopyIsFresh'
    BY <2>2 DEF LooksAtCopy, MarkIsFetched, CopyIsFresh, Forms!Mounted
  <2>8. QED
    BY <2>6, <2>7
<1>7. QED
  BY <1>1, <1>2, <1>3, <1>4, <1>5, <1>6 DEF Forms!Query

LEMMA FormCardKeeps == ASSUME FormIInv, NEW c \in shown, Forms!CardStep(c) PROVE FormIInv'
<1> USE DEF FormIInv
<1>0. c \in Forms!Name /\ form[c] \in FormState \cup {Forms!Gone}
  BY DEF FormType
<1>1. CASE Forms!Edit(c)
  <2>1. PICK v \in Forms!Cards[c].offers : form' = [form EXCEPT ![c] = Forms!Set(form[c], v)]
    BY <1>1 DEF Forms!Edit
  <2>2. Forms!Mounted(c) /\ UNCHANGED <<shown, page, stored, cache, load, late, notify, save>>
    BY <1>1 DEF Forms!Edit
  <2>3. v \in Value /\ form[c] \in FormState
    BY <1>0, <2>2, OfferedValues DEF Forms!Mounted
  <2>4. PICK g : g = Forms!Set(form[c], v)
    OBVIOUS
  <2>5. g \in FormState /\ g.seen = form[c].seen /\ g.base = form[c].base /\ g.changed = form[c].changed
    BY <2>3, <2>4, DraftOps
  <2>6. form' = [form EXCEPT ![c] = g]
    BY <2>1, <2>4
  <2>7. Forms!Empty' = Forms!Empty /\ Forms!Slice(stored)' = Forms!Slice(stored)
    BY <2>2 DEF Forms!Empty, Forms!Slice
  <2>8. FormType'
    BY <2>2, <2>5, <2>6, <2>7 DEF FormType
  <2>9. LooksAtCopy'
    BY <2>2, <2>5, <2>6 DEF LooksAtCopy, FormType, Forms!Mounted
  <2>10. MarkIsFetched' /\ CopyIsFresh'
    BY <2>2, <2>7 DEF MarkIsFetched, CopyIsFresh
  <2>11. QED
    BY <2>8, <2>9, <2>10
<1>2. CASE Forms!Submit(c)
  <2>1. UNCHANGED <<shown, page, stored, cache, load, late, notify, form>> /\ Forms!Mounted(c)
    BY <1>2 DEF Forms!Submit, Forms!Dirty
  <2>2. save' = save \/ save' = [save EXCEPT ![c] = [st |-> "sent", val |-> Forms!Sends(c, form[c].draft)]]
    BY <1>2 DEF Forms!Submit
  <2>3. form[c].draft \in Value
    BY <1>0, <2>1 DEF Forms!Mounted, FormState
  <2>4. /\ save' \in [shown -> [st : {"idle", "sent", "ok", "failed"}, val : Value \cup {Forms!None}]]
        /\ \A k \in shown : save'[k].st # "idle" => save'[k].val \in Value
    <3>1. PICK v \in Value : v = Forms!Sends(c, form[c].draft)
      BY <1>0, <2>3, ValuesTravel
    <3>2. PICK s : s = [st |-> "sent", val |-> v]
      OBVIOUS
    <3>3. s \in [st : {"idle", "sent", "ok", "failed"}, val : Value \cup {Forms!None}] /\ s.val \in Value
      BY <3>2
    <3>4. save' = save \/ save' = [save EXCEPT ![c] = s]
      BY <2>2, <3>1, <3>2
    <3>5. CASE save' = save
      BY <3>5 DEF FormType
    <3>6. CASE save' = [save EXCEPT ![c] = s]
      BY <3>3, <3>6 DEF FormType
    <3>7. QED
      BY <3>4, <3>5, <3>6
  <2>5. Forms!Empty' = Forms!Empty /\ Forms!Slice(stored)' = Forms!Slice(stored)
    BY <2>1 DEF Forms!Empty, Forms!Slice
  <2>6. FormType'
    BY <2>1, <2>4, <2>5 DEF FormType
  <2>7. LooksAtCopy' /\ MarkIsFetched' /\ CopyIsFresh'
    BY <2>1, <2>5 DEF LooksAtCopy, MarkIsFetched, CopyIsFresh, Forms!Mounted
  <2>8. QED
    BY <2>6, <2>7
<1>3. CASE Forms!Serve(c)
  <2>1. UNCHANGED <<shown, page, cache, load, late, form>> /\ save[c].st = "sent"
    BY <1>3 DEF Forms!Serve
  <2>2. \/ stored' = [stored EXCEPT ![c] = Forms!Stores(c, save[c].val)] /\ notify' = TRUE
        \/ UNCHANGED <<stored, notify>>
    BY <1>3 DEF Forms!Serve
  <2>3. save' = [save EXCEPT ![c].st = "ok"] \/ save' = [save EXCEPT ![c].st = "failed"]
    BY <1>3 DEF Forms!Serve
  <2>4. save[c].val \in Value
    BY <2>1 DEF FormType
  <2>5. stored' \in [shown -> Value \cup {"unset"}] /\ notify' \in BOOLEAN
    <3>1. Forms!Stores(c, save[c].val) \in Value \cup {"unset"}
      BY <1>0, <2>4, ValuesTravel
    <3>2. stored' \in [shown -> Value \cup {"unset"}]
      BY <2>2, <3>1 DEF FormType
    <3>3. notify' \in BOOLEAN
      BY <2>2, Zenon DEF FormType
    <3>4. QED
      BY <3>2, <3>3
  <2>6. /\ save' \in [shown -> [st : {"idle", "sent", "ok", "failed"}, val : Value \cup {Forms!None}]]
        /\ \A k \in shown : save'[k].st # "idle" => save'[k].val \in Value
    BY <2>3, <2>4 DEF FormType
  <2>7. Forms!Empty' = Forms!Empty
    BY <2>1 DEF Forms!Empty
  <2>8. FormType'
    BY <2>1, <2>5, <2>6, <2>7 DEF FormType
  <2>9. LooksAtCopy' /\ MarkIsFetched'
    BY <2>1 DEF LooksAtCopy, MarkIsFetched, Forms!Mounted
  <2>10. CopyIsFresh'
    BY <2>1, <2>2 DEF CopyIsFresh, Forms!Slice
  <2>11. QED
    BY <2>8, <2>9, <2>10
<1>4. CASE Forms!Saved(c)
  <2>1. PICK data : data = IF cache.data = Forms!Empty THEN Forms!Empty ELSE [cache.data EXCEPT ![c] = save[c].val]
    OBVIOUS
  <2>2. PICK k : k = [cache EXCEPT !.data = data, !.status = IF data = Forms!Empty THEN @ ELSE "ok"]
    OBVIOUS
  <2>3. /\ save[c].st = "ok" /\ save' = [save EXCEPT ![c] = Forms!Idle] /\ Forms!Invalidate(k)
        /\ UNCHANGED <<shown, page, stored, notify>>
        /\ form' = IF data = Forms!Empty THEN form
                   ELSE Forms!Rendered(IF Forms!Mounted(c) THEN [form EXCEPT ![c] = Forms!Commit(form[c], save[c].val)] ELSE form,
                                   data, page # "off")
    BY <1>4, <2>1, <2>2 DEF Forms!Saved
  <2>4. save[c].val \in Value
    BY <2>3 DEF FormType
  <2>5. cache.data # Forms!Empty => data \in [shown -> Value] /\ data # Forms!Empty /\ data[c] = save[c].val
    <3>1. SUFFICES ASSUME cache.data # Forms!Empty
                   PROVE  data \in [shown -> Value] /\ data # Forms!Empty /\ data[c] = save[c].val
      OBVIOUS
    <3>2. cache.data \in [shown -> Value] /\ data = [cache.data EXCEPT ![c] = save[c].val]
      BY <2>1, <3>1 DEF FormType
    <3>3. data[c] # Forms!None
      BY <2>4, <3>2, OfferedValues
    <3>4. Forms!Empty[c] = Forms!None
      BY DEF Forms!Empty
    <3>5. QED
      BY <2>4, <3>2, <3>3, <3>4
  <2>6. cache.data = Forms!Empty => data = Forms!Empty
    BY <2>1
  <2>7. data \in [shown -> Value] \cup {Forms!Empty} /\ (data # Forms!Empty => data \in [shown -> Value])
    BY <2>5, <2>6
  <2>8. /\ k \in [status : {"pending", "ok", "error"}, data : [shown -> Value] \cup {Forms!Empty}, stale : BOOLEAN]
        /\ k.data = data /\ k.status = (IF data = Forms!Empty THEN cache.status ELSE "ok")
    BY <2>2, <2>7 DEF FormType
  <2>9. k.status = "ok" => k.data \in [shown -> Value]
    BY <2>5, <2>6, <2>7, <2>8 DEF FormType
  <2>10. /\ cache'.data = data /\ cache'.status = k.status
         /\ cache' \in [status : {"pending", "ok", "error"}, data : [shown -> Value] \cup {Forms!Empty}, stale : BOOLEAN]
         /\ load' \in [st : {"idle", "sent", "served"}, val : [shown -> Value] \cup {Forms!Empty}]
         /\ load'.st = "served" => load'.val \in [shown -> Value]
         /\ late' \in BOOLEAN
         /\ ~late' => load'.st # "served" /\ (load'.st = "idle" => cache'.stale)
         /\ page # "off" => load'.st = "sent"
    BY <2>3, <2>8, <2>9, FormsInvalidate
  <2>11. /\ form' \in [shown -> FormState \cup {Forms!Gone}]
         /\ \A d \in shown : form'[d] # Forms!Gone => form'[d].seen = data[d] /\ (form'[d].changed \/ form'[d].base = form'[d].seen)
    <3>1. CASE data = Forms!Empty
      <4>1. form' = form /\ cache.data = data
        BY <2>3, <2>5, <3>1
      <4>2. QED
        BY <4>1 DEF FormType, LooksAtCopy, Forms!Mounted
    <3>2. CASE data # Forms!Empty
      <4>1. PICK on \in BOOLEAN : on = (page # "off")
        OBVIOUS
      <4>2. PICK forms : forms = IF Forms!Mounted(c) THEN [form EXCEPT ![c] = Forms!Commit(form[c], save[c].val)] ELSE form
        OBVIOUS
      <4>3. form' = Forms!Rendered(forms, data, on)
        BY <2>3, <3>2, <4>1, <4>2, Zenon
      <4>4. data \in [shown -> Value] /\ data[c] = save[c].val
        BY <2>5, <2>6, <3>2
      <4>5. /\ forms \in [shown -> FormState \cup {Forms!Gone}]
            /\ \A d \in shown : forms[d] # Forms!Gone =>
                 forms[d].changed \/ forms[d].base = forms[d].seen \/ (forms[d].base = data[d] /\ forms[d].draft = data[d])
        <5>1. form \in [shown -> FormState \cup {Forms!Gone}] /\ \A d \in shown : form[d] # Forms!Gone => form[d].changed \/ form[d].base = form[d].seen
          BY DEF FormType, LooksAtCopy, Forms!Mounted
        <5>2. CASE ~Forms!Mounted(c)
          BY <4>2, <5>1, <5>2
        <5>3. CASE Forms!Mounted(c)
          <6>1. form[c] \in FormState
            BY <1>0, <5>3 DEF Forms!Mounted
          <6>2. PICK g : g = Forms!Commit(form[c], save[c].val)
            OBVIOUS
          <6>3. g \in FormState /\ g.base = save[c].val /\ g.draft = save[c].val
            BY <2>4, <6>1, <6>2, DraftOps
          <6>4. forms = [form EXCEPT ![c] = g]
            BY <4>2, <5>3, <6>2
          <6>5. QED
            BY <4>4, <5>1, <6>3, <6>4
        <5>4. QED
          BY <5>2, <5>3
      <4>6. QED
        BY <4>3, <4>4, <4>5, AllLook
    <3>3. QED
      BY <3>1, <3>2
  <2>12. /\ save' \in [shown -> [st : {"idle", "sent", "ok", "failed"}, val : Value \cup {Forms!None}]]
         /\ \A d \in shown : save'[d].st # "idle" => save'[d].val \in Value
    BY <2>3 DEF FormType, Forms!Idle
  <2>13. Forms!Empty' = Forms!Empty
    BY <2>3 DEF Forms!Empty
  <2>14. FormType'
    BY <2>3, <2>8, <2>9, <2>10, <2>11, <2>12, <2>13 DEF FormType
  <2>15. LooksAtCopy'
    BY <2>3, <2>10, <2>11 DEF LooksAtCopy, Forms!Mounted
  <2>16. MarkIsFetched' /\ CopyIsFresh'
    BY <2>3, <2>10 DEF MarkIsFetched, CopyIsFresh
  <2>17. QED
    BY <2>14, <2>15, <2>16
<1>5. CASE Forms!SaveFailed(c)
  <2>1. UNCHANGED <<shown, page, stored, cache, load, late, notify, form>> /\ save' = [save EXCEPT ![c] = Forms!Idle]
    BY <1>5 DEF Forms!SaveFailed
  <2>2. /\ save' \in [shown -> [st : {"idle", "sent", "ok", "failed"}, val : Value \cup {Forms!None}]]
        /\ \A k \in shown : save'[k].st # "idle" => save'[k].val \in Value
    BY <2>1 DEF FormType, Forms!Idle
  <2>3. Forms!Empty' = Forms!Empty /\ Forms!Slice(stored)' = Forms!Slice(stored)
    BY <2>1 DEF Forms!Empty, Forms!Slice
  <2>4. FormType'
    BY <2>1, <2>2, <2>3 DEF FormType
  <2>5. LooksAtCopy' /\ MarkIsFetched' /\ CopyIsFresh'
    BY <2>1, <2>3 DEF LooksAtCopy, MarkIsFetched, CopyIsFresh, Forms!Mounted
  <2>6. QED
    BY <2>4, <2>5
<1>6. CASE Forms!ReloadCard(c)
  <2>1. /\ UNCHANGED <<shown, page, stored, cache, load, late, notify, save>> /\ Forms!Mounted(c)
        /\ form' = [form EXCEPT ![c] = Forms!Reload(form[c])]
    BY <1>6 DEF Forms!ReloadCard
  <2>2. form[c].seen \in Value
    BY <1>0, <2>1 DEF Forms!Mounted, FormState
  <2>3. PICK g : g = Forms!InitialDraft(form[c].seen)
    OBVIOUS
  <2>4. g \in FormState /\ g.seen = form[c].seen /\ g.base = form[c].seen
    BY <2>2, <2>3, DraftOps
  <2>5. form' = [form EXCEPT ![c] = g]
    BY <2>1, <2>3 DEF Forms!Reload
  <2>6. Forms!Empty' = Forms!Empty /\ Forms!Slice(stored)' = Forms!Slice(stored)
    BY <2>1 DEF Forms!Empty, Forms!Slice
  <2>7. FormType'
    BY <2>1, <2>4, <2>5, <2>6 DEF FormType
  <2>8. LooksAtCopy'
    BY <2>1, <2>4, <2>5 DEF LooksAtCopy, FormType, Forms!Mounted
  <2>9. MarkIsFetched' /\ CopyIsFresh'
    BY <2>1, <2>6 DEF MarkIsFetched, CopyIsFresh
  <2>10. QED
    BY <2>7, <2>8, <2>9
<1>7. QED
  BY <1>1, <1>2, <1>3, <1>4, <1>5, <1>6 DEF Forms!CardStep

LEMMA FormLeavingKeeps == ASSUME FormIInv, Forms!Leave \/ Forms!AnswerGuard \/ Forms!Return PROVE FormIInv'
<1> USE DEF FormIInv
<1>1. CASE Forms!Leave \/ Forms!AnswerGuard
  <2>1. UNCHANGED <<shown, stored, cache, load, late, notify, save>>
    BY <1>1 DEF Forms!Leave, Forms!AnswerGuard
  <2>2. \/ page' = "off" /\ form' = [c \in shown |-> Forms!Gone]
        \/ page # "off" /\ page' \in {"on", "asking"} /\ form' = form
    BY <1>1 DEF Forms!Leave, Forms!AnswerGuard, Forms!Unmount
  <2>3. Forms!Empty' = Forms!Empty /\ Forms!Slice(stored)' = Forms!Slice(stored)
    BY <2>1 DEF Forms!Empty, Forms!Slice
  <2>4. form' \in [shown -> FormState \cup {Forms!Gone}] /\ page' \in {"on", "asking", "off"}
    BY <2>2 DEF FormType
  <2>5. FormType'
    BY <2>1, <2>3, <2>4 DEF FormType
  <2>6. LooksAtCopy'
    BY <2>1, <2>2 DEF LooksAtCopy, Forms!Mounted
  <2>7. MarkIsFetched' /\ CopyIsFresh'
    BY <2>1, <2>2, <2>3 DEF MarkIsFetched, CopyIsFresh
  <2>8. QED
    BY <2>5, <2>6, <2>7
<1>2. CASE Forms!Return
  <2>1. /\ page' = "on" /\ UNCHANGED <<shown, stored, cache, notify, save>>
        /\ form' = IF cache.status = "ok" THEN Forms!Rendered(form, cache.data, TRUE) ELSE form
    BY <1>2 DEF Forms!Return
  <2>2. \/ load' = [st |-> "sent", val |-> Forms!Empty] /\ late' = FALSE
        \/ load' = load /\ late' = late /\ (load.st = "idle" => ~cache.stale)
    BY <1>2 DEF Forms!Return, Forms!StartFetch
  <2>3. /\ load' \in [st : {"idle", "sent", "served"}, val : [shown -> Value] \cup {Forms!Empty}]
        /\ load'.st = "served" => load'.val \in [shown -> Value]
        /\ late' \in BOOLEAN
    <3>1. CASE load' = [st |-> "sent", val |-> Forms!Empty] /\ late' = FALSE
      BY <3>1
    <3>2. CASE load' = load /\ late' = late
      BY <3>2 DEF FormType
    <3>3. QED
      BY <2>2, <3>1, <3>2
  <2>4. load'.st = "sent" \/ (load' = load /\ late' = late /\ (load.st = "idle" => ~cache.stale))
    BY <2>2
  <2>5. Forms!Empty' = Forms!Empty /\ Forms!Slice(stored)' = Forms!Slice(stored)
    BY <2>1 DEF Forms!Empty, Forms!Slice
  <2>6. /\ form' \in [shown -> FormState \cup {Forms!Gone}]
        /\ \A c \in shown : form'[c] # Forms!Gone => form'[c].seen = cache.data[c] /\ (form'[c].changed \/ form'[c].base = form'[c].seen)
    <3>1. form \in [shown -> FormState \cup {Forms!Gone}] /\ \A c \in shown : form[c] # Forms!Gone =>
            form[c].seen = cache.data[c] /\ (form[c].changed \/ form[c].base = form[c].seen)
      BY DEF FormType, LooksAtCopy, Forms!Mounted
    <3>2. CASE cache.status # "ok"
      BY <2>1, <3>1, <3>2
    <3>3. CASE cache.status = "ok"
      <4>1. cache.data \in [shown -> Value] /\ form' = Forms!Rendered(form, cache.data, TRUE)
        BY <2>1, <3>3 DEF FormType
      <4>2. QED
        BY <3>1, <4>1, AllLook
    <3>4. QED
      BY <3>2, <3>3
  <2>7. FormType'
    BY <2>1, <2>3, <2>5, <2>6 DEF FormType
  <2>8. LooksAtCopy'
    BY <2>1, <2>6 DEF LooksAtCopy, Forms!Mounted
  <2>9. MarkIsFetched' /\ CopyIsFresh'
    BY <2>1, <2>4, <2>5 DEF MarkIsFetched, CopyIsFresh
  <2>10. QED
    BY <2>7, <2>8, <2>9
<1>3. QED
  BY <1>1, <1>2

LEMMA FormsInductive == Forms!Spec => []FormIInv
<1>1. ASSUME FormIInv, [Forms!Next]_(Forms!vars) PROVE FormIInv'
  <2>1. CASE UNCHANGED Forms!vars
    <3>1. UNCHANGED <<shown, page, stored, cache, load, late, notify, form, save>>
      BY <2>1 DEF Forms!vars
    <3>2. Forms!Empty' = Forms!Empty /\ Forms!Slice(stored)' = Forms!Slice(stored)
      BY <3>1 DEF Forms!Empty, Forms!Slice
    <3>3. QED
      BY <1>1, <3>1, <3>2 DEF FormIInv, FormType, LooksAtCopy, CopyIsFresh, MarkIsFetched, Forms!Mounted
  <2>2. QED
    BY <1>1, <2>1, FormQueryKeeps, FormCardKeeps, FormLeavingKeeps DEF Forms!Next
<1>2. QED
  BY <1>1, FormsStart, PTL DEF Forms!Spec

\* Whatever saves, refetches, failures and writes of another tab came in
\* between, and for any number of them: once no news is on its way, a settings
\* card shows or was edited from what the server holds, or has noted that the
\* setting changed under the edit (dirty.ts, settings-section.tsx).
THEOREM StaleFormAlwaysNoted == Spec => []StaleFormNoted
<1>1. FormIInv => Forms!StaleFormNoted
  <2> SUFFICES ASSUME FormIInv, Forms!Quiet, NEW c \in shown, Forms!Mounted(c)
               PROVE  form[c].base = Forms!Reads(c, stored[c]) \/ form[c].changed
    BY DEF Forms!StaleFormNoted
  <2>1. cache.data = Forms!Slice(stored)
    BY DEF FormIInv, FormType, CopyIsFresh, MarkIsFetched, Forms!Quiet
  <2>2. QED
    BY <2>1 DEF FormIInv, LooksAtCopy, Forms!Slice
<1>2. ~(which = "forms") \/ FormIInv => StaleFormNoted
  BY <1>1 DEF StaleFormNoted
<1>3. QED
  BY <1>2, FormsInductive, FormsRun, PTL

(***************************************************************************)
(* A scheduled backup is not later than the run the server named, and the  *)
(* schedule card calls unsaved only what was typed.                        *)
(*                                                                         *)
(* The scheduler looks at a tick, and a run that was named is a tick it    *)
(* has not reached; it is due by then, so the look that happens there      *)
(* takes it.                                                               *)
(***************************************************************************)

\* A tick has a length, periods and keeps are numbers, and the keep applied by default keeps one.
ScheduleBounds ==
  /\ TickTime \in Nat \ {0} /\ Interval \in [Schedule!Cadences -> Nat]
  /\ KeepMax \in Nat \ {0} /\ KeepDefault \in Nat \ {0} /\ Keeps \subseteq Nat
  /\ MaxNow \in Nat /\ MaxLate \in Nat /\ MaxSaves \in Nat

ScheduleFields == [on : BOOLEAN, cadence : Schedule!Cadences, keep : Nat]
ScheduleWire   == [on : BOOLEAN, cadence : Schedule!Cadences, keep : Nat \ {0}]

ScheduleType ==
  /\ ScheduleBounds
  /\ now \in Nat /\ wake \in Nat /\ promise \in Nat /\ saves \in 0 .. MaxSaves
  /\ sched \in [on : BOOLEAN, cadence : Schedule!Cadences, keep : Nat, lastRun : Nat]
  /\ cached \in ScheduleWire /\ form \in ScheduleFields /\ touched \in BOOLEAN
  /\ save.st = "sent" => save.form \in ScheduleFields
  /\ save.st = "done" => save.view \in ScheduleWire

\* The timer is armed for a tick, at most one away; a run that was named is a tick too, not before
\* the wake, and not before it is due.
ClockInv ==
  /\ wake <= now + TickTime /\ \E k \in Nat : wake = k * TickTime
  /\ promise # 0 =>
       /\ wake <= promise /\ \E k \in Nat : promise = k * TickTime
       /\ sched.on /\ (sched.lastRun = 0 \/ sched.lastRun + Interval[sched.cadence] <= promise)

\* Untouched fields are the ones of the copy they were filled from.
CardInv == seed = cached /\ (touched \/ form = cached)

ScheduleIInv == ScheduleType /\ ClockInv /\ CardInv

LEMMA Quotient ==
  ASSUME NEW t \in Nat \ {0}, NEW num \in Nat
  PROVE  num \div t \in Nat /\ (num \div t) * t <= num /\ num < (num \div t) * t + t
  OBVIOUS

LEMMA TickMultiples ==
  ASSUME NEW t \in Nat \ {0}, NEW k \in Nat, NEW j \in Nat, k * t < j * t + t
  PROVE  k * t <= j * t
<1>1. CASE k <= j
  BY <1>1
<1>2. CASE k >= j + 1
  <2>1. k * t >= (j + 1) * t
    BY <1>2
  <2>2. QED
    BY <2>1
<1>3. QED
  BY <1>1, <1>2

LEMMA LaterTick ==
  ASSUME NEW a \in Nat, NEW b \in Nat, NEW c \in Nat, NEW t \in Nat, a < b + t, b <= c
  PROVE  a < c + t
  OBVIOUS

LEMMA MaxOfTwo ==
  ASSUME NEW a \in Nat, NEW b \in Nat
  PROVE  Schedule!Max({a, b}) \in Nat /\ Schedule!Max({a, b}) >= a /\ Schedule!Max({a, b}) >= b
  BY DEF Schedule!Max

LEMMA MinOfTwo ==
  ASSUME NEW a \in Nat, NEW b \in Nat
  PROVE  Schedule!Min({a, b}) \in {a, b}
  BY DEF Schedule!Min

\* A run is named for a tick, not before the time asked about nor before it is due.
LEMMA NamedRun ==
  ASSUME ScheduleType, sched.on, NEW t \in Nat
  PROVE  /\ \E k \in Nat : Schedule!NextRun(t) = k * TickTime
         /\ Schedule!NextRun(t) \in Nat /\ Schedule!NextRun(t) >= t
         /\ sched.lastRun = 0 \/ sched.lastRun + Interval[sched.cadence] <= Schedule!NextRun(t)
<1>1. Interval[sched.cadence] \in Nat /\ sched.lastRun \in Nat /\ TickTime \in Nat \ {0}
  BY DEF ScheduleType, ScheduleBounds
<1>2. PICK m \in Nat : m = IF sched.lastRun = 0 THEN t ELSE Schedule!Max({t, sched.lastRun + Interval[sched.cadence]})
  BY <1>1, MaxOfTwo
<1>3. m >= t /\ (sched.lastRun = 0 \/ sched.lastRun + Interval[sched.cadence] <= m)
  BY <1>1, <1>2, MaxOfTwo
<1>4. Schedule!NextRun(t) = ((m + TickTime - 1) \div TickTime) * TickTime
  BY <1>2 DEF Schedule!NextRun, Schedule!NextTick
<1>5. PICK num \in Nat : num = m + TickTime - 1
  BY <1>1
<1>6. PICK k \in Nat : k = num \div TickTime /\ k * TickTime <= num /\ num < k * TickTime + TickTime
  BY <1>1, Quotient
<1>7. PICK r \in Nat : r = k * TickTime
  BY <1>1
<1>8. m <= r
  BY <1>1, <1>5, <1>6, <1>7
<1>9. Schedule!NextRun(t) = r
  BY <1>4, <1>5, <1>6, <1>7
<1>10. QED
  BY <1>1, <1>3, <1>7, <1>8, <1>9

LEMMA WireType ==
  ASSUME ScheduleBounds, NEW s \in [on : BOOLEAN, cadence : Schedule!Cadences, keep : Nat, lastRun : Nat]
  PROVE  Schedule!WireSchedule(s) \in ScheduleWire
  BY DEF ScheduleBounds, ScheduleWire, Schedule!WireSchedule, Schedule!EffectiveKeep

\* What a step that keeps the clock, or the card, has not to show again.
LEMMA ClockStays ==
  ASSUME ClockInv, UNCHANGED <<now, wake>>, promise' = 0 \/ (promise' = promise /\ sched' = sched)
  PROVE  ClockInv'
  BY DEF ClockInv

LEMMA ClockKeeps == ASSUME ScheduleIInv, Schedule!Pass \/ Schedule!Wake \/ Schedule!ReadSchedule PROVE ScheduleIInv'
<1> USE DEF ScheduleIInv
<1>0. UNCHANGED <<cached, form, seed, touched, save, saves>>
  BY DEF Schedule!Pass, Schedule!Wake, Schedule!ReadSchedule, Schedule!card
<1>1. CardInv'
  BY <1>0 DEF CardInv
<1>2. CASE Schedule!Pass
  <2>1. now' = now + 1 /\ UNCHANGED <<wake, sched, promise>>
    BY <1>2 DEF Schedule!Pass
  <2>2. ScheduleType'
    BY <1>0, <2>1 DEF ScheduleType
  <2>3. ClockInv'
    BY <2>1 DEF ScheduleType, ScheduleBounds, ClockInv
  <2>4. QED
    BY <1>1, <2>2, <2>3
<1>3. CASE Schedule!Wake
  <2>1. now' = now /\ wake' = (now \div TickTime) * TickTime + TickTime
    BY <1>3 DEF Schedule!Wake
  <2>2. \/ sched' = [sched EXCEPT !.lastRun = now] /\ promise' = 0
        \/ UNCHANGED sched /\ promise' = 0
        \/ ~Schedule!Due /\ UNCHANGED <<sched, promise>>
    BY <1>3 DEF Schedule!Wake
  <2>3. TickTime \in Nat \ {0} /\ now \in Nat
    BY DEF ScheduleType, ScheduleBounds
  <2>4. PICK k \in Nat : k = now \div TickTime /\ k * TickTime <= now /\ now < k * TickTime + TickTime
    BY <2>3, Quotient
  <2>5. wake' = k * TickTime + TickTime /\ wake' \in Nat
    BY <2>1, <2>3, <2>4
  <2>6. \E j \in Nat : wake' = j * TickTime
    <3>1. k + 1 \in Nat /\ wake' = (k + 1) * TickTime
      BY <2>3, <2>5
    <3>2. QED
      BY <3>1
  <2>7. wake' <= now' + TickTime
    BY <2>1, <2>3, <2>4, <2>5
  <2>8. sched' \in [on : BOOLEAN, cadence : Schedule!Cadences, keep : Nat, lastRun : Nat] /\ promise' \in Nat
    BY <2>2, <2>3 DEF ScheduleType
  <2>9. ScheduleType'
    BY <1>0, <2>1, <2>3, <2>5, <2>8 DEF ScheduleType
  <2>10. promise' # 0 => wake' <= promise' /\ sched' = sched /\ promise' = promise
    <3>1. SUFFICES ASSUME promise' # 0 PROVE wake' <= promise' /\ sched' = sched /\ promise' = promise
      OBVIOUS
    <3>2. ~Schedule!Due /\ sched' = sched /\ promise' = promise
      BY <2>2, <3>1
    <3>3. sched.on /\ (sched.lastRun = 0 \/ sched.lastRun + Interval[sched.cadence] <= promise)
      BY <3>1, <3>2 DEF ClockInv
    <3>4. sched.lastRun \in Nat /\ Interval[sched.cadence] \in Nat /\ promise \in Nat
      BY DEF ScheduleType, ScheduleBounds
    <3>5. now < promise
      BY <2>3, <3>2, <3>3, <3>4 DEF Schedule!Due
    <3>6. PICK j \in Nat : promise = j * TickTime
      BY <3>1, <3>2 DEF ClockInv
    <3>7. k + 1 \in Nat /\ wake' = (k + 1) * TickTime /\ (k + 1) * TickTime < j * TickTime + TickTime
      BY <2>3, <2>4, <2>5, <3>4, <3>5, <3>6
    <3>8. (k + 1) * TickTime <= j * TickTime
      BY <2>3, <3>7, TickMultiples
    <3>9. QED
      BY <3>2, <3>6, <3>7, <3>8
  <2>11. ClockInv'
    BY <2>6, <2>7, <2>10 DEF ClockInv
  <2>12. QED
    BY <1>1, <2>9, <2>11
<1>4. CASE Schedule!ReadSchedule
  <2>1. /\ now < wake /\ now % TickTime # 0 /\ sched.on /\ promise' = Schedule!NextRun(now)
        /\ UNCHANGED <<now, wake, sched>>
    BY <1>4 DEF Schedule!ReadSchedule
  <2>2. TickTime \in Nat \ {0} /\ now \in Nat /\ wake \in Nat
    BY DEF ScheduleType, ScheduleBounds
  <2>3. PICK j \in Nat : promise' = j * TickTime
    BY <2>1, <2>2, NamedRun
  <2>4. promise' \in Nat /\ promise' >= now
    BY <2>1, <2>2, NamedRun
  <2>5. sched.lastRun = 0 \/ sched.lastRun + Interval[sched.cadence] <= promise'
    BY <2>1, <2>2, NamedRun
  <2>6. PICK k \in Nat : wake = k * TickTime
    BY DEF ClockInv
  <2>7. wake # now + TickTime
    <3>1. SUFFICES ASSUME wake = now + TickTime PROVE FALSE
      OBVIOUS
    <3>2. k # 0
      BY <2>2, <2>6, <3>1
    <3>3. k - 1 \in Nat /\ now = (k - 1) * TickTime
      BY <2>2, <2>6, <3>1, <3>2
    <3>4. ((k - 1) * TickTime) % TickTime = 0
      <4>1. PICK i \in Nat : i = k - 1
        BY <3>3
      <4>2. (i * TickTime) % TickTime = 0
        BY <2>2
      <4>3. QED
        BY <4>1, <4>2
    <3>5. QED
      BY <2>1, <3>3, <3>4
  <2>8. wake < promise' + TickTime
    <3>1. wake <= now + TickTime
      BY DEF ClockInv
    <3>2. wake < now + TickTime
      BY <2>2, <2>7, <3>1
    <3>3. now <= promise' /\ TickTime \in Nat
      BY <2>2, <2>4
    <3>4. QED
      BY <2>2, <2>4, <3>2, <3>3, LaterTick
  <2>9. wake <= promise'
    BY <2>2, <2>3, <2>6, <2>8, TickMultiples
  <2>10. ScheduleType'
    BY <1>0, <2>1, <2>4 DEF ScheduleType
  <2>11. ClockInv'
    BY <2>1, <2>3, <2>5, <2>9 DEF ClockInv
  <2>12. QED
    BY <1>1, <2>10, <2>11
<1>5. QED
  BY <1>2, <1>3, <1>4

LEMMA StoredType ==
  ASSUME ScheduleType, NEW f \in ScheduleFields, Schedule!Stored(f)
  PROVE  sched' \in [on : BOOLEAN, cadence : Schedule!Cadences, keep : Nat, lastRun : Nat] /\ promise' = 0
  BY DEF ScheduleType, ScheduleFields, Schedule!Stored

\* The answer of the query fills the fields exactly when it is new.
LEMMA ReceiveKeeps ==
  ASSUME ScheduleType, CardInv, NEW s \in ScheduleWire, Schedule!Receive(s, form, invalid)
  PROVE  CardInv' /\ cached' \in ScheduleWire /\ form' \in ScheduleFields /\ touched' \in BOOLEAN
<1>1. s \in ScheduleFields
  BY DEF ScheduleWire, ScheduleFields
<1>2. CASE s # seed
  <2>1. cached' = s /\ seed' = s /\ form' = s /\ touched' = FALSE
    BY <1>2 DEF Schedule!Receive, Schedule!SeedKey
  <2>2. QED
    BY <1>1, <2>1 DEF CardInv
<1>3. CASE s = seed
  <2>1. cached' = s /\ form' = form /\ UNCHANGED <<seed, touched>>
    BY <1>3 DEF Schedule!Receive, Schedule!SeedKey
  <2>2. QED
    BY <1>3, <2>1 DEF CardInv, ScheduleType
<1>4. QED
  BY <1>2, <1>3

LEMMA ScheduleCardKeeps ==
  ASSUME ScheduleIInv, Schedule!SaveElsewhere \/ Schedule!Refetch \/ Schedule!Edit \/ Schedule!Submit \/ Schedule!Serve \/ Schedule!Answer
  PROVE  ScheduleIInv'
<1> USE DEF ScheduleIInv
<1>1. CASE Schedule!SaveElsewhere
  <2>1. PICK f \in [on : BOOLEAN, cadence : Schedule!Cadences, keep : 1 .. KeepMax] : Schedule!Stored(f)
    BY <1>1 DEF Schedule!SaveElsewhere
  <2>2. f \in ScheduleFields
    BY DEF ScheduleFields, ScheduleType, ScheduleBounds
  <2>3. sched' \in [on : BOOLEAN, cadence : Schedule!Cadences, keep : Nat, lastRun : Nat] /\ promise' = 0
    BY <2>1, <2>2, StoredType
  <2>4. UNCHANGED <<now, wake, cached, form, seed, touched, save>> /\ saves < MaxSaves /\ saves' = saves + 1
    BY <1>1 DEF Schedule!SaveElsewhere
  <2>5. ScheduleType'
    BY <2>3, <2>4 DEF ScheduleType, ScheduleBounds
  <2>6. ClockInv' /\ CardInv'
    BY <2>3, <2>4, ClockStays DEF CardInv
  <2>7. QED
    BY <2>5, <2>6
<1>2. CASE Schedule!Refetch
  <2>1. Schedule!Receive(Schedule!WireSchedule(sched), form, invalid) /\ UNCHANGED <<now, wake, promise, sched, save, saves>>
    BY <1>2 DEF Schedule!Refetch, Schedule!clock
  <2>2. Schedule!WireSchedule(sched) \in ScheduleWire
    BY WireType DEF ScheduleType
  <2>3. CardInv' /\ cached' \in ScheduleWire /\ form' \in ScheduleFields /\ touched' \in BOOLEAN
    BY <2>1, <2>2, ReceiveKeeps
  <2>4. ScheduleType'
    BY <2>1, <2>3 DEF ScheduleType
  <2>5. ClockInv'
    BY <2>1, ClockStays
  <2>6. QED
    BY <2>3, <2>4, <2>5
<1>3. CASE Schedule!Edit
  <2>1. touched' = TRUE /\ UNCHANGED <<now, wake, promise, sched, cached, seed, save, saves>>
    BY <1>3 DEF Schedule!Edit, Schedule!clock
  <2>2. KeepMax \in Nat /\ cached.keep \in Nat /\ form \in ScheduleFields
    BY DEF ScheduleType, ScheduleBounds, ScheduleWire
  <2>3. form' \in ScheduleFields
    <3>1. CASE form' = [form EXCEPT !.on = ~@]
      BY <2>2, <3>1 DEF ScheduleFields
    <3>2. ASSUME NEW c \in Schedule!Cadences, form' = [form EXCEPT !.cadence = c] PROVE form' \in ScheduleFields
      BY <2>2, <3>2 DEF ScheduleFields
    <3>3. ASSUME NEW k \in 0 .. Schedule!Max({KeepMax, cached.keep}), form' = [form EXCEPT !.keep = k] PROVE form' \in ScheduleFields
      <4>1. k \in Nat
        BY <2>2, MaxOfTwo
      <4>2. QED
        BY <2>2, <3>3, <4>1 DEF ScheduleFields
    <3>4. QED
      BY <1>3, <3>1, <3>2, <3>3 DEF Schedule!Edit
  <2>4. ScheduleType'
    BY <2>1, <2>3 DEF ScheduleType
  <2>5. ClockInv' /\ CardInv'
    BY <2>1, ClockStays DEF CardInv
  <2>6. QED
    BY <2>4, <2>5
<1>4. CASE Schedule!Submit
  <2>1. /\ Schedule!ScheduleDirty /\ saves < MaxSaves /\ saves' = saves + 1
        /\ form' = [form EXCEPT !.keep = Schedule!ClampKeep(form.keep, cached.keep)]
        /\ save' = [st |-> "sent", form |-> form']
        /\ UNCHANGED <<now, wake, promise, sched, cached, seed, touched>>
    BY <1>4 DEF Schedule!Submit, Schedule!clock
  <2>2. form \in ScheduleFields /\ cached \in ScheduleWire /\ KeepMax \in Nat
    BY DEF ScheduleType, ScheduleBounds
  <2>3. Schedule!ClampKeep(form.keep, cached.keep) \in Nat
    BY <2>2, MinOfTwo DEF Schedule!ClampKeep, ScheduleFields, ScheduleWire
  <2>4. form' \in ScheduleFields
    BY <2>1, <2>2, <2>3 DEF ScheduleFields
  <2>5. save'.st = "sent" /\ save'.form \in ScheduleFields
    BY <2>1, <2>4
  <2>6. touched
    <3>1. SUFFICES ASSUME form = cached PROVE FALSE
      BY DEF CardInv
    <3>2. QED
      BY <2>1, <2>2, <3>1 DEF Schedule!ScheduleDirty, Schedule!ClampKeep, ScheduleWire
  <2>7. ScheduleType'
    BY <2>1, <2>4, <2>5 DEF ScheduleType, ScheduleBounds
  <2>8. ClockInv' /\ CardInv'
    BY <2>1, <2>6, ClockStays DEF CardInv
  <2>9. QED
    BY <2>7, <2>8
<1>5. CASE Schedule!Serve
  <2>1. save.st = "sent" /\ UNCHANGED <<now, wake, cached, form, seed, touched, saves>>
    BY <1>5 DEF Schedule!Serve
  <2>2. save.form \in ScheduleFields
    BY <2>1 DEF ScheduleType
  <2>3. CASE Schedule!Stored(save.form) /\ save' = [st |-> "done", view |-> Schedule!WireSchedule(sched')]
    <3>1. sched' \in [on : BOOLEAN, cadence : Schedule!Cadences, keep : Nat, lastRun : Nat] /\ promise' = 0
      BY <2>2, <2>3, StoredType
    <3>2. Schedule!WireSchedule(sched') \in ScheduleWire
      BY <3>1, WireType DEF ScheduleType
    <3>3. save'.st = "done" /\ save'.view \in ScheduleWire
      BY <2>3, <3>2
    <3>4. ScheduleType'
      BY <2>1, <3>1, <3>3 DEF ScheduleType
    <3>5. ClockInv' /\ CardInv'
      BY <2>1, <3>1, ClockStays DEF CardInv
    <3>6. QED
      BY <3>4, <3>5
  <2>4. CASE save' = [st |-> "invalid"] /\ UNCHANGED <<sched, promise>>
    <3>1. save'.st = "invalid"
      BY <2>4
    <3>2. ScheduleType'
      BY <2>1, <2>4, <3>1 DEF ScheduleType
    <3>3. ClockInv' /\ CardInv'
      BY <2>1, <2>4, ClockStays DEF CardInv
    <3>4. QED
      BY <3>2, <3>3
  <2>5. QED
    BY <1>5, <2>3, <2>4 DEF Schedule!Serve
<1>6. CASE Schedule!Answer
  <2>1. save' = Schedule!NoSave /\ UNCHANGED <<now, wake, promise, sched, saves>>
    BY <1>6 DEF Schedule!Answer, Schedule!clock
  <2>2. save'.st = "no"
    BY <2>1 DEF Schedule!NoSave
  <2>3. CASE save.st = "done" /\ Schedule!Receive(save.view, form, invalid)
    <3>1. CardInv' /\ cached' \in ScheduleWire /\ form' \in ScheduleFields /\ touched' \in BOOLEAN
      BY <2>3, ReceiveKeeps DEF ScheduleType
    <3>2. ScheduleType'
      BY <2>1, <2>2, <3>1 DEF ScheduleType
    <3>3. ClockInv'
      BY <2>1, ClockStays
    <3>4. QED
      BY <3>1, <3>2, <3>3
  <2>4. CASE UNCHANGED <<cached, form, seed, touched>>
    <3>1. ScheduleType'
      BY <2>1, <2>2, <2>4 DEF ScheduleType
    <3>2. ClockInv' /\ CardInv'
      BY <2>1, <2>4, ClockStays DEF CardInv
    <3>3. QED
      BY <3>1, <3>2
  <2>5. QED
    BY <1>6, <2>3, <2>4 DEF Schedule!Answer
<1>7. QED
  BY <1>1, <1>2, <1>3, <1>4, <1>5, <1>6

LEMMA ScheduleStarts == ASSUME ScheduleBounds, Schedule!Init PROVE ScheduleIInv
<1>1. sched \in [on : BOOLEAN, cadence : Schedule!Cadences, keep : Nat, lastRun : Nat]
  <2>1. sched \in [on : BOOLEAN, cadence : Schedule!Cadences, keep : Keeps, lastRun : {0}]
    BY DEF Schedule!Init
  <2>2. Keeps \subseteq Nat
    BY DEF ScheduleBounds
  <2>3. PICK o \in BOOLEAN, c \in Schedule!Cadences, k \in Keeps : sched = [on |-> o, cadence |-> c, keep |-> k, lastRun |-> 0]
    BY <2>1
  <2>4. QED
    BY <2>2, <2>3
<1>2. cached \in ScheduleWire /\ form = cached /\ seed = cached
  BY <1>1, WireType DEF Schedule!Init, Schedule!SeedKey
<1>3. form \in ScheduleFields
  BY <1>2 DEF ScheduleWire, ScheduleFields
<1>4. save.st = "no"
  BY DEF Schedule!Init, Schedule!NoSave
<1>5. ScheduleType
  <2>1. now = 1 /\ wake = TickTime /\ promise = 0 /\ saves = 0 /\ touched = FALSE
    BY DEF Schedule!Init
  <2>2. TickTime \in Nat /\ 0 \in 0 .. MaxSaves
    BY DEF ScheduleBounds
  <2>3. QED
    BY <1>1, <1>2, <1>3, <1>4, <2>1, <2>2 DEF ScheduleType
<1>6. wake <= now + TickTime /\ wake = 1 * TickTime /\ promise = 0
  BY DEF Schedule!Init, ScheduleBounds
<1>7. ClockInv
  BY <1>6 DEF ClockInv
<1>8. QED
  BY <1>2, <1>5, <1>7 DEF ScheduleIInv, CardInv

LEMMA ScheduleInductive == ScheduleBounds /\ Schedule!Spec => []ScheduleIInv
<1>1. ASSUME ScheduleIInv, [Schedule!Next]_(Schedule!vars) PROVE ScheduleIInv'
  <2>1. CASE UNCHANGED Schedule!vars
    <3>1. UNCHANGED <<now, wake, sched, promise, cached, form, seed, touched, save, saves>>
      BY <2>1 DEF Schedule!vars
    <3>2. QED
      BY <1>1, <3>1 DEF ScheduleIInv, ScheduleType, ClockInv, CardInv
  <2>2. QED
    BY <1>1, <2>1, ClockKeeps, ScheduleCardKeeps DEF Schedule!Next
<1>2. ScheduleBounds /\ Schedule!Init => ScheduleIInv
  BY ScheduleStarts
<1>3. QED
  BY <1>1, <1>2, PTL DEF Schedule!Spec

\* For any tick, periods, keeps and delays: the scheduler never sleeps past the
\* run that was named, and the card calls unsaved only what was typed
\* (backup_scheduler.go, schedule-card.tsx).
THEOREM ScheduleKept == ScheduleBounds /\ Spec => []ScheduleKeepsItsWord
<1>1. ASSUME ScheduleIInv PROVE Schedule!ScheduleKeepsItsWord
  <2> USE <1>1 DEF ScheduleIInv
  <2>1. wake % TickTime = 0
    <3>1. PICK k \in Nat : wake = k * TickTime
      BY DEF ClockInv
    <3>2. (k * TickTime) % TickTime = 0
      BY DEF ScheduleType, ScheduleBounds
    <3>3. QED
      BY <3>1, <3>2
  <2>2. Schedule!TypeOK
    BY <2>1 DEF Schedule!TypeOK, ScheduleType, ScheduleBounds, ScheduleFields
  <2>3. Schedule!RunNotLaterThanNamed
    BY DEF Schedule!RunNotLaterThanNamed, ClockInv
  <2>4. Schedule!UnsavedIsTyped
    <3>1. SUFFICES ASSUME form = cached PROVE ~Schedule!ScheduleDirty
      BY DEF Schedule!UnsavedIsTyped, CardInv
    <3>2. QED
      BY <3>1 DEF Schedule!ScheduleDirty, Schedule!ClampKeep, ScheduleType, ScheduleWire
  <2>5. QED
    BY <2>2, <2>3, <2>4 DEF Schedule!ScheduleKeepsItsWord
<1>2. ~(which = "schedule") \/ ScheduleIInv => ScheduleKeepsItsWord
  BY <1>1 DEF ScheduleKeepsItsWord
<1>3. QED
  BY <1>2, ScheduleInductive, ScheduleRuns, PTL

(***************************************************************************)
(* The backups listed settle on the ones of the server: a change has an    *)
(* event or a fetch on its way.                                            *)
(***************************************************************************)

\* A list that differs from the server's has an event or a fetch on its way.
BackupsIInv ==
  ~event => /\ fetch.st = "no" => list = Backups!Listed
            /\ fetch.st = "read" => fetch.rows = Backups!Listed

LEMMA Unlisted == ASSUME UNCHANGED <<stored, kind>> PROVE Backups!Listed' = Backups!Listed
  BY DEF Backups!Listed

LEMMA BackupsInductive == Backups!Spec => []BackupsIInv
<1>1. ASSUME Backups!Init PROVE BackupsIInv
  <2>1. fetch.st = "no" /\ list = Backups!Listed
    BY <1>1 DEF Backups!Init, Backups!NoFetch
  <2>2. QED
    BY <2>1 DEF BackupsIInv
<1>2. ASSUME UNCHANGED <<stored, kind, list, fetch, event>>, BackupsIInv PROVE BackupsIInv'
  BY <1>2, Unlisted DEF BackupsIInv
<1>3. ASSUME Backups!Invalidate PROVE BackupsIInv'
  <2>1. fetch'.st = "asked"
    BY <1>3 DEF Backups!Invalidate, Backups!NoFetch
  <2>2. QED
    BY <2>1 DEF BackupsIInv
<1>4. ASSUME BackupsIInv, Backups!Next PROVE BackupsIInv'
  <2>1. CASE Backups!RowActions \/ Backups!StartCreate \/ Backups!OnFileChange \/ Backups!Confirmed \/ Backups!Declined \/ Backups!ShowPage
    <3>1. UNCHANGED <<stored, kind, list, fetch, event>>
      BY <2>1 DEF Backups!RowActions, Backups!OnDownload, Backups!OnRestoreOrDelete, Backups!StartCreate, Backups!OnFileChange, Backups!Confirmed,
                  Backups!Declined, Backups!ShowPage, Backups!server
    <3>2. QED
      BY <1>2, <1>4, <3>1
  <2>2. CASE Backups!Serve
    <3>1. PICK c \in calls :
            \/ UNCHANGED <<stored, kind, event>>
            \/ Backups!Store(c) /\ event' = (event \/ c.action # "download")
      BY <2>2 DEF Backups!Serve, Backups!server
    <3>2. UNCHANGED <<list, fetch>>
      BY <2>2 DEF Backups!Serve
    <3>3. CASE UNCHANGED <<stored, kind, event>>
      BY <1>2, <1>4, <3>2, <3>3
    <3>4. CASE Backups!Store(c) /\ event' = (event \/ c.action # "download")
      <4>1. CASE c.action = "download"
        <5>1. UNCHANGED Backups!server
          BY <3>4, <4>1, Zenon DEF Backups!Store
        <5>2. Backups!Listed' = Backups!Listed /\ (event' \/ ~event)
          BY <3>4, <5>1, Unlisted DEF Backups!server
        <5>3. QED
          BY <1>4, <3>2, <3>4, <5>2 DEF BackupsIInv
      <4>2. CASE c.action # "download"
        BY <3>4, <4>2 DEF BackupsIInv
      <4>3. QED
        BY <4>1, <4>2
    <3>5. QED
      BY <3>1, <3>3, <3>4
  <2>3. CASE Backups!Answer \/ Backups!Lose
    <3>1. PICK c \in calls, ok \in BOOLEAN : Backups!Settled(c, ok)
      <4>1. CASE Backups!Answer
        <5>1. PICK c \in calls : Backups!Settled(c, c.st = "done")
          BY <4>1 DEF Backups!Answer
        <5>2. PICK ok \in BOOLEAN : ok = (c.st = "done")
          OBVIOUS
        <5>3. QED
          BY <5>1, <5>2
      <4>2. CASE Backups!Lose
        BY <4>2 DEF Backups!Lose
      <4>3. QED
        BY <2>3, <4>1, <4>2
    <3>2. UNCHANGED <<stored, kind, event>> /\ (Backups!Invalidate \/ UNCHANGED fetch)
      BY <3>1 DEF Backups!Settled, Backups!server
    <3>3. list' = list
      BY <3>1 DEF Backups!Settled, Backups!Applied
    <3>4. QED
      BY <1>2, <1>3, <1>4, <3>2, <3>3
  <2>4. CASE Backups!OtherChanges
    BY <2>4 DEF Backups!OtherChanges, BackupsIInv
  <2>5. CASE Backups!ServeList
    <3>1. fetch' = [st |-> "read", rows |-> Backups!Listed] /\ UNCHANGED <<stored, kind, list, event>>
      BY <2>5 DEF Backups!ServeList, Backups!server
    <3>2. fetch'.st = "read" /\ fetch'.rows = Backups!Listed'
      BY <3>1, Unlisted
    <3>3. QED
      BY <3>2 DEF BackupsIInv
  <2>6. CASE Backups!ListArrives
    <3>1. fetch.st = "read" /\ fetch' = Backups!NoFetch /\ list' = fetch.rows /\ UNCHANGED <<stored, kind, event>>
      BY <2>6 DEF Backups!ListArrives, Backups!Applied, Backups!server
    <3>2. fetch'.st = "no" /\ Backups!Listed' = Backups!Listed
      BY <3>1, Unlisted DEF Backups!NoFetch
    <3>3. QED
      BY <1>4, <3>1, <3>2 DEF BackupsIInv
  <2>7. CASE Backups!EventArrives
    BY <1>3, <2>7 DEF Backups!EventArrives
  <2>8. QED
    BY <1>4, <2>1, <2>2, <2>3, <2>4, <2>5, <2>6, <2>7 DEF Backups!Next
<1>5. ASSUME BackupsIInv, UNCHANGED Backups!vars PROVE BackupsIInv'
  <2>1. UNCHANGED <<stored, kind, list, fetch, event>>
    BY <1>5 DEF Backups!vars, Backups!server
  <2>2. QED
    BY <1>2, <1>5, <2>1
<1>6. QED
  BY <1>1, <1>4, <1>5, PTL DEF Backups!Spec

\* For any number of backups, requests, losses and changes by another tab: once
\* everything has settled the rows are the server's, in its order
\* (backups-page.tsx, backups-table.tsx, backups_api.go).
THEOREM BackupListSettles == Backups!Spec => []Backups!BackupRowsAreServer
<1>1. BackupsIInv => Backups!BackupRowsAreServer
  BY DEF BackupsIInv, Backups!BackupRowsAreServer
<1>2. QED
  BY <1>1, BackupsInductive, PTL

(***************************************************************************)
(* The API page settles on the server's keys and access switch.            *)
(*                                                                         *)
(* The list follows the keys by an event or a fetch. The switch is also    *)
(* set from the answer to its own save, which is right because one save is *)
(* under way at a time and nothing else moves the server's switch before   *)
(* the answer.                                                             *)
(***************************************************************************)

IsKeyCall(c) == c = [kind |-> c.kind, id |-> c.id, arg |-> c.arg, n |-> c.n, st |-> c.st]
IsDialog(d)  == d = [open |-> d.open, mode |-> d.mode, id |-> d.id, session |-> d.session]

\* A change of the keys has an event or a fetch on its way, a change of the switch an event or the
\* one save that made it; an edit dialog is open over a row of the list.
KeysIInv ==
  /\ \A c \in calls : IsKeyCall(c)
  /\ IsDialog(dialog)
  /\ ~event => /\ fetch.st = "no" => list = keys
               /\ fetch.st = "read" => fetch.list = keys
  /\ ~event => setting = require
  /\ \A c, d \in calls : c.kind = "require" /\ d.kind = "require" => c = d
  /\ \A c \in calls : c.kind = "require" /\ c.st = "done" => require = c.arg
  /\ dialog.open /\ dialog.mode = "edit" => dialog.id \in DOMAIN list
  /\ ask.kind # "require"

\* A request that is sent, of a kind other than the switch's or with no save under way.
LEMMA SendKeeps ==
  ASSUME KeysIInv, NEW verb, NEW i, NEW arg, Keys!Send(Keys!Call(verb, i, arg)),
         verb = "require" => ~Keys!Saving,
         UNCHANGED <<keys, require, list, setting, fetch, event, dialog>>, ask'.kind # "require"
  PROVE  KeysIInv'
<1>1. PICK c : c = [kind |-> verb, id |-> i, arg |-> arg, n |-> made + 1, st |-> "sent"]
  OBVIOUS
<1>2. calls' = calls \cup {c}
  BY <1>1 DEF Keys!Send, Keys!Call
<1>3. IsKeyCall(c) /\ c.kind = verb /\ c.st = "sent"
  BY <1>1 DEF IsKeyCall
<1>4. verb = "require" => \A d \in calls : d.kind # "require"
  BY DEF Keys!Saving
<1>5. \A d \in calls' : IsKeyCall(d)
  BY <1>2, <1>3 DEF KeysIInv
<1>6. \A d, e \in calls' : d.kind = "require" /\ e.kind = "require" => d = e
  BY <1>2, <1>3, <1>4 DEF KeysIInv
<1>7. \A d \in calls' : d.kind = "require" /\ d.st = "done" => require' = d.arg
  BY <1>2, <1>3 DEF KeysIInv
<1>8. QED
  BY <1>5, <1>6, <1>7 DEF KeysIInv

\* What the pages and the dialogs do besides sending.
LEMMA PageKeeps ==
  ASSUME KeysIInv, UNCHANGED <<keys, require, list, setting, fetch, event, calls, dialog>>,
         ask'.kind # "require"
  PROVE  KeysIInv'
  BY DEF KeysIInv

LEMMA RowIsListed == ASSUME NEW i, i \in Keys!PageRows(list) PROVE i \in DOMAIN list
  BY DEF Keys!PageRows

LEMMA UserKeysKeep ==
  ASSUME KeysIInv,
         \/ Keys!RowMenu \/ Keys!Confirmed \/ Keys!Declined \/ Keys!ShowPage \/ Keys!OpenCreate \/ Keys!OnSubmit
         \/ Keys!CloseDialog \/ Keys!Dismiss \/ Keys!FlipRequire \/ Keys!OnSave
  PROVE  KeysIInv'
<1>1. ASSUME NEW i, Keys!OnToggle(i) PROVE KeysIInv'
  <2>1. UNCHANGED <<keys, require, list, setting, fetch, event, dialog>> /\ ask'.kind # "require"
    BY <1>1 DEF Keys!OnToggle, Keys!server, Keys!view, KeysIInv
  <2>2. CASE UNCHANGED calls
    BY <2>1, <2>2, PageKeeps
  <2>3. CASE Keys!Send(Keys!Call("toggle", i, ~list[i].on))
    BY <2>1, <2>3, SendKeeps
  <2>4. QED
    BY <1>1, <2>2, <2>3 DEF Keys!OnToggle
<1>2. ASSUME NEW i, Keys!OnReset(i) PROVE KeysIInv'
  <2>1. UNCHANGED <<keys, require, list, setting, fetch, event, dialog>> /\ Keys!Send(Keys!Call("reset", i, TRUE))
        /\ ask'.kind # "require"
    BY <1>2 DEF Keys!OnReset, Keys!server, Keys!view, KeysIInv
  <2>2. QED
    BY <2>1, SendKeeps
<1>3. ASSUME NEW i, Keys!OnDelete(i) PROVE KeysIInv'
  <2>1. UNCHANGED <<keys, require, list, setting, fetch, event, calls, dialog>> /\ ask'.kind # "require"
    BY <1>3 DEF Keys!OnDelete, Keys!server, Keys!view
  <2>2. QED
    BY <2>1, PageKeeps
<1>4. ASSUME NEW mode, NEW i, Keys!OpenDialog(mode, i), mode = "edit" => i \in DOMAIN list PROVE KeysIInv'
  <2>1. UNCHANGED <<keys, require, list, setting, fetch, event, calls, ask>>
        /\ dialog' = [open |-> TRUE, mode |-> mode, id |-> i, session |-> made]
    BY <1>4 DEF Keys!OpenDialog, Keys!server, Keys!view
  <2>2. IsDialog(dialog') /\ dialog'.mode = mode /\ dialog'.id = i
    BY <2>1 DEF IsDialog
  <2>3. QED
    BY <1>4, <2>1, <2>2 DEF KeysIInv
<1>5. ASSUME NEW i, Keys!OpenEdit(i) PROVE KeysIInv'
  BY <1>4, <1>5, RowIsListed DEF Keys!OpenEdit, Keys!KeyActions
<1>6. CASE Keys!RowMenu
  BY <1>1, <1>2, <1>3, <1>5, <1>6 DEF Keys!RowMenu
<1>7. CASE Keys!Confirmed
  <2>1. UNCHANGED <<keys, require, list, setting, fetch, event, dialog>>
        /\ Keys!Send(Keys!Call(ask.kind, ask.id, FALSE)) /\ ask'.kind # "require"
    BY <1>7 DEF Keys!Confirmed, Keys!Nothing, Keys!server, Keys!view
  <2>2. ask.kind # "require"
    BY DEF KeysIInv
  <2>3. QED
    BY <2>1, <2>2, SendKeeps
<1>8. CASE Keys!Declined \/ Keys!ShowPage \/ Keys!Dismiss \/ Keys!FlipRequire
  <2>1. UNCHANGED <<keys, require, list, setting, fetch, event, calls, dialog>>
    BY <1>8 DEF Keys!Declined, Keys!ShowPage, Keys!Dismiss, Keys!FlipRequire, Keys!server, Keys!view
  <2>2. ask' = ask \/ ask' = Keys!Nothing
    BY <1>8 DEF Keys!Declined, Keys!ShowPage, Keys!Dismiss, Keys!FlipRequire
  <2>3. ask'.kind # "require"
    <3>1. Keys!Nothing.kind # "require"
      BY DEF Keys!Nothing
    <3>2. ask.kind # "require"
      BY DEF KeysIInv
    <3>3. QED
      BY <2>2, <3>1, <3>2
  <2>4. QED
    BY <2>1, <2>3, PageKeeps
<1>9. CASE Keys!OpenCreate
  BY <1>4, <1>9 DEF Keys!OpenCreate
<1>10. CASE Keys!OnSubmit
  <2>1. UNCHANGED <<keys, require, list, setting, fetch, event, dialog>> /\ ask'.kind # "require"
    BY <1>10 DEF Keys!OnSubmit, Keys!server, Keys!view, Keys!ui, KeysIInv
  <2>2. PICK l \in Keys!LimitInput :
          Keys!Send(Keys!Call(IF dialog.mode = "edit" THEN "update" ELSE "create", dialog.id,
                        Keys!ParseApiKeyForm(l).limit = 1))
    BY <1>10 DEF Keys!OnSubmit
  <2>3. (IF dialog.mode = "edit" THEN "update" ELSE "create") # "require"
    OBVIOUS
  <2>4. QED
    BY <2>1, <2>2, <2>3, SendKeeps
<1>11. CASE Keys!CloseDialog
  <2>1. UNCHANGED <<keys, require, list, setting, fetch, event, calls, ask>>
        /\ dialog' = [dialog EXCEPT !.open = FALSE]
    BY <1>11 DEF Keys!CloseDialog, Keys!server, Keys!view
  <2>2. IsDialog(dialog') /\ dialog'.open = FALSE
    BY <2>1 DEF IsDialog, KeysIInv
  <2>3. QED
    BY <2>1, <2>2 DEF KeysIInv
<1>12. CASE Keys!OnSave
  <2>1. UNCHANGED <<keys, require, list, setting, fetch, event, dialog>> /\ ~Keys!Saving
        /\ ask'.kind # "require"
    BY <1>12 DEF Keys!OnSave, Keys!server, Keys!view, KeysIInv
  <2>2. CASE UNCHANGED calls
    BY <2>1, <2>2, PageKeeps
  <2>3. CASE Keys!Send(Keys!Call("require", 0, Keys!Checked))
    BY <2>1, <2>3, SendKeeps
  <2>4. QED
    BY <1>12, <2>2, <2>3 DEF Keys!OnSave
<1>13. QED
  BY <1>6, <1>7, <1>8, <1>9, <1>10, <1>11, <1>12

\* The server answers a request, and announces what it changed.
LEMMA ServeKeysKeeps == ASSUME KeysIInv, Keys!Serve \/ Keys!OtherChanges PROVE KeysIInv'
<1>1. CASE Keys!Serve
  <2>1. PICK c \in calls :
          /\ c.st = "sent"
          /\ \/ calls' = (calls \ {c}) \cup {[c EXCEPT !.st = "refused"]} /\ UNCHANGED <<keys, require, event>>
             \/ /\ Keys!Store(c) /\ event' = TRUE
                /\ calls' = (calls \ {c})
                              \cup {[c EXCEPT !.st = "done", !.id = IF c.kind = "create" THEN next ELSE @]}
    BY <1>1 DEF Keys!Serve, Keys!server
  <2>2. UNCHANGED <<list, setting, fetch, dialog, ask>>
    BY <1>1 DEF Keys!Serve, Keys!view, Keys!ui
  <2>3. IsKeyCall(c)
    BY DEF KeysIInv
  <2>4. CASE calls' = (calls \ {c}) \cup {[c EXCEPT !.st = "refused"]} /\ UNCHANGED <<keys, require, event>>
    <3>1. PICK d : d = [c EXCEPT !.st = "refused"]
      OBVIOUS
    <3>2. IsKeyCall(d) /\ d.kind = c.kind /\ d.st = "refused"
      BY <2>3, <3>1 DEF IsKeyCall
    <3>3. calls' = (calls \ {c}) \cup {d}
      BY <2>4, <3>1
    <3>4. \A e, g \in calls' : e.kind = "require" /\ g.kind = "require" => e = g
      BY <3>2, <3>3 DEF KeysIInv
    <3>5. (\A e \in calls' : IsKeyCall(e)) /\ \A e \in calls' : e.kind = "require" /\ e.st = "done" => require = e.arg
      BY <3>2, <3>3 DEF KeysIInv
    <3>6. QED
      BY <2>2, <2>4, <3>4, <3>5 DEF KeysIInv
  <2>5. CASE /\ Keys!Store(c) /\ event' = TRUE
             /\ calls' = (calls \ {c})
                           \cup {[c EXCEPT !.st = "done", !.id = IF c.kind = "create" THEN next ELSE @]}
    <3>1. PICK d : d = [c EXCEPT !.st = "done", !.id = IF c.kind = "create" THEN next ELSE @]
      OBVIOUS
    <3>2. IsKeyCall(d) /\ d.kind = c.kind /\ d.arg = c.arg
      BY <2>3, <3>1 DEF IsKeyCall
    <3>3. calls' = (calls \ {c}) \cup {d}
      BY <2>5, <3>1
    <3>4. require' = IF c.kind = "require" THEN c.arg ELSE require
      BY <2>5 DEF Keys!Store
    <3>5. \A e, g \in calls' : e.kind = "require" /\ g.kind = "require" => e = g
      BY <3>2, <3>3 DEF KeysIInv
    <3>6. \A e \in calls' : IsKeyCall(e)
      BY <3>2, <3>3 DEF KeysIInv
    <3>7. \A e \in calls' : e.kind = "require" /\ e.st = "done" => require' = e.arg
      <4>1. CASE c.kind = "require"
        BY <3>2, <3>3, <3>4, <3>5, <4>1
      <4>2. CASE c.kind # "require"
        BY <3>2, <3>3, <3>4, <4>2 DEF KeysIInv
      <4>3. QED
        BY <4>1, <4>2
    <3>8. QED
      BY <2>2, <2>5, <3>5, <3>6, <3>7 DEF KeysIInv
  <2>6. QED
    BY <2>1, <2>4, <2>5
<1>2. CASE Keys!OtherChanges
  <2>1. event' = TRUE /\ UNCHANGED <<list, setting, fetch, calls, dialog, ask>>
    BY <1>2 DEF Keys!OtherChanges, Keys!view, Keys!ui
  <2>2. require' = require
    <3>1. ASSUME NEW verb \in {"toggle", "delete"}, NEW i, NEW arg, Keys!Store(Keys!Call(verb, i, arg))
          PROVE  require' = require
      <4>1. Keys!Call(verb, i, arg).kind # "require"
        BY DEF Keys!Call
      <4>2. QED
        BY <3>1, <4>1 DEF Keys!Store
    <3>2. QED
      BY <1>2, <3>1 DEF Keys!OtherChanges
  <2>3. QED
    BY <2>1, <2>2 DEF KeysIInv
<1>3. QED
  BY <1>1, <1>2

\* An answer is applied or lost: the list is asked for again where a row may have changed.
LEMMA SettledKeeps ==
  ASSUME KeysIInv, NEW c \in calls, NEW ok \in BOOLEAN, Keys!Settled(c, ok), ok => c.st = "done"
  PROVE  KeysIInv'
<1>1. calls' = calls \ {c} /\ UNCHANGED <<keys, require, list, event, ask>>
  BY DEF Keys!Settled, Keys!server
<1>2. dialog' = dialog \/ dialog' = [dialog EXCEPT !.open = FALSE]
  BY DEF Keys!Settled
<1>3. IsDialog(dialog') /\ (dialog'.open /\ dialog'.mode = "edit" => dialog'.id \in DOMAIN list)
  BY <1>2 DEF KeysIInv, IsDialog
<1>4. setting' = setting \/ (c.kind = "require" /\ ok /\ setting' = c.arg)
  BY DEF Keys!Settled
<1>5. ~event => setting' = require
  BY <1>4 DEF KeysIInv
<1>6. fetch' = fetch \/ fetch'.st = "asked"
  BY DEF Keys!Settled, Keys!Invalidate, Keys!NoFetch
<1>7. ~event => /\ fetch'.st = "no" => list = keys
                /\ fetch'.st = "read" => fetch'.list = keys
  BY <1>6 DEF KeysIInv
<1>8. QED
  BY <1>1, <1>3, <1>5, <1>7 DEF KeysIInv

LEMMA KeysQueryKeeps ==
  ASSUME KeysIInv, Keys!ServeList \/ Keys!ListArrives \/ Keys!EventArrives \/ Keys!Refresh
  PROVE  KeysIInv'
<1>1. CASE Keys!ServeList
  <2>1. fetch' = [st |-> "read", list |-> keys] /\ UNCHANGED <<keys, require, list, setting, event, calls, dialog, ask>>
    BY <1>1 DEF Keys!ServeList, Keys!server, Keys!ui
  <2>2. QED
    BY <2>1 DEF KeysIInv
<1>2. CASE Keys!ListArrives
  <2>1. /\ fetch.st = "read" /\ list' = fetch.list /\ fetch' = Keys!NoFetch
        /\ UNCHANGED <<keys, require, setting, event, calls, ask>>
    BY <1>2 DEF Keys!ListArrives, Keys!server
  <2>2. dialog' = [dialog EXCEPT !.open = @ /\ (dialog.mode = "edit" => dialog.id \in DOMAIN fetch.list)]
    BY <1>2 DEF Keys!ListArrives
  <2>3. /\ IsDialog(dialog') /\ dialog'.mode = dialog.mode /\ dialog'.id = dialog.id
        /\ dialog'.open = (dialog.open /\ (dialog.mode = "edit" => dialog.id \in DOMAIN fetch.list))
    BY <2>2 DEF KeysIInv, IsDialog
  <2>4. dialog'.open /\ dialog'.mode = "edit" => dialog'.id \in DOMAIN list'
    BY <2>1, <2>3
  <2>5. ~event => list' = keys
    BY <2>1 DEF KeysIInv
  <2>6. fetch'.st = "no"
    BY <2>1 DEF Keys!NoFetch
  <2>7. QED
    BY <2>1, <2>3, <2>4, <2>5, <2>6 DEF KeysIInv
<1>3. CASE Keys!EventArrives
  <2>1. fetch'.st = "asked" /\ setting' = require /\ UNCHANGED <<keys, require, list, calls, dialog, ask>>
    BY <1>3 DEF Keys!EventArrives, Keys!Invalidate, Keys!NoFetch, Keys!server, Keys!ui
  <2>2. QED
    BY <2>1 DEF KeysIInv
<1>4. CASE Keys!Refresh
  <2>1. fetch'.st = "asked" /\ UNCHANGED <<keys, require, list, setting, event, calls, dialog, ask>>
    BY <1>4 DEF Keys!Refresh, Keys!Invalidate, Keys!NoFetch, Keys!server, Keys!ui
  <2>2. QED
    BY <2>1 DEF KeysIInv
<1>5. QED
  BY <1>1, <1>2, <1>3, <1>4

LEMMA KeysInductive == Keys!Spec => []KeysIInv
<1>1. Keys!Init => KeysIInv
  <2> SUFFICES ASSUME Keys!Init PROVE KeysIInv
    OBVIOUS
  <2>1. dialog = [open |-> FALSE, mode |-> "create", id |-> 0, session |-> 0]
    BY DEF Keys!Init
  <2>2. IsDialog(dialog) /\ dialog.mode # "edit"
    BY <2>1 DEF IsDialog
  <2>3. fetch.st = "no" /\ list = keys /\ setting = require /\ calls = {} /\ ask.kind # "require"
    BY DEF Keys!Init, Keys!NoFetch, Keys!Nothing
  <2>4. QED
    BY <2>2, <2>3 DEF KeysIInv
<1>2. KeysIInv /\ [Keys!Next]_(Keys!vars) => KeysIInv'
  <2> SUFFICES ASSUME KeysIInv, [Keys!Next]_(Keys!vars) PROVE KeysIInv'
    OBVIOUS
  <2>1. CASE UNCHANGED Keys!vars
    BY <2>1 DEF Keys!vars, Keys!server, Keys!view, Keys!ui, KeysIInv
  <2>2. CASE Keys!Answer
    <3>1. PICK c \in calls : Keys!Settled(c, c.st = "done")
      BY <2>2 DEF Keys!Answer
    <3>2. QED
      BY <3>1, SettledKeeps
  <2>3. CASE Keys!Lose
    <3>1. PICK c \in calls : Keys!Settled(c, FALSE)
      BY <2>3 DEF Keys!Lose
    <3>2. QED
      BY <3>1, SettledKeeps
  <2>4. QED
    BY <2>1, <2>2, <2>3, UserKeysKeep, ServeKeysKeeps, KeysQueryKeeps DEF Keys!Next
<1>3. QED
  BY <1>1, <1>2, PTL DEF Keys!Spec

\* For any number of keys, requests, losses and changes by another tab or by
\* traffic: once every request is answered and every event applied, the page
\* shows the server's keys, usage and access switch, and an edit dialog only
\* over a key that exists (api-keys-card.tsx, api-access-card.tsx,
\* admin_apikeys.go).
THEOREM KeysPageSettles == Keys!Spec => []Keys!KeysPageIsServer
<1>1. KeysIInv => Keys!KeysPageIsServer
  <2> SUFFICES ASSUME KeysIInv, Keys!Quiet PROVE Keys!KeysPageIsServer
    BY DEF Keys!KeysPageIsServer
  <2>1. list = keys /\ setting = require
    BY DEF KeysIInv, Keys!Quiet
  <2>2. Keys!Meta(list) = Keys!Meta(keys) /\ \A i \in DOMAIN list : Keys!Row(list[i]) = Keys!Row(keys[i])
    BY <2>1
  <2>3. draft = "none" => Keys!Checked = require
    BY <2>1 DEF Keys!Checked
  <2>4. QED
    BY <2>1, <2>2, <2>3 DEF KeysIInv, Keys!KeysPageIsServer
<1>2. QED
  BY <1>1, KeysInductive, PTL

(***************************************************************************)
(* The search field of the request log settles on the search in force.     *)
(*                                                                         *)
(* A debounce holds the text of the field. Without one, a field that       *)
(* differs from the URL has a navigation under way that ends with the      *)
(* field's text or overwrites it.                                          *)
(***************************************************************************)

Visit == [to : Seq(Letters), own : BOOLEAN]

\* The debounce holds the text of the field.  Without a debounce, a field that differs from the
\* URL has a navigation under way that will overwrite it.
SearchIInv ==
  /\ text \in Seq(Letters) /\ url \in Seq(Letters) /\ going \in Seq(Visit)
  /\ timer \in {<<>>, <<text>>}
  /\ timer = <<>> /\ (\A i \in DOMAIN going : going[i].to = url) => text = url

LEMMA GoesTo ==
  ASSUME going \in Seq(Visit), NEW v \in Visit, going' = Append(going, v)
  PROVE  /\ going' \in Seq(Visit)
         /\ \E i \in DOMAIN going' : going'[i] = v
         /\ \A i \in DOMAIN going : i \in DOMAIN going' /\ going'[i] = going[i]
<1>1. /\ going' \in Seq(Visit) /\ Len(going') = Len(going) + 1
      /\ \A i \in 1 .. Len(going) : going'[i] = going[i]
      /\ going'[Len(going) + 1] = v
  BY AppendProperties
<1>2. DOMAIN going = 1 .. Len(going) /\ DOMAIN going' = 1 .. Len(going') /\ Len(going) \in Nat
  BY <1>1, LenProperties
<1>3. QED
  BY <1>1, <1>2

\* A navigation that takes effect leaves the ones behind it under way.
LEMMA OneLess ==
  ASSUME going \in Seq(Visit), going # <<>>, going' = Tail(going)
  PROVE  /\ going' \in Seq(Visit) /\ Head(going) \in Visit
         /\ \A i \in DOMAIN going : going[i] = Head(going) \/ \E j \in DOMAIN going' : going'[j] = going[i]
<1>1. /\ Head(going) \in Visit /\ going' \in Seq(Visit) /\ Len(going') = Len(going) - 1
      /\ \A i \in 1 .. Len(going') : going'[i] = going[i + 1]
  BY HeadTailProperties
<1>2. DOMAIN going = 1 .. Len(going) /\ DOMAIN going' = 1 .. Len(going') /\ Len(going) \in Nat
      /\ Head(going) = going[1]
  BY <1>1, LenProperties
<1>3. ASSUME NEW i \in DOMAIN going, i # 1 PROVE \E j \in DOMAIN going' : going'[j] = going[i]
  <2>1. i - 1 \in 1 .. Len(going') /\ (i - 1) + 1 = i
    BY <1>1, <1>2, <1>3
  <2>2. QED
    BY <1>1, <1>2, <2>1
<1>4. QED
  BY <1>1, <1>2, <1>3

LEMMA FieldKept ==
  ASSUME SearchIInv, Requests!Type \/ Requests!Fire \/ Requests!ChangeUrl \/ Requests!Arrive
  PROVE  SearchIInv'
<1>1. CASE Requests!Type
  <2>1. text' \in Seq(Letters)
    <3>1. CASE \E l \in Letters : text' = Append(text, l)
      BY <3>1, AppendProperties DEF SearchIInv
    <3>2. CASE text # <<>> /\ text' \in {<<>>, SubSeq(text, 1, Len(text) - 1)}
      <4>1. Len(text) \in Nat /\ Len(text) # 0
        BY <3>2, EmptySeq, LenProperties DEF SearchIInv
      <4>2. SubSeq(text, 1, Len(text) - 1) \in Seq(Letters)
        BY <4>1, SubSeqProperties DEF SearchIInv
      <4>3. QED
        BY <3>2, <4>2, EmptySeq
    <3>3. QED
      BY <1>1, <3>1, <3>2 DEF Requests!Type
  <2>2. timer' = (IF text' = url THEN <<>> ELSE <<text'>>) /\ UNCHANGED <<going, url>>
    BY <1>1 DEF Requests!Type, Requests!Debounce
  <2>3. <<text'>> # <<>>
    OBVIOUS
  <2>4. QED
    BY <2>1, <2>2, <2>3 DEF SearchIInv
<1>2. CASE Requests!Fire
  <2>1. timer = <<text>> /\ timer' = <<>> /\ going' = Append(going, [to |-> timer[1], own |-> TRUE])
        /\ UNCHANGED <<text, url>>
    BY <1>2 DEF Requests!Fire, SearchIInv
  <2>2. PICK v \in Visit : v.to = text /\ going' = Append(going, v)
    <3>1. [to |-> text, own |-> TRUE] \in Visit
      BY DEF Visit, SearchIInv
    <3>2. timer[1] = text
      BY <2>1
    <3>3. QED
      BY <2>1, <3>1, <3>2
  <2>3. going' \in Seq(Visit) /\ \E i \in DOMAIN going' : going'[i].to = text
    BY <2>2, GoesTo DEF SearchIInv
  <2>4. QED
    BY <2>1, <2>3 DEF SearchIInv
<1>3. CASE Requests!ChangeUrl
  <2>1. UNCHANGED <<text, timer, url>>
    BY <1>3 DEF Requests!ChangeUrl
  <2>2. PICK u \in {<<>>} \cup {<<l>> : l \in Letters} :
          u # url /\ going' = Append(going, [to |-> u, own |-> FALSE])
    BY <1>3 DEF Requests!ChangeUrl
  <2>3. u \in Seq(Letters)
    <3>1. CASE u = <<>>
      BY <3>1, EmptySeq
    <3>2. CASE u \in {<<l>> : l \in Letters}
      <4>1. PICK l \in Letters : u = <<l>>
        BY <3>2
      <4>2. QED
        BY <4>1
    <3>3. QED
      BY <3>1, <3>2
  <2>4. PICK v \in Visit : v.to = u /\ going' = Append(going, v)
    <3>1. [to |-> u, own |-> FALSE] \in Visit
      BY <2>3 DEF Visit
    <3>2. QED
      BY <2>2, <3>1
  <2>5. going' \in Seq(Visit) /\ \E i \in DOMAIN going' : going'[i].to = u
    BY <2>4, GoesTo DEF SearchIInv
  <2>6. QED
    BY <2>1, <2>2, <2>5 DEF SearchIInv
<1>4. CASE Requests!Arrive
  <2>1. /\ going # <<>> /\ going' = Tail(going) /\ url' = Head(going).to
        /\ text' = IF url' = url THEN text ELSE url'
        /\ timer' = IF text' = text THEN timer ELSE <<>>
    BY <1>4 DEF Requests!Arrive, Requests!FieldFollows
  <2>2. /\ going' \in Seq(Visit) /\ Head(going) \in Visit
        /\ \A i \in DOMAIN going : going[i] = Head(going) \/ \E j \in DOMAIN going' : going'[j] = going[i]
    BY <2>1, OneLess DEF SearchIInv
  <2>3. url' \in Seq(Letters)
    BY <2>1, <2>2 DEF Visit
  <2>4. CASE url' = url
    <3>1. UNCHANGED <<text, timer, url>>
      BY <2>1, <2>4
    <3>2. (\A j \in DOMAIN going' : going'[j].to = url) => \A i \in DOMAIN going : going[i].to = url
      BY <2>1, <2>2, <2>4
    <3>3. QED
      BY <2>2, <3>1, <3>2 DEF SearchIInv
  <2>5. CASE url' # url
    BY <2>1, <2>2, <2>3, <2>5 DEF SearchIInv
  <2>6. QED
    BY <2>4, <2>5
<1>5. QED
  BY <1>1, <1>2, <1>3, <1>4

LEMMA SearchInductive == Requests!Spec => []SearchIInv
<1>1. Requests!Init => SearchIInv
  BY EmptySeq DEF Requests!Init, SearchIInv
<1>2. SearchIInv /\ [Requests!Next]_(Requests!vars) => SearchIInv'
  <2> SUFFICES ASSUME SearchIInv, [Requests!Next]_(Requests!vars) PROVE SearchIInv'
    OBVIOUS
  <2>1. CASE UNCHANGED <<text, timer, going, url>>
    BY <2>1 DEF SearchIInv
  <2>2. CASE Requests!LogRequest \/ Requests!Trim \/ Requests!UpdateSearch \/ Requests!Tick \/ Requests!Serve \/ Requests!Served \/ Requests!OpenRow
             \/ Requests!StepTo \/ Requests!Resize
    BY <2>1, <2>2 DEF Requests!LogRequest, Requests!Trim, Requests!UpdateSearch, Requests!Tick, Requests!Serve, Requests!Served, Requests!OpenRow, Requests!StepTo,
                      Requests!Resize, Requests!search
  <2>3. CASE UNCHANGED Requests!vars
    BY <2>1, <2>3 DEF Requests!vars, Requests!search
  <2>4. QED
    BY <2>2, <2>3, FieldKept DEF Requests!Next
<1>3. QED
  BY <1>1, <1>2, PTL DEF Requests!Spec

\* For any letters and bounds: once the debounce has run and no navigation is
\* under way, the search field shows what the list is filtered by, however
\* typing, clearing and the back button overlapped with navigations
\* (requests-toolbar.tsx).
THEOREM SearchFieldSettles == Requests!Spec => []Requests!FieldShowsSearch
<1>1. SearchIInv => Requests!FieldShowsSearch
  BY DEF SearchIInv, Requests!FieldShowsSearch
<1>2. QED
  BY <1>1, SearchInductive, PTL

\* A set of naturals that has a member has a least one.
LEMMA LeastPosition ==
  ASSUME NEW T, T \subseteq Nat, T # {}
  PROVE  \E x \in T : \A y \in T : x <= y
<1>1. IsWellFoundedOn(OpToRel(<, Nat), Nat)
  BY NatLessThanWellFounded
<1>2. PICK x \in T : \A y \in T : ~ (<<y, x>> \in OpToRel(<, Nat))
  BY <1>1, WFMin
<1>3. \A y \in T : ~ (y < x)
  BY <1>2 DEF OpToRel
<1>4. QED
  BY <1>3

(***************************************************************************)
(* The detail sheet keeps its request, and each fact has one place.        *)
(*                                                                         *)
(* The id of a request determines the rest of it, and every row anywhere,  *)
(* in the log, in an answer under way, in the cache or on the page, is of  *)
(* that kind: a row found by the id of the chosen one is the chosen one.   *)
(***************************************************************************)

\* The container widths are numbers, and so are the bounds and the rows of a page.
RequestBounds == Widths \subseteq Nat /\ Widths # {} /\ LogPage \in Nat /\ MaxMoves \in Nat

\* What the server logs: the second of a request follows from its number.
Logged == {[id |-> i, ts |-> i \div 2] : i \in Nat}
Listed(answer) == \A i \in DOMAIN answer.rows : answer.rows[i] \in Logged

RequestsIInv ==
  /\ RequestBounds /\ persist \in BOOLEAN /\ log \in Seq(Logged)
  /\ params \in Requests!Params /\ cache = [p \in Requests!Params |-> cache[p]]
  /\ asked = <<>> \/ \E p \in Requests!Params : \E d : asked = <<[params |-> p, data |-> d]>> /\ (persist => Listed(d))
  /\ persist => Listed(shown) /\ \A p \in Requests!Params : Listed(cache[p])
  /\ persist => \E r \in Logged : selection = [key |-> <<r.id, 0>>, record |-> r]
  /\ width \in Widths /\ moves \in 0 .. MaxMoves

\* Sorted by number, up or down, every place from the first to the last is taken.
LEMMA CountedAlike == \A S : Requests!Cardinality(S) = Cardinality(S)
<1> TAKE S
<1>1. Requests!Cardinality(S) = Cardinality(S)
  BY Zenon DEF Requests!Cardinality, Cardinality
<1>2. QED
  BY <1>1

\* The requests of a log are finitely many.
LEMMA LogFinite ==
  ASSUME log \in Seq(Logged)
  PROVE  IsFiniteSet(Requests!Range(log)) /\ Requests!Range(log) \subseteq Logged
<1>1. DOMAIN log = 1 .. Len(log) /\ Len(log) \in Nat /\ \A i \in DOMAIN log : log[i] \in Logged
  BY LenProperties, ElementOfSeq
<1>2. Requests!Range(log) = {log[i] : i \in 1 .. Len(log)}
  BY <1>1 DEF Requests!Range
<1>3. IsFiniteSet(1 .. Len(log))
  BY <1>1, FS_Interval
<1>4. [i \in 1 .. Len(log) |-> log[i]] \in Surjection(1 .. Len(log), {log[i] : i \in 1 .. Len(log)})
  BY DEF Surjection
<1>5. IsFiniteSet({log[i] : i \in 1 .. Len(log)})
  BY <1>3, <1>4, FS_Surjection
<1>6. QED
  BY <1>1, <1>2, <1>5

LEMMA PlacesTaken ==
  ASSUME persist, log \in Seq(Logged), NEW p \in Requests!Params, NEW num \in 1 .. Cardinality(Requests!Range(log))
  PROVE  \E r \in Requests!Range(log) : Requests!Place(r, p) = num - 1
<1> DEFINE recs == Requests!Range(log)
           ahead(r) == {q \in recs : Requests!Before(q, r, p)}
           pos == [r \in recs |-> Cardinality(ahead(r))]
           last == Cardinality(recs) - 1
<1>1. IsFiniteSet(recs) /\ recs \subseteq Logged
  BY LogFinite
<1>2. \A q, r \in Logged : q.id \in Nat /\ (q.id = r.id => q = r)
  BY DEF Logged
<1>3. \A q, r \in recs : Requests!Before(q, r, p) <=> IF p.order = "asc" THEN q.id < r.id ELSE r.id < q.id
  BY DEF Requests!Before
<1>4. ASSUME NEW r \in recs
      PROVE  /\ ahead(r) \subseteq recs /\ r \notin ahead(r) /\ IsFiniteSet(ahead(r))
             /\ Cardinality(ahead(r)) \in Nat /\ Cardinality(ahead(r)) < Cardinality(recs)
             /\ Cardinality(recs) \in Nat
  <2>1. ahead(r) \subseteq recs /\ r \notin ahead(r)
    BY <1>1, <1>2, <1>3
  <2>2. IsFiniteSet(ahead(r)) /\ Cardinality(ahead(r)) <= Cardinality(recs)
        /\ (Cardinality(recs) = Cardinality(ahead(r)) => recs = ahead(r))
    BY <1>1, <2>1, FS_Subset
  <2>3. Cardinality(ahead(r)) \in Nat /\ Cardinality(recs) \in Nat
    BY <1>1, <2>2, FS_CardinalityType
  <2>4. QED
    BY <2>1, <2>2, <2>3
<1>5. ASSUME NEW q \in recs, NEW r \in recs, Requests!Before(q, r, p)
      PROVE  Cardinality(ahead(q)) < Cardinality(ahead(r))
  <2>1. ahead(q) \subseteq ahead(r) /\ q \in ahead(r) /\ q \notin ahead(q)
    BY <1>1, <1>2, <1>3, <1>5
  <2>2. /\ IsFiniteSet(ahead(r)) /\ Cardinality(ahead(r)) \in Nat /\ Cardinality(ahead(q)) \in Nat
    BY <1>4
  <2>3. Cardinality(ahead(q)) <= Cardinality(ahead(r))
        /\ (Cardinality(ahead(r)) = Cardinality(ahead(q)) => ahead(r) = ahead(q))
    BY <2>1, <2>2, FS_Subset
  <2>4. QED
    BY <2>1, <2>2, <2>3
<1>6. pos \in Injection(recs, 0 .. last)
  <2>1. ASSUME NEW r \in recs PROVE Cardinality(ahead(r)) \in 0 .. last
    <3>1. /\ Cardinality(ahead(r)) \in Nat /\ Cardinality(ahead(r)) < Cardinality(recs)
          /\ Cardinality(recs) \in Nat
      BY <1>4
    <3> HIDE DEF recs, ahead
    <3>2. QED
      BY <3>1
  <2>2. pos \in [recs -> 0 .. last]
    BY <2>1
  <2>3. ASSUME NEW q \in recs, NEW r \in recs, q # r PROVE Cardinality(ahead(q)) # Cardinality(ahead(r))
    <3>1. q.id # r.id /\ q.id \in Nat /\ r.id \in Nat
      BY <1>1, <1>2, <2>3
    <3>2. Requests!Before(q, r, p) \/ Requests!Before(r, q, p)
      BY <1>3, <3>1
    <3>3. Cardinality(ahead(q)) \in Nat /\ Cardinality(ahead(r)) \in Nat
      BY <1>4
    <3>4. Cardinality(ahead(q)) < Cardinality(ahead(r)) \/ Cardinality(ahead(r)) < Cardinality(ahead(q))
      BY <1>5, <3>2
    <3> HIDE DEF ahead
    <3>5. QED
      BY <3>3, <3>4
  <2>4. \A q, r \in recs : pos[q] = Cardinality(ahead(q)) /\ pos[r] = Cardinality(ahead(r))
    OBVIOUS
  <2> HIDE DEF pos, ahead
  <2>5. \A q, r \in recs : pos[q] = pos[r] => q = r
    BY <2>3, <2>4
  <2>6. QED
    BY <2>2, <2>5 DEF Injection, IsInjective
<1>7. Cardinality(recs) \in Nat /\ Cardinality(recs) = Cardinality(0 .. last) /\ IsFiniteSet(0 .. last)
  <2>1. Cardinality(recs) \in Nat
    BY <1>1, FS_CardinalityType
  <2>2. last \in Int /\ 0 \in Int
    BY <2>1
  <2>3. QED
    BY <2>1, <2>2, FS_Interval
<1>8. pos \in Surjection(recs, 0 .. last)
  BY <1>6, <1>7, FS_Injection
<1>9. num - 1 \in 0 .. last
  BY <1>7
<1>10. PICK r \in recs : pos[r] = num - 1
  BY <1>8, <1>9 DEF Surjection
<1>11. Requests!Place(r, p) = pos[r]
  BY CountedAlike DEF Requests!Place
<1>12. QED
  BY <1>10, <1>11

\* What the server answers lists rows of the log.
LEMMA AnswerListed ==
  ASSUME log \in Seq(Logged), LogPage \in Nat, persist, NEW p \in Requests!Params
  PROVE  Listed(Requests!Answer(p))
<1> DEFINE recs == Requests!Range(log)
           rows == Requests!SortRecords(p)
           start == Requests!Min({(p.page - 1) * LogPage, Len(rows)})
           end == Requests!Min({start + LogPage, Len(rows)})
<1>1. log \in Seq(Logged) /\ recs \subseteq Logged /\ IsFiniteSet(recs)
  BY LogFinite
<1>2. Cardinality(recs) \in Nat /\ Requests!Cardinality(recs) = Cardinality(recs)
  BY <1>1, FS_CardinalityType, CountedAlike
<1>3. rows \in Seq(Logged) /\ Len(rows) = Cardinality(recs)
  <2>1. rows = [num \in 1 .. Cardinality(recs) |-> CHOOSE r \in recs : Requests!Place(r, p) = num - 1]
    BY <1>2 DEF Requests!SortRecords
  <2>2. ASSUME NEW num \in 1 .. Cardinality(recs) PROVE (CHOOSE r \in recs : Requests!Place(r, p) = num - 1) \in recs
    <3>1. \E r \in recs : Requests!Place(r, p) = num - 1
      BY <1>1, PlacesTaken
    <3> HIDE DEF recs
    <3>2. QED
      BY <3>1
  <2> HIDE DEF recs, rows
  <2>3. rows \in [1 .. Cardinality(recs) -> Logged]
    BY <1>1, <2>1, <2>2
  <2>4. QED
    BY <1>2, <2>3
<1> HIDE DEF rows, recs
<1>4. \A x, y \in Nat : Requests!Min({x, y}) \in Nat /\ Requests!Min({x, y}) <= x /\ Requests!Min({x, y}) <= y
  <2> TAKE x, y \in Nat
  <2>1. \E m \in {x, y} : \A k \in {x, y} : m <= k
    OBVIOUS
  <2>2. Requests!Min({x, y}) \in {x, y} /\ \A k \in {x, y} : Requests!Min({x, y}) <= k
    BY <2>1 DEF Requests!Min
  <2>3. QED
    BY <2>2
<1>5. start \in Nat /\ end \in Nat /\ end <= Len(rows)
  <2>1. p.page \in 1 .. 2 /\ LogPage \in Nat /\ Len(rows) \in Nat
    BY <1>2, <1>3 DEF Requests!Params
  <2>2. (p.page - 1) * LogPage \in Nat
    <3>1. p.page = 1 \/ p.page = 2
      BY <2>1
    <3>2. QED
      BY <2>1, <3>1
  <2>3. start \in Nat
    BY <1>4, <2>1, <2>2
  <2>4. start + LogPage \in Nat
    BY <2>1, <2>3
  <2>5. QED
    BY <1>4, <2>1, <2>3, <2>4
<1> HIDE DEF start, end
<1>6. Requests!Answer(p) = [rows |-> SubSeq(rows, start + 1, end), total |-> Len(rows), page |-> p.page]
  BY DEF Requests!Answer, rows, start, end
<1>7. SubSeq(rows, start + 1, end) \in Seq(Logged)
  <2>1. \A i \in DOMAIN SubSeq(rows, start + 1, end) : SubSeq(rows, start + 1, end)[i] \in Logged
    BY <1>3, <1>5
  <2>2. QED
    BY <1>3, <1>5, <2>1
<1>8. QED
  BY <1>6, <1>7, ElementOfSeq, LenProperties DEF Listed

LEMMA RequestsStart ==
  ASSUME RequestBounds, Requests!Init
  PROVE  RequestsIInv
<1>1. log \in Seq(Logged)
  <2>1. ASSUME NEW num \in 1 .. 3 PROVE [id |-> 4 - num, ts |-> (4 - num) \div 2] \in Logged
    <3>1. 4 - num \in Nat
      OBVIOUS
    <3>2. QED
      BY <3>1 DEF Logged
  <2>2. log = [num \in 1 .. 3 |-> [id |-> 4 - num, ts |-> (4 - num) \div 2]]
    BY DEF Requests!Init
  <2>3. log \in [1 .. 3 -> Logged]
    BY <2>1, <2>2
  <2>4. 3 \in Nat
    OBVIOUS
  <2> DEFINE last == 3
  <2>5. last \in Nat /\ log \in [1 .. last -> Logged]
    BY <2>3, <2>4
  <2> HIDE DEF last
  <2>6. QED
    BY <2>5
<1>2. Requests!Default \in Requests!Params /\ params = Requests!Default
  BY DEF Requests!Default, Requests!Params, Requests!Init
<1>3. Requests!Unread.rows = <<>> /\ Listed(Requests!Unread)
  BY DEF Requests!Unread, Listed
<1>4. width \in Widths
  <2>1. \E w \in Widths : \A v \in Widths : w <= v
    BY LeastPosition DEF RequestBounds
  <2>2. QED
    BY <2>1 DEF Requests!Init, Requests!Min
<1>5. selection = [key |-> <<0, 0>>, record |-> [id |-> 0, ts |-> 0]] /\ [id |-> 0, ts |-> 0] \in Logged
  <2>1. 0 \in Nat /\ 0 \div 2 = 0
    OBVIOUS
  <2>2. QED
    BY <2>1 DEF Requests!Init, Requests!NoSelection, Logged
<1>6. \E r \in Logged : selection = [key |-> <<r.id, 0>>, record |-> r]
  <2> DEFINE r == [id |-> 0, ts |-> 0]
  <2>1. r.id = 0 /\ r \in Logged
    BY <1>5
  <2>2. QED
    BY <1>5, <2>1
<1>7. /\ persist \in BOOLEAN /\ asked = <<>> /\ moves = 0 /\ shown = cache[Requests!Default]
      /\ cache = [[p \in Requests!Params |-> Requests!Unread] EXCEPT ![Requests!Default] = Requests!Answer(Requests!Default)]
  BY DEF Requests!Init
<1>8. cache = [p \in Requests!Params |-> cache[p]]
  BY <1>7
<1>9. ASSUME persist PROVE Listed(shown) /\ \A p \in Requests!Params : Listed(cache[p])
  <2>1. Listed(Requests!Answer(Requests!Default))
    BY <1>1, <1>2, <1>9, AnswerListed DEF RequestBounds
  <2>2. \A p \in Requests!Params : cache[p] = Requests!Unread \/ cache[p] = Requests!Answer(Requests!Default)
    BY <1>2, <1>7
  <2>3. QED
    BY <1>2, <1>3, <1>7, <2>1, <2>2
<1>10. moves \in 0 .. MaxMoves
  BY <1>7 DEF RequestBounds
<1>11. QED
  BY <1>1, <1>2, <1>4, <1>6, <1>7, <1>8, <1>9, <1>10 DEF RequestsIInv

\* The row that is chosen has the key of its number.
LEMMA ChosenByNumber ==
  ASSUME RequestsIInv, persist, NEW num \in DOMAIN shown.rows, Requests!Choose(num)
  PROVE  \E r \in Logged : selection' = [key |-> <<r.id, 0>>, record |-> r]
<1>1. shown.rows[num] \in Logged
  BY DEF RequestsIInv, Listed
<1>2. Requests!Keys[num] = <<shown.rows[num].id, 0>>
  BY DEF Requests!Keys, Requests!RowKey
<1>3. selection' = [key |-> <<shown.rows[num].id, 0>>, record |-> shown.rows[num]]
  BY <1>2 DEF Requests!Choose
<1>4. QED
  BY <1>1, <1>3

\* What the page shows after a change of the URL or the cache is an answer.
LEMMA ShownListed ==
  ASSUME Listed(shown), NEW p \in Requests!Params, NEW c, \A q \in Requests!Params : Listed(c[q]), Requests!Show(p, c)
  PROVE  Listed(shown')
BY DEF Requests!Show, Requests!Shown

LEMMA ListKeeps ==
  ASSUME RequestsIInv, [Requests!Next]_(Requests!vars)
  PROVE  RequestsIInv'
<1> USE DEF RequestBounds
<1> DEFINE Rest(a, c, s) ==
             /\ a = <<>> \/ \E p \in Requests!Params : \E d : a = <<[params |-> p, data |-> d]>> /\ (persist => Listed(d))
             /\ persist => Listed(s) /\ \A p \in Requests!Params : Listed(c[p])
<1>1. MaxMoves \in Nat /\ moves \in 0 .. MaxMoves /\ Listed(Requests!Unread)
  BY DEF RequestsIInv, Requests!Unread, Listed
<1>2. ASSUME moves < MaxMoves, moves' = moves + 1 PROVE moves' \in 0 .. MaxMoves
  BY <1>1, <1>2
<1>3. CASE Requests!Type \/ Requests!ChangeUrl
  <2>1. moves' \in 0 .. MaxMoves
    BY <1>2, <1>3 DEF Requests!Type, Requests!ChangeUrl
  <2>2. UNCHANGED <<log, persist, params, cache, asked, shown, selection, width>>
    BY <1>3 DEF Requests!Type, Requests!ChangeUrl, Requests!list
  <2>3. QED
    BY <2>1, <2>2 DEF RequestsIInv, Listed
<1>4. CASE Requests!Fire \/ Requests!Arrive \/ UNCHANGED Requests!vars
  <2>1. UNCHANGED <<log, persist, params, cache, asked, shown, selection, width, moves>>
    BY <1>4 DEF Requests!Fire, Requests!Arrive, Requests!list, Requests!vars
  <2>2. QED
    BY <2>1 DEF RequestsIInv, Listed
<1>5. CASE Requests!LogRequest
  <2>1. log # <<>> /\ log' = <<[id |-> Head(log).id + 1, ts |-> (Head(log).id + 1) \div 2]>> \o log
        /\ UNCHANGED <<persist, params, cache, asked, shown, selection, width, moves>>
    BY <1>5 DEF Requests!LogRequest
  <2>2. Head(log) \in Logged /\ log \in Seq(Logged)
    BY <2>1, HeadTailProperties DEF RequestsIInv
  <2>3. Head(log).id + 1 \in Nat
    <3>1. PICK i \in Nat : Head(log) = [id |-> i, ts |-> i \div 2]
      BY <2>2 DEF Logged
    <3>2. Head(log).id = i
      BY <3>1
    <3>3. QED
      BY <3>2
  <2>4. [id |-> Head(log).id + 1, ts |-> (Head(log).id + 1) \div 2] \in Logged
    BY <2>3 DEF Logged
  <2>5. log' \in Seq(Logged)
    <3>1. <<[id |-> Head(log).id + 1, ts |-> (Head(log).id + 1) \div 2]>> \in Seq(Logged)
      BY <2>4
    <3>2. QED
      BY <2>1, <2>2, <3>1, ConcatProperties
  <2>6. QED
    BY <2>1, <2>5 DEF RequestsIInv, Listed
<1>6. CASE Requests!Trim
  <2>1. Len(log) > LogPage /\ log' = SubSeq(log, 1, Len(log) - 1)
        /\ UNCHANGED <<persist, params, cache, asked, shown, selection, width, moves>>
    BY <1>6 DEF Requests!Trim
  <2>2. log \in Seq(Logged) /\ Len(log) \in Nat
    BY LenProperties DEF RequestsIInv
  <2>3. SubSeq(log, 1, Len(log) - 1) \in Seq(Logged)
    <3>1. \A i \in 1 .. Len(log) - 1 : log[i] \in Logged
      BY <2>2, ElementOfSeq
    <3>2. QED
      BY <2>2, <3>1, SubSeqProperties
  <2>4. log' \in Seq(Logged)
    BY <2>1, <2>3
  <2>5. QED
    BY <2>1, <2>4 DEF RequestsIInv, Listed
<1>7. CASE Requests!UpdateSearch
  <2>1. PICK p \in Requests!Params : params' = p /\ Requests!Show(p, cache) /\ Requests!Ask(p)
    BY <1>7 DEF Requests!UpdateSearch
  <2>2. UNCHANGED <<log, persist, cache, selection, width>> /\ moves' \in 0 .. MaxMoves
    BY <1>2, <1>7 DEF Requests!UpdateSearch
  <2>3. asked' = <<[params |-> p, data |-> Requests!Unread]>>
    BY <2>1 DEF Requests!Ask
  <2>4. persist => Listed(shown')
    BY <2>1, ShownListed DEF RequestsIInv
  <2>5. Rest(asked', cache', shown')
    BY <1>1, <2>2, <2>3, <2>4 DEF RequestsIInv
  <2>6. QED
    BY <2>1, <2>2, <2>5 DEF RequestsIInv, Listed
<1>8. CASE Requests!Tick
  <2>1. asked' = <<[params |-> params, data |-> Requests!Unread]>>
        /\ UNCHANGED <<log, persist, params, cache, shown, selection, width, moves>>
    BY <1>8 DEF Requests!Tick, Requests!Ask
  <2>2. Rest(asked', cache', shown')
    BY <1>1, <2>1 DEF RequestsIInv
  <2>3. QED
    BY <2>1, <2>2 DEF RequestsIInv, Listed
<1>9. CASE Requests!Serve
  <2>1. asked # <<>> /\ asked' = <<[asked[1] EXCEPT !.data = Requests!Answer(asked[1].params)]>>
        /\ UNCHANGED <<log, persist, params, cache, shown, selection, width, moves>>
    BY <1>9 DEF Requests!Serve
  <2>2. PICK p \in Requests!Params : \E d : asked = <<[params |-> p, data |-> d]>>
    BY <2>1 DEF RequestsIInv
  <2>3. asked' = <<[params |-> p, data |-> Requests!Answer(p)]>>
    BY <2>1, <2>2
  <2>4. persist => Listed(Requests!Answer(p))
    BY AnswerListed DEF RequestsIInv, RequestBounds
  <2>5. Rest(asked', cache', shown')
    BY <2>1, <2>3, <2>4 DEF RequestsIInv
  <2>6. QED
    BY <2>1, <2>5 DEF RequestsIInv, Listed
<1>10. CASE Requests!Served
  <2>1. /\ asked # <<>> /\ asked' = <<>> /\ cache' = [cache EXCEPT ![asked[1].params] = asked[1].data]
        /\ Requests!Show(params, cache')
        /\ UNCHANGED <<log, persist, params, selection, width, moves>>
    BY <1>10 DEF Requests!Served
  <2>2. PICK p \in Requests!Params : \E d : asked = <<[params |-> p, data |-> d]>> /\ (persist => Listed(d))
    BY <2>1 DEF RequestsIInv
  <2>3. PICK d : asked = <<[params |-> p, data |-> d]>> /\ (persist => Listed(d))
    BY <2>2
  <2>4. cache' = [cache EXCEPT ![p] = d]
    BY <2>1, <2>3
  <2>5. cache' = [q \in Requests!Params |-> cache'[q]] /\ \A q \in Requests!Params : cache'[q] = d \/ cache'[q] = cache[q]
    BY <2>4 DEF RequestsIInv
  <2>6. persist => \A q \in Requests!Params : Listed(cache'[q])
    BY <2>3, <2>5 DEF RequestsIInv
  <2>7. persist => Listed(shown')
    BY <2>1, <2>6, ShownListed DEF RequestsIInv
  <2>8. Rest(asked', cache', shown')
    BY <2>1, <2>6, <2>7
  <2>9. QED
    BY <2>1, <2>5, <2>8 DEF RequestsIInv, Listed
<1>11. CASE Requests!OpenRow \/ Requests!StepTo
  <2>1. PICK num \in DOMAIN shown.rows : Requests!Choose(num)
    BY <1>11 DEF Requests!OpenRow, Requests!StepTo
  <2>2. UNCHANGED <<log, persist, params, cache, asked, shown, width>>
    BY <1>11 DEF Requests!OpenRow, Requests!StepTo
  <2>3. persist => \E r \in Logged : selection' = [key |-> <<r.id, 0>>, record |-> r]
    BY <2>1, ChosenByNumber
  <2>4. moves' \in 0 .. MaxMoves
    BY <1>1, <1>2, <1>11 DEF Requests!OpenRow, Requests!StepTo
  <2>5. QED
    BY <2>2, <2>3, <2>4 DEF RequestsIInv, Listed
<1>12. CASE Requests!Resize
  <2>1. width' \in Widths /\ UNCHANGED <<log, persist, params, cache, asked, shown, selection, moves>>
    BY <1>12 DEF Requests!Resize, Requests!list
  <2>2. QED
    BY <2>1 DEF RequestsIInv, Listed
<1>13. QED
  BY <1>3, <1>4, <1>5, <1>6, <1>7, <1>8, <1>9, <1>10, <1>11, <1>12 DEF Requests!Next

LEMMA RequestsInductive == RequestBounds /\ Requests!Spec => []RequestsIInv
<1>1. RequestBounds /\ Requests!Init => RequestsIInv
  BY RequestsStart
<1>2. RequestsIInv /\ [Requests!Next]_(Requests!vars) => RequestsIInv'
  BY ListKeeps
<1>3. QED
  BY <1>1, <1>2, PTL DEF Requests!Spec

\* The row under the key of the chosen request is that request.
LEMMA SheetKeepsRequest == RequestsIInv => Requests!SheetShowsChosen
<1> SUFFICES ASSUME RequestsIInv, persist PROVE Requests!SelectedRecord = selection.record
  BY DEF Requests!SheetShowsChosen
<1>1. PICK r \in Logged : selection = [key |-> <<r.id, 0>>, record |-> r]
  BY DEF RequestsIInv
<1> DEFINE at == Requests!SelectedIndex
<1>2. ASSUME at > 0 PROVE shown.rows[at] = r
  <2>1. at \in DOMAIN Requests!Keys /\ Requests!Keys[at] = selection.key
    <3>1. CASE \E num \in DOMAIN Requests!Keys : Requests!Keys[num] = selection.key
      BY <3>1 DEF Requests!SelectedIndex
    <3>2. CASE ~ \E num \in DOMAIN Requests!Keys : Requests!Keys[num] = selection.key
      <4>1. at = 0
        BY <3>2 DEF Requests!SelectedIndex
      <4>2. QED
        BY <1>2, <4>1
    <3>3. QED
      BY <3>1, <3>2
  <2>2. at \in DOMAIN shown.rows /\ <<shown.rows[at].id, 0>> = <<r.id, 0>>
    BY <1>1, <2>1 DEF Requests!Keys, Requests!RowKey
  <2>3. shown.rows[at] \in Logged /\ shown.rows[at].id = r.id
    BY <2>2 DEF RequestsIInv, Listed
  <2>4. QED
    BY <2>3 DEF Logged
<1>3. QED
  BY <1>1, <1>2 DEF Requests!SelectedRecord

\* Where each fact stands, at any width of a table.
LEMMA OnePlace ==
  ASSUME NEW w \in Nat, ~ (w < 42), NEW f \in Requests!RequestDetail
  PROVE  \E q : {p \in Requests!RequestColumns(w) : p[1] = f} = {q}
<1>1. Requests!RequestColumns(w) =
        {<<"time", "time">>, <<"tokens", "tokens">>, <<"status", "status">>, <<"account", "account">>,
         <<"model", "model">>, <<"credits", "credits">>,
         <<"error", IF w >= 64 THEN "error" ELSE "status">>,
         <<"api_key", IF w >= 68 THEN "api_key" ELSE "account">>,
         <<"endpoint", IF w >= 80 THEN "endpoint" ELSE "model">>,
         <<"duration", IF w >= 64 THEN "duration" ELSE "credits">>}
  <2>1. CASE w >= 64 /\ w >= 68 /\ w >= 80
    BY <2>1 DEF Requests!RequestColumns, Requests!StatusCell, Requests!AccountCell, Requests!ModelCell,
                Requests!CreditsCell, Requests!ErrorCell, Requests!WideOnly, Requests!ApiKeyColumn, Requests!EndpointColumn
  <2>2. CASE w >= 64 /\ w >= 68 /\ ~ (w >= 80)
    BY <2>2 DEF Requests!RequestColumns, Requests!StatusCell, Requests!AccountCell, Requests!ModelCell,
                Requests!CreditsCell, Requests!ErrorCell, Requests!WideOnly, Requests!ApiKeyColumn, Requests!EndpointColumn
  <2>3. CASE w >= 64 /\ ~ (w >= 68) /\ ~ (w >= 80)
    BY <2>3 DEF Requests!RequestColumns, Requests!StatusCell, Requests!AccountCell, Requests!ModelCell,
                Requests!CreditsCell, Requests!ErrorCell, Requests!WideOnly, Requests!ApiKeyColumn, Requests!EndpointColumn
  <2>4. CASE ~ (w >= 64) /\ ~ (w >= 68) /\ ~ (w >= 80)
    BY <2>4 DEF Requests!RequestColumns, Requests!StatusCell, Requests!AccountCell, Requests!ModelCell,
                Requests!CreditsCell, Requests!ErrorCell, Requests!WideOnly, Requests!ApiKeyColumn, Requests!EndpointColumn
  <2>5. QED
    BY <2>1, <2>2, <2>3, <2>4
<1> DEFINE place(g) ==
      IF g = "error" THEN (IF w >= 64 THEN "error" ELSE "status")
      ELSE IF g = "api_key" THEN (IF w >= 68 THEN "api_key" ELSE "account")
      ELSE IF g = "endpoint" THEN (IF w >= 80 THEN "endpoint" ELSE "model")
      ELSE IF g = "duration" THEN (IF w >= 64 THEN "duration" ELSE "credits") ELSE g
<1>2. Requests!RequestColumns(w) = {<<g, place(g)>> : g \in Requests!RequestDetail}
  BY <1>1 DEF Requests!RequestDetail
<1> HIDE DEF place
<1>3. {p \in Requests!RequestColumns(w) : p[1] = f} = {<<f, place(f)>>}
  BY <1>2
<1>4. QED
  BY <1>3

LEMMA FactsOnce == RequestsIInv => Requests!EachFactOnce
<1> SUFFICES ASSUME RequestsIInv, NEW f \in {p[1] : p \in Requests!RequestColumns(80)}
             PROVE  LET places == {p \in Requests!Facts(width) : p[1] = f}
                    IN  IF width < 42 THEN Cardinality(places) <= 1 /\ (places # {} \/ f \in Requests!RequestDetail)
                        ELSE Cardinality(places) = 1
  BY CountedAlike DEF Requests!EachFactOnce
<1> DEFINE places == {p \in Requests!Facts(width) : p[1] = f}
<1>1. f \in Requests!RequestDetail
  BY DEF Requests!RequestColumns, Requests!StatusCell, Requests!AccountCell, Requests!ModelCell, Requests!CreditsCell,
         Requests!ErrorCell, Requests!WideOnly, Requests!ApiKeyColumn, Requests!EndpointColumn, Requests!RequestDetail
<1>2. width \in Nat
  BY DEF RequestsIInv, RequestBounds
<1>3. CASE width < 42
  <2>1. Requests!Facts(width) = Requests!RequestCard
    BY <1>3 DEF Requests!Facts
  <2>2. places \subseteq {<<f, "card">>}
    BY <2>1 DEF Requests!RequestCard
  <2>3. Cardinality(places) <= 1
    <3>1. places = {} \/ places = {<<f, "card">>}
      BY <2>2
    <3>2. Cardinality({}) = 0 /\ Cardinality({<<f, "card">>}) = 1
      BY FS_EmptySet, FS_Singleton
    <3> HIDE DEF places
    <3>3. QED
      BY <3>1, <3>2
  <2>4. QED
    BY <1>1, <1>3, <2>3
<1>4. CASE ~ (width < 42)
  <2>1. PICK q : places = {q}
    BY <1>1, <1>2, <1>4, OnePlace DEF Requests!Facts
  <2>2. Cardinality(places) = 1
    BY <2>1, FS_Singleton
  <2>3. QED
    BY <1>4, <2>2
<1>5. QED
  BY <1>3, <1>4

LEMMA RequestsTyped == SearchIInv /\ RequestsIInv => Requests!TypeOK
<1> SUFFICES ASSUME SearchIInv, RequestsIInv PROVE Requests!TypeOK
  OBVIOUS
<1>1. Len(timer) <= 1
  <2>1. timer = <<>> \/ timer = <<text>>
    BY DEF SearchIInv
  <2>2. timer = <<>> => Len(timer) = 0
    OBVIOUS
  <2>3. timer = <<text>> => Len(timer) = 1
    OBVIOUS
  <2>4. QED
    BY <2>1, <2>2, <2>3
<1>2. Len(asked) <= 1
  <2>1. CASE asked = <<>>
    BY <2>1
  <2>2. CASE asked # <<>>
    <3>1. PICK a : asked = <<a>>
      BY <2>2 DEF RequestsIInv
    <3>2. Len(asked) = 1
      BY <3>1
    <3>3. QED
      BY <3>2
  <2>3. QED
    BY <2>1, <2>2
<1>3. DOMAIN cache = Requests!Params
  BY DEF RequestsIInv
<1>4. moves <= MaxMoves
  BY DEF RequestsIInv, RequestBounds
<1>5. QED
  BY <1>1, <1>2, <1>3, <1>4 DEF Requests!TypeOK, SearchIInv, RequestsIInv

\* For any letters, widths, rows of a page and requests: with a log whose rows have ids the sheet keeps
\* the request it was opened for, and each fact of a request has one place (requests-page.tsx, requests-columns.tsx).
THEOREM RequestsAlwaysShownRight == RequestBounds /\ Spec => []RequestsShownRight
<1>1. SearchIInv /\ RequestsIInv => Requests!TypeOK /\ Requests!SheetShowsChosen /\ Requests!EachFactOnce
  BY RequestsTyped, SheetKeepsRequest, FactsOnce
<1>2. Spec => []SearchIInv \/ [](~(which = "requests"))
  BY SearchInductive, RequestsRun, PTL
<1>3. RequestBounds /\ Spec => []RequestsIInv \/ [](~(which = "requests"))
  BY RequestsInductive, RequestsRun, PTL
<1>4. QED
  BY <1>1, <1>2, <1>3, PTL DEF RequestsShownRight

(***************************************************************************)
(* A refused model mapping is shown on its own row, and rows stay mounted  *)
(* through a save.                                                         *)
(*                                                                         *)
(* The refused position is one of the list that was sent, whose rows the   *)
(* card still has; ids are lent by position and rule, and folding the keys *)
(* of a rule twice changes nothing.                                        *)
(***************************************************************************)

MapRule  == Mappings!Rule
MapRow   == [id : Nat, key : Mappings!Key, val : Mappings!Val]
MapDraft == [base : Seq(MapRow), draft : Seq(MapRow), seen : Seq(MapRow), changed : BOOLEAN]

\* The rows are rows, and a refusal names the row of the list that was sent which the server refused.
MappingsIInv ==
  /\ MaxRows \in Nat
  /\ stored \in Seq(MapRule) /\ next \in Nat /\ form \in MapDraft
  /\ save = [st |-> save.st, rows |-> save.rows, at |-> save.at] /\ save.rows \in Seq(MapRow)
  /\ save.st = "refused" => save.at = Mappings!Refused(Mappings!RulesOf(save.rows)) /\ save.at # 0

\* The position the server answers is one of the list.
LEMMA RefusedIsARow ==
  ASSUME NEW given \in Seq(MapRule)
  PROVE  Mappings!Refused(given) = 0 \/ Mappings!Refused(given) \in DOMAIN given
<1> DEFINE norm  == Mappings!Normalized(given)
           clash == {i \in DOMAIN norm : \/ norm[i].key = Mappings!Lower(norm[i].val)
                                         \/ \E j \in 1 .. i - 1 : norm[j].key = norm[i].key}
           chain == {i \in DOMAIN norm : \E j \in DOMAIN norm : norm[j].key = Mappings!Lower(norm[i].val)}
           least(S) == CHOOSE i \in S : \A j \in S : i <= j
<1>1. DOMAIN norm = DOMAIN given /\ DOMAIN given \subseteq Nat
  BY DEF Mappings!Normalized
<1>2. ASSUME NEW S \in SUBSET DOMAIN given, S # {} PROVE least(S) \in DOMAIN given
  <2>1. \E i \in S : \A j \in S : i <= j
    BY <1>1, <1>2, LeastPosition
  <2>2. QED
    BY <2>1
<1>3. clash \in SUBSET DOMAIN given /\ chain \in SUBSET DOMAIN given
  BY <1>1
<1>4. Mappings!Refused(given) = IF clash # {} THEN least(clash) ELSE IF chain # {} THEN least(chain) ELSE 0
  BY Zenon DEF Mappings!Refused
<1> HIDE DEF clash, chain, least, norm
<1>5. QED
  BY <1>2, <1>3, <1>4

LEMMA MappingRules ==
  ASSUME NEW s \in Seq(MapRow)
  PROVE  /\ Mappings!RulesOf(s) \in Seq(MapRule) /\ DOMAIN Mappings!RulesOf(s) = DOMAIN s
         /\ Mappings!Normalized(Mappings!RulesOf(s)) \in Seq(MapRule)
<1>1. Mappings!RulesOf(s) = [i \in 1 .. Len(s) |-> Mappings!RuleOf(s[i])]
  BY DEF Mappings!RulesOf
<1>2. \A i \in 1 .. Len(s) : Mappings!RuleOf(s[i]) \in MapRule
  <2> SUFFICES ASSUME NEW i \in 1 .. Len(s) PROVE Mappings!RuleOf(s[i]) \in MapRule
    OBVIOUS
  <2>1. PICK entry \in MapRow : entry = s[i]
    BY ElementOfSeq
  <2>2. QED
    BY <2>1 DEF Mappings!RuleOf, MapRow, MapRule, Mappings!Rule
<1>3. Mappings!RulesOf(s) \in Seq(MapRule)
  BY <1>1, <1>2, IsASeq
<1>4. PICK r \in Seq(MapRule) : r = Mappings!RulesOf(s)
  BY <1>3
<1>5. Mappings!Normalized(r) = [i \in 1 .. Len(r) |-> Mappings!Normal(r[i])]
  BY <1>4 DEF Mappings!Normalized
<1>6. \A i \in 1 .. Len(r) : Mappings!Normal(r[i]) \in MapRule
  <2> SUFFICES ASSUME NEW i \in 1 .. Len(r) PROVE Mappings!Normal(r[i]) \in MapRule
    OBVIOUS
  <2>1. PICK rule \in MapRule : rule = r[i]
    BY ElementOfSeq
  <2>2. QED
    BY <2>1 DEF Mappings!Normal, Mappings!Lower, MapRule, Mappings!Rule, Mappings!Key
<1>7. Mappings!Normalized(r) \in Seq(MapRule)
  BY <1>5, <1>6, IsASeq
<1>8. QED
  BY <1>1, <1>3, <1>4, <1>7

\* Rows made from rules, with the ids the previous rows lend.
LEMMA RowsAreRows ==
  ASSUME NEW given \in Seq(MapRule), NEW previous \in Seq(MapRow), NEW num \in Nat
  PROVE  Mappings!RowsFromRules(given, previous, num) \in Seq(MapRow)
<1> DEFINE new(i) == [id  |-> IF i \in DOMAIN previous /\ Mappings!Normal(previous[i]) = Mappings!Normal(given[i])
                              THEN previous[i].id ELSE num + i,
                      key |-> given[i].key, val |-> given[i].val]
<1>1. Mappings!RowsFromRules(given, previous, num) = [i \in 1 .. Len(given) |-> new(i)]
  BY DEF Mappings!RowsFromRules
<1>2. ASSUME NEW i \in 1 .. Len(given) PROVE new(i) \in MapRow
  <2>1. given[i].key \in Mappings!Key /\ given[i].val \in Mappings!Val
    <3>1. PICK rule \in MapRule : rule = given[i]
      BY ElementOfSeq
    <3>2. QED
      BY <3>1 DEF MapRule, Mappings!Rule
  <2>2. ASSUME i \in DOMAIN previous PROVE previous[i].id \in Nat
    <3>1. PICK entry \in MapRow : entry = previous[i]
      BY <2>2, ElementOfSeq, LenProperties
    <3>2. QED
      BY <3>1 DEF MapRow
  <2>3. QED
    BY <2>1, <2>2 DEF MapRow
<1> HIDE DEF new
<1>3. QED
  BY <1>1, <1>2, IsASeq

\* A card that receives a copy goes on with its rows or with the ones of the copy.
LEMMA DraftReceives ==
  ASSUME NEW f \in MapDraft, NEW s \in Seq(MapRow)
  PROVE  Mappings!ReceiveServer(f, s) \in MapDraft /\ Mappings!ReceiveServer(f, s).draft \in {f.draft, s}
  BY DEF Mappings!ReceiveServer, Mappings!InitialDraft, MapDraft

LEMMA DraftSet ==
  ASSUME NEW f \in MapDraft, NEW s \in Seq(MapRow)
  PROVE  Mappings!Set(f, s) \in MapDraft /\ Mappings!Commit(f, s) \in MapDraft /\ Mappings!Commit(f, s).draft = s
  BY DEF Mappings!Set, Mappings!Commit, MapDraft

LEMMA RowRemoved ==
  ASSUME NEW s \in Seq(MapRow), NEW i \in DOMAIN s
  PROVE  /\ Mappings!RemoveAt(s, i) \in Seq(MapRow) /\ Len(Mappings!RemoveAt(s, i)) = Len(s) - 1
<1>1. i \in 1 .. Len(s) /\ Len(s) \in Nat
  BY LenProperties
<1>2. /\ SubSeq(s, 1, i - 1) \in Seq(MapRow) /\ Len(SubSeq(s, 1, i - 1)) = i - 1
  BY <1>1, SubSeqProperties
<1>3. /\ SubSeq(s, i + 1, Len(s)) \in Seq(MapRow) /\ Len(SubSeq(s, i + 1, Len(s))) = Len(s) - i
  BY <1>1, SubSeqProperties
<1>4. PICK a \in Seq(MapRow), b \in Seq(MapRow) :
        /\ a = SubSeq(s, 1, i - 1) /\ Len(a) = i - 1
        /\ b = SubSeq(s, i + 1, Len(s)) /\ Len(b) = Len(s) - i
  BY <1>2, <1>3
<1>5. PICK c \in Seq(MapRow) : c = a \o b /\ Len(c) = Len(a) + Len(b)
  BY ConcatProperties
<1>6. Mappings!RemoveAt(s, i) = c
  BY <1>4, <1>5, Zenon DEF Mappings!RemoveAt
<1>7. Len(c) = Len(s) - 1
  <2>1. \A x, y \in Int : (x - 1) + (y - x) = y - 1
    OBVIOUS
  <2>2. i \in Int /\ Len(s) \in Int
    BY <1>1
  <2>3. Len(c) = (i - 1) + (Len(s) - i)
    BY <1>4, <1>5, Zenon
  <2>4. QED
    BY <2>1, <2>2, <2>3, Zenon
<1>8. QED
  BY <1>5, <1>6, <1>7, Zenon

LEMMA RowMoved ==
  ASSUME NEW s \in Seq(MapRow), NEW i \in DOMAIN s, NEW j \in DOMAIN s
  PROVE  Mappings!MoveRow(s, i, j) \in Seq(MapRow)
<1>1. PICK r \in Seq(MapRow) : r = Mappings!RemoveAt(s, i) /\ Len(r) = Len(s) - 1
  BY RowRemoved
<1>2. j \in 1 .. Len(s) /\ Len(s) \in Nat /\ s[i] \in MapRow
  BY LenProperties
<1>3. SubSeq(r, 1, j - 1) \in Seq(MapRow) /\ SubSeq(r, j, Len(r)) \in Seq(MapRow)
  BY <1>1, <1>2, SubSeqProperties
<1>4. <<s[i]>> \in Seq(MapRow)
  BY <1>2
<1>5. SubSeq(r, 1, j - 1) \o <<s[i]>> \o SubSeq(r, j, Len(r)) \in Seq(MapRow)
  BY <1>3, <1>4, ConcatProperties
<1>6. QED
  BY <1>1, <1>5 DEF Mappings!MoveRow, Mappings!InsertAt

LEMMA ListsAreRules == ASSUME MaxRows \in Nat PROVE Mappings!Lists \subseteq Seq(MapRule)
<1> SUFFICES ASSUME NEW l \in Mappings!Lists PROVE l \in Seq(MapRule)
  OBVIOUS
<1>1. l \in Mappings!SeqOf(Mappings!Rule, MaxRows)
  BY DEF Mappings!Lists
<1>2. PICK m \in 0 .. MaxRows : l \in [1 .. m -> MapRule]
  BY <1>1 DEF Mappings!SeqOf, MapRule
<1>3. QED
  BY <1>2

LEMMA MappingsStart == ASSUME MaxRows \in Nat, Mappings!Init PROVE MappingsIInv
<1>1. stored \in Seq(MapRule) /\ <<>> \in Seq(MapRow)
  BY ListsAreRules, EmptySeq DEF Mappings!Init
<1>2. Mappings!RowsFromRules(stored, <<>>, 0) \in Seq(MapRow) /\ Len(stored) \in Nat
  BY <1>1, RowsAreRows, LenProperties
<1>3. form \in MapDraft
  BY <1>2 DEF Mappings!Init, Mappings!InitialDraft, MapDraft
<1>4. QED
  BY <1>1, <1>2, <1>3 DEF Mappings!Init, Mappings!Idle, MappingsIInv

\* Editing changes the rows of the draft only.
LEMMA EditKeeps == ASSUME MappingsIInv, Mappings!ListEdit PROVE MappingsIInv'
<1>1. ASSUME form' \in MapDraft, next' \in Nat, UNCHANGED <<stored, save>> PROVE MappingsIInv'
  BY <1>1 DEF MappingsIInv
<1>2. form.draft \in Seq(MapRow) /\ form \in MapDraft /\ next \in Nat
  BY DEF MappingsIInv, MapDraft
<1>3. CASE Mappings!OpenEditor \/ Mappings!CancelEditor \/ Mappings!TypeFilter
  BY <1>1, <1>2, <1>3 DEF Mappings!OpenEditor, Mappings!CancelEditor, Mappings!TypeFilter
<1>4. CASE Mappings!Apply
  <2>1. PICK rule \in MapRule :
          LET new == [id |-> next + 1, key |-> rule.key, val |-> rule.val]
              at  == Mappings!IndexOf(form.draft, editor.of)
          IN  \/ next' = next + 1 /\ form' = Mappings!Set(form, <<new>> \o form.draft)
              \/ /\ next' = next
                 /\ form' = IF at = 0 THEN form
                            ELSE Mappings!Set(form, [form.draft EXCEPT ![at].key = rule.key, ![at].val = rule.val])
    BY <1>4 DEF Mappings!Apply, Mappings!rows, MapRule
  <2>2. UNCHANGED <<stored, save>>
    BY <1>4 DEF Mappings!Apply
  <2>3. rule.key \in Mappings!Key /\ rule.val \in Mappings!Val
    BY DEF MapRule, Mappings!Rule
  <2>4. PICK new \in MapRow : new = [id |-> next + 1, key |-> rule.key, val |-> rule.val]
    <3>1. next + 1 \in Nat
      BY <1>2
    <3>2. [id |-> next + 1, key |-> rule.key, val |-> rule.val] \in MapRow
      BY <2>3, <3>1 DEF MapRow
    <3>3. QED
      BY <3>2
  <2>5. CASE next' = next + 1 /\ form' = Mappings!Set(form, <<new>> \o form.draft)
    <3>1. <<new>> \o form.draft \in Seq(MapRow)
      BY <1>2, ConcatProperties
    <3>2. form' \in MapDraft
      BY <1>2, <2>5, <3>1, DraftSet
    <3>3. QED
      BY <1>1, <1>2, <2>2, <2>5, <3>2
  <2>6. CASE next' = next /\ form' = form
    BY <1>1, <1>2, <2>2, <2>6
  <2>7. ASSUME NEW at,
               form' = Mappings!Set(form, [form.draft EXCEPT ![at].key = rule.key, ![at].val = rule.val]),
               next' = next
        PROVE  MappingsIInv'
    <3>1. PICK s \in Seq(MapRow) : s = form.draft
      BY <1>2
    <3>2. [s EXCEPT ![at].key = rule.key, ![at].val = rule.val] \in Seq(MapRow)
      <4>1. CASE at \in 1 .. Len(s)
        <5>1. PICK entry \in MapRow : entry = s[at]
          BY <4>1, ElementOfSeq
        <5>2. PICK r1 \in MapRow : r1 = [entry EXCEPT !.key = rule.key]
          BY <2>3 DEF MapRow
        <5>3. PICK r2 \in MapRow : r2 = [r1 EXCEPT !.val = rule.val]
          BY <2>3 DEF MapRow
        <5>4. PICK s1 \in Seq(MapRow) : s1 = [s EXCEPT ![at] = r1]
          BY <4>1, ExceptSeq
        <5>5. s1[at] = r1 /\ Len(s1) = Len(s)
          BY <4>1, <5>4, ExceptSeq
        <5>6. [s1 EXCEPT ![at] = r2] \in Seq(MapRow)
          BY <4>1, <5>5, ExceptSeq
        <5>7. [s EXCEPT ![at].key = rule.key] = s1
          BY <5>1, <5>2, <5>4
        <5>8. [s1 EXCEPT ![at].val = rule.val] = [s1 EXCEPT ![at] = r2]
          BY <5>3, <5>5
        <5>9. QED
          BY <5>6, <5>7, <5>8
      <4>2. CASE at \notin 1 .. Len(s)
        <5>1. DOMAIN s = 1 .. Len(s)
          BY LenProperties
        <5>2. [s EXCEPT ![at].key = rule.key, ![at].val = rule.val] = s
          BY <4>2, <5>1
        <5>3. QED
          BY <5>2
      <4>3. QED
        BY <4>1, <4>2
    <3>3. QED
      BY <1>1, <1>2, <2>2, <2>7, <3>1, <3>2, DraftSet
  <2>8. QED
    BY <2>1, <2>4, <2>5, <2>6, <2>7
<1>5. CASE Mappings!RemoveRow
  <2>1. PICK i \in Mappings!Shown(form.draft) : form' = Mappings!Set(form, Mappings!RemoveAt(form.draft, i))
    BY <1>5 DEF Mappings!RemoveRow, Mappings!rows
  <2>2. i \in DOMAIN form.draft /\ UNCHANGED <<stored, next, save>>
    BY <1>5 DEF Mappings!Shown, Mappings!RemoveRow
  <2>3. QED
    BY <1>1, <1>2, <2>1, <2>2, RowRemoved, DraftSet
<1>6. CASE Mappings!Move
  <2>1. PICK i, j \in DOMAIN form.draft : form' = Mappings!Set(form, Mappings!MoveRow(form.draft, i, j))
    BY <1>6 DEF Mappings!Move, Mappings!rows
  <2>2. UNCHANGED <<stored, next, save>>
    BY <1>6 DEF Mappings!Move
  <2>3. QED
    BY <1>1, <1>2, <2>1, <2>2, RowMoved, DraftSet
<1>7. CASE Mappings!ResetToDefaults
  <2>1. form' = Mappings!Set(form, <<>>) /\ UNCHANGED <<stored, next, save>>
    BY <1>7 DEF Mappings!ResetToDefaults
  <2>2. QED
    BY <1>1, <1>2, <2>1, DraftSet, EmptySeq
<1>8. CASE Mappings!ReloadList
  <2>1. form' = Mappings!InitialDraft(form.seen) /\ UNCHANGED <<stored, next, save>>
    BY <1>8 DEF Mappings!ReloadList, Mappings!Reload
  <2>2. form' \in MapDraft
    BY <1>2, <2>1 DEF Mappings!InitialDraft, MapDraft
  <2>3. QED
    BY <1>1, <1>2, <2>1, <2>2
<1>9. QED
  BY <1>3, <1>4, <1>5, <1>6, <1>7, <1>8 DEF Mappings!ListEdit

LEMMA ReceiveKeepsRows ==
  ASSUME next \in Nat, NEW f \in MapDraft, NEW given \in Seq(MapRule), Mappings!Receive(f, given)
  PROVE  /\ form' \in MapDraft /\ next' \in Nat
         /\ form'.draft \in {f.draft, Mappings!RowsFromRules(given, f.draft, next)}
<1>1. f.draft \in Seq(MapRow) /\ Len(given) \in Nat
  BY LenProperties DEF MapDraft
<1>2. PICK s \in Seq(MapRow) : s = Mappings!RowsFromRules(given, f.draft, next)
  BY <1>1, RowsAreRows
<1>3. form' = Mappings!ReceiveServer(f, s) /\ next' = next + Len(given)
  BY <1>2 DEF Mappings!Receive
<1>4. QED
  BY <1>1, <1>2, <1>3, DraftReceives

LEMMA SavingKeeps == ASSUME MappingsIInv, Mappings!Saving PROVE MappingsIInv'
<1>1. form.draft \in Seq(MapRow) /\ form \in MapDraft /\ next \in Nat
  BY DEF MappingsIInv, MapDraft
<1>2. CASE Mappings!Submit
  BY <1>1, <1>2 DEF Mappings!Submit, Mappings!rows, MappingsIInv
<1>3. CASE Mappings!Serve
  <2>1. PICK bad : bad = Mappings!Refused(Mappings!RulesOf(save.rows))
    OBVIOUS
  <2>2. UNCHANGED <<form, next>>
    BY <1>3 DEF Mappings!Serve
  <2>3. \/ bad # 0 /\ save' = [save EXCEPT !.st = "refused", !.at = bad] /\ stored' = stored
        \/ save' = [save EXCEPT !.st = "ok"] /\ stored' = Mappings!Normalized(Mappings!RulesOf(save.rows))
    BY <1>3, <2>1 DEF Mappings!Serve
  <2>4. CASE bad # 0 /\ save' = [save EXCEPT !.st = "refused", !.at = bad] /\ stored' = stored
    <3>1. save' = [st |-> "refused", rows |-> save.rows, at |-> bad]
      BY <2>4 DEF MappingsIInv
    <3>2. QED
      BY <2>1, <2>2, <2>4, <3>1 DEF MappingsIInv
  <2>5. CASE save' = [save EXCEPT !.st = "ok"] /\ stored' = Mappings!Normalized(Mappings!RulesOf(save.rows))
    <3>1. save' = [st |-> "ok", rows |-> save.rows, at |-> save.at]
      BY <2>5 DEF MappingsIInv
    <3>2. stored' \in Seq(MapRule)
      BY <2>5, MappingRules DEF MappingsIInv
    <3>3. QED
      BY <2>2, <3>1, <3>2 DEF MappingsIInv
  <2>6. QED
    BY <2>3, <2>4, <2>5
<1>4. CASE Mappings!Saved
  <2>1. save' = Mappings!Idle /\ UNCHANGED stored /\ Mappings!Receive(Mappings!Commit(form, save.rows), Mappings!RulesOf(save.rows))
    BY <1>4 DEF Mappings!Saved
  <2>2. Mappings!Commit(form, save.rows) \in MapDraft /\ Mappings!RulesOf(save.rows) \in Seq(MapRule)
    BY <1>1, DraftSet, MappingRules DEF MappingsIInv
  <2>3. form' \in MapDraft /\ next' \in Nat
    BY <1>1, <2>1, <2>2, ReceiveKeepsRows
  <2>4. QED
    BY <2>1, <2>3, EmptySeq DEF MappingsIInv, Mappings!Idle
<1>5. CASE Mappings!Refetched
  <2>1. Mappings!Receive(form, stored) /\ UNCHANGED <<stored, save>>
    BY <1>5 DEF Mappings!Refetched
  <2>2. form' \in MapDraft /\ next' \in Nat
    BY <1>1, <2>1, ReceiveKeepsRows DEF MappingsIInv
  <2>3. QED
    BY <2>1, <2>2 DEF MappingsIInv
<1>6. CASE Mappings!OtherTabSaves
  <2>1. PICK l \in Mappings!Lists : stored' = l /\ Mappings!Receive(form, l) /\ UNCHANGED save
    BY <1>6 DEF Mappings!OtherTabSaves
  <2>2. l \in Seq(MapRule)
    BY ListsAreRules DEF MappingsIInv
  <2>3. form' \in MapDraft /\ next' \in Nat
    BY <1>1, <2>1, <2>2, ReceiveKeepsRows
  <2>4. QED
    BY <2>1, <2>2, <2>3 DEF MappingsIInv
<1>7. CASE Mappings!SaveRefused
  <2>1. save' = Mappings!Idle /\ UNCHANGED <<stored, form, next>>
    BY <1>7 DEF Mappings!SaveRefused
  <2>2. QED
    BY <2>1, EmptySeq DEF MappingsIInv, Mappings!Idle
<1>8. QED
  BY <1>2, <1>3, <1>4, <1>5, <1>6, <1>7 DEF Mappings!Saving

LEMMA MappingsInductive == MaxRows \in Nat /\ Mappings!Spec => []MappingsIInv
<1>1. MaxRows \in Nat /\ Mappings!Init => MappingsIInv
  BY MappingsStart
<1>2. MappingsIInv /\ [Mappings!Next]_(Mappings!vars) => MappingsIInv'
  <2> SUFFICES ASSUME MappingsIInv, [Mappings!Next]_(Mappings!vars) PROVE MappingsIInv'
    OBVIOUS
  <2>1. CASE UNCHANGED Mappings!vars
    BY <2>1 DEF Mappings!vars, MappingsIInv
  <2>2. QED
    BY <2>1, EditKeeps, SavingKeeps DEF Mappings!Next
<1>3. QED
  BY <1>1, <1>2, PTL DEF Mappings!Spec

\* A refusal is shown on the row that was refused.
LEMMA RefusalNamesItsRow == MappingsIInv => Mappings!ErrorNamesRefusedRow
<1> SUFFICES ASSUME MappingsIInv, Mappings!SaveRefused
             PROVE  \E i \in DOMAIN save.rows : save.rows[i].id = error' /\ i = Mappings!Refused(Mappings!RulesOf(save.rows))
  BY DEF Mappings!ErrorNamesRefusedRow
<1>1. save.at = Mappings!Refused(Mappings!RulesOf(save.rows)) /\ save.at # 0 /\ error' = save.rows[save.at].id
  BY DEF MappingsIInv, Mappings!SaveRefused, Mappings!FailedRow
<1>2. Mappings!RulesOf(save.rows) \in Seq(MapRule) /\ DOMAIN Mappings!RulesOf(save.rows) = DOMAIN save.rows
  BY MappingRules DEF MappingsIInv
<1>3. save.at \in DOMAIN save.rows
  BY <1>1, <1>2, RefusedIsARow
<1>4. QED
  BY <1>1, <1>3

\* A copy that has the rules of the rows, but for the spelling of the keys, leaves them their ids.
LEMMA IdsAreLent ==
  ASSUME NEW s \in Seq(MapRow), NEW given, NEW num,
         given = Mappings!RulesOf(s) \/ given = Mappings!Normalized(Mappings!RulesOf(s))
  PROVE  \A i \in DOMAIN s : Mappings!RowsFromRules(given, s, num)[i].id = s[i].id
<1> SUFFICES ASSUME NEW i \in DOMAIN s PROVE Mappings!RowsFromRules(given, s, num)[i].id = s[i].id
  OBVIOUS
<1>1. DOMAIN given = DOMAIN s /\ (given[i] = Mappings!RuleOf(s[i]) \/ given[i] = Mappings!Normal(Mappings!RuleOf(s[i])))
  BY DEF Mappings!RulesOf, Mappings!Normalized
<1>2. Mappings!Normal(given[i]) = Mappings!Normal(s[i])
  BY <1>1 DEF Mappings!RuleOf, Mappings!Normal, Mappings!Lower
<1>3. QED
  BY <1>1, <1>2 DEF Mappings!RowsFromRules

LEMMA RowsStayMounted == MappingsIInv => Mappings!RowsSurviveSave
<1> SUFFICES ASSUME MappingsIInv,
                    \/ Mappings!Saved /\ form.draft = save.rows
                    \/ Mappings!Refetched /\ Mappings!Normalized(Mappings!RulesOf(form.draft)) = stored,
                    NEW i \in DOMAIN form.draft
             PROVE  form'.draft[i].id = form.draft[i].id
  BY DEF Mappings!RowsSurviveSave, Mappings!rows
<1>1. form.draft \in Seq(MapRow) /\ form \in MapDraft /\ next \in Nat
  BY DEF MappingsIInv, MapDraft
<1>2. CASE Mappings!Saved /\ form.draft = save.rows
  <2>1. Mappings!Receive(Mappings!Commit(form, save.rows), Mappings!RulesOf(save.rows))
    BY <1>2 DEF Mappings!Saved
  <2>2. PICK f \in MapDraft : f = Mappings!Commit(form, save.rows) /\ f.draft = save.rows
    BY <1>1, <1>2, DraftSet
  <2>3. form'.draft \in {save.rows, Mappings!RowsFromRules(Mappings!RulesOf(save.rows), save.rows, next)}
    BY <1>1, <1>2, <2>1, <2>2, MappingRules, ReceiveKeepsRows
  <2>4. QED
    BY <1>1, <1>2, <2>3, IdsAreLent
<1>3. CASE Mappings!Refetched /\ Mappings!Normalized(Mappings!RulesOf(form.draft)) = stored
  <2>1. Mappings!Receive(form, stored)
    BY <1>3 DEF Mappings!Refetched
  <2>2. form'.draft \in {form.draft, Mappings!RowsFromRules(stored, form.draft, next)}
    BY <1>1, <2>1, ReceiveKeepsRows DEF MappingsIInv
  <2>3. QED
    BY <1>1, <1>3, <2>2, IdsAreLent
<1>4. QED
  BY <1>2, <1>3

\* For lists of any length, moved, edited, removed and reread at any time: a
\* refused save is shown on the row the server refused, and reading back a
\* saved list keeps every row under its id (model-mappings-card.tsx,
\* config.normalizeModelMappings).
THEOREM MappingRowsAlwaysKeepTheirId == MaxRows \in Nat /\ Spec => MappingRowsKeepTheirId
<1>1. (~(which = "mappings") \/ MappingsIInv) /\ [Next]_vars
        => [which = "mappings" => Mappings!ErrorNamesRefusedRow /\ Mappings!RowsSurviveSave]_vars
  BY RefusalNamesItsRow, RowsStayMounted
<1>2. QED
  BY <1>1, MappingsInductive, MappingsRun, PTL DEF Spec, MappingRowsKeepTheirId

(***************************************************************************)
(* The shell: the palette returns focus, no toast points at the page the   *)
(* user is on, and a reveal ends.                                          *)
(*                                                                         *)
(* A toast that points at a page is kept under its id by the generation it *)
(* got, which no other toast has; so forgetting the path of one that was   *)
(* replaced leaves the entry of its successor.                             *)
(***************************************************************************)

Focusable == {"body", "field", "icon", "row"}

\* An open palette knows what had focus before it; a closed one does not have it.
PaletteKnows ==
  /\ open \in BOOLEAN /\ opener \in {"none", "field", "icon", "row"} /\ wide \in BOOLEAN
  /\ open => before \in Focusable /\ opener = IF before = "body" THEN "none" ELSE before
  /\ ~open => focus \in Focusable

ToastRecord == [id : ToastIds \cup {Frame!UpdateToast}, gen : Nat, path : {"", "settings"}, loads : BOOLEAN, closing : BOOLEAN]

ToastType ==
  /\ shown \in Nat /\ synced \in BOOLEAN /\ page \in Frame!Pages /\ silent \in {"timer", "flight", "over"}
  /\ toasts \subseteq ToastRecord /\ pathToasts \in [ToastIds -> Nat]
  /\ part # "notices" => toasts = {}

\* A generation is given once, so an entry is kept for one toast.
GenOnce ==
  /\ \A t \in toasts : t.gen \in 1 .. shown
  /\ \A t, u \in toasts : t.gen = u.gen => t = u

\* A live toast that points at a page has the entry of its id, and it is not the page of the user.
EntryKept ==
  \A t \in toasts : t.path = "settings" =>
    /\ t.id \in ToastIds
    /\ ~t.closing => pathToasts[t.id] = t.gen

TransitionRecord == [theme : {"system", "light", "dark"}, phase : {"pending", "running"}, skipped : BOOLEAN]

RevealHeld ==
  /\ transitions \in Seq(TransitionRecord)
  /\ systemDark \in BOOLEAN /\ reveal \in BOOLEAN
  /\ reveal => transitions # <<>>
  /\ dark = Frame!Resolved(theme, systemDark)

\* The inductive invariant.
ShellIInv ==
  /\ PaletteKnows
  /\ ToastType
  /\ GenOnce
  /\ EntryKept
  /\ Frame!NoToastForThisPage
  /\ RevealHeld

LEMMA ShellStarts == ASSUME Frame!Init PROVE ShellIInv
<1>1. PaletteKnows
  BY DEF Frame!Init, PaletteKnows, Focusable
<1>2. ToastType /\ GenOnce /\ EntryKept /\ Frame!NoToastForThisPage
  BY DEF Frame!Init, ToastType, GenOnce, EntryKept, Frame!NoToastForThisPage, Frame!Pages
<1>3. RevealHeld
  <2>1. systemDark \in BOOLEAN
    BY DEF Frame!Init
  <2>2. dark = Frame!Resolved(theme, systemDark)
    BY DEF Frame!Init, Frame!Resolved
  <2>3. transitions = <<>>
    BY DEF Frame!Init
  <2>4. reveal = FALSE
    BY DEF Frame!Init
  <2>5. <<>> \in Seq(TransitionRecord)
    OBVIOUS
  <2>6. transitions \in Seq(TransitionRecord)
    BY <2>3, <2>5
  <2>7. reveal \in BOOLEAN /\ (reveal => transitions # <<>>)
    BY <2>4
  <2>8. QED
    BY <2>1, <2>2, <2>6, <2>7 DEF RevealHeld
<1>4. QED
  BY <1>1, <1>2, <1>3 DEF ShellIInv

\* What a part leaves alone stays as it was.
LEMMA PaletteStays == ASSUME PaletteKnows, UNCHANGED Frame!pal PROVE PaletteKnows'
BY DEF PaletteKnows, Frame!pal

LEMMA NotesStay ==
  ASSUME ToastType, GenOnce, EntryKept, Frame!NoToastForThisPage,
         UNCHANGED <<toasts, pathToasts, synced, shown>>, UNCHANGED part,
         page' = page \/ toasts = {}, page' \in Frame!Pages, silent' \in {"timer", "flight", "over"}
  PROVE  ToastType' /\ GenOnce' /\ EntryKept' /\ Frame!NoToastForThisPage'
<1>1. ToastType'
  BY DEF ToastType
<1>2. GenOnce' /\ EntryKept'
  BY DEF GenOnce, EntryKept
<1>3. Frame!NoToastForThisPage'
  BY DEF Frame!NoToastForThisPage
<1>4. QED
  BY <1>1, <1>2, <1>3

LEMMA LookStays == ASSUME RevealHeld, UNCHANGED Frame!look PROVE RevealHeld'
BY DEF RevealHeld, Frame!look, Frame!Resolved

\* Closing gives focus to nothing but the page.
LEMMA FinalFocusIs == \A o : Frame!FinalFocus(o) \in Focusable
BY DEF Frame!FinalFocus, Frame!Connected, Focusable

LEMMA PaletteKeeps == ASSUME ShellIInv, Frame!PaletteNext PROVE ShellIInv'
<1>1. PICK q \in {"", "theme", "zzz"}, e \in Frame!Entries, f \in {"body", "field", "icon", "row"} :
        \/ Frame!Shortcut \/ Frame!OpenFrom \/ Frame!Dismiss \/ Frame!Rerender \/ Frame!Resize
        \/ Frame!Type(q) \/ Frame!Select(e) \/ Frame!Refocus(f)
  <2>1. "overview" \in Frame!Entries
    BY DEF Frame!Entries, Frame!Groups
  <2>2. QED
    BY <2>1 DEF Frame!PaletteNext
<1>2. /\ part = "palette" /\ UNCHANGED part /\ UNCHANGED Frame!notes /\ UNCHANGED Frame!look
      /\ page' = page \/ page' \in {"overview", "settings"}
  BY <1>1 DEF Frame!PaletteNext, Frame!Shortcut, Frame!OpenFrom, Frame!Dismiss, Frame!Rerender, Frame!Resize, Frame!Type, Frame!Select, Frame!Refocus,
              Frame!Groups
<1>3. PaletteKnows'
  <2>1. CASE Frame!Shortcut
    <3>1. CASE ~open /\ Frame!OpenPalette /\ opener' = Frame!ShortcutOpener
      BY <3>1 DEF ShellIInv, PaletteKnows, Focusable, Frame!OpenPalette, Frame!ShortcutOpener
    <3>2. CASE open /\ Frame!Close(opener)
      BY <3>2, FinalFocusIs DEF ShellIInv, PaletteKnows, Frame!Close
    <3>3. QED
      BY <2>1, <3>1, <3>2 DEF Frame!Shortcut
  <2>2. CASE Frame!OpenFrom
    BY <2>2 DEF Frame!OpenFrom, ShellIInv, PaletteKnows, Focusable, Frame!Trigger
  <2>3. CASE Frame!Dismiss
    BY <2>3, FinalFocusIs DEF Frame!Dismiss, Frame!Close, ShellIInv, PaletteKnows
  <2>4. CASE Frame!Rerender \/ Frame!Resize
    <3>1. UNCHANGED <<open, opener, before>> /\ wide' \in BOOLEAN /\ focus' \in {focus, "body"}
      BY <2>4 DEF Frame!Rerender, Frame!Resize, ShellIInv, PaletteKnows
    <3>2. QED
      BY <3>1 DEF ShellIInv, PaletteKnows, Focusable
  <2>5. CASE Frame!Type(q)
    BY <2>5 DEF Frame!Type, ShellIInv, PaletteKnows
  <2>6. CASE Frame!Select(e)
    BY <2>6 DEF Frame!Select, ShellIInv, PaletteKnows, Focusable
  <2>7. CASE Frame!Refocus(f)
    BY <2>7 DEF Frame!Refocus, ShellIInv, PaletteKnows, Focusable
  <2>8. QED
    BY <1>1, <2>1, <2>2, <2>3, <2>4, <2>5, <2>6, <2>7
<1>4. ToastType' /\ GenOnce' /\ EntryKept' /\ Frame!NoToastForThisPage'
  <2>1. UNCHANGED <<toasts, pathToasts, synced, shown>> /\ UNCHANGED silent
    BY <1>2 DEF Frame!notes, Frame!update
  <2>2. toasts = {} /\ page \in Frame!Pages /\ silent \in {"timer", "flight", "over"}
    BY <1>2 DEF ShellIInv, ToastType
  <2>3. page' \in Frame!Pages
    BY <1>2, <2>2 DEF Frame!Pages
  <2>4. QED
    BY <1>2, <2>1, <2>2, <2>3, NotesStay DEF ShellIInv
<1>5. RevealHeld'
  BY <1>2, LookStays DEF ShellIInv
<1>6. QED
  BY <1>3, <1>4, <1>5 DEF ShellIInv

LEMMA NextGeneration ==
  ASSUME NEW k \in Nat
  PROVE  /\ k + 1 \in Nat /\ k + 1 \notin 1 .. k /\ k + 1 \in 1 .. (k + 1)
         /\ \A g \in 1 .. k : g \in 1 .. (k + 1) /\ g # 0
OBVIOUS

\* A new toast takes the next generation, and its entry says so.
LEMMA AddedKeeps ==
  ASSUME ToastType, GenOnce, EntryKept, Frame!NoToastForThisPage, part = "notices",
         NEW id \in ToastIds \cup {Frame!UpdateToast}, NEW path \in {"", "settings"}, NEW loads \in BOOLEAN,
         id \in ToastIds \/ path = "", Frame!Added(id, path, loads),
         UNCHANGED <<part, page, synced>>, silent' \in {"timer", "flight", "over"}
  PROVE  ToastType' /\ GenOnce' /\ EntryKept' /\ Frame!NoToastForThisPage'
<1>1. CASE Frame!IsOnPath(path)
  <2>1. UNCHANGED <<toasts, pathToasts, shown>>
    BY <1>1 DEF Frame!Added
  <2>2. QED
    BY <2>1, NotesStay DEF ToastType
<1>2. CASE ~Frame!IsOnPath(path)
  <2> DEFINE new == [id |-> id, gen |-> shown + 1, path |-> path, loads |-> loads, closing |-> FALSE]
  <2>1. /\ shown' = shown + 1
        /\ toasts' = (toasts \ Frame!Live(id)) \cup {new}
        /\ pathToasts' = [pathToasts EXCEPT ![id] = IF path = "" THEN 0 ELSE shown + 1]
    BY <1>2, Zenon DEF Frame!Added
  <2>2. shown \in Nat
    BY DEF ToastType
  <2>3. /\ shown + 1 \in Nat /\ shown + 1 \notin 1 .. shown /\ shown + 1 \in 1 .. (shown + 1)
        /\ \A g \in 1 .. shown : g \in 1 .. (shown + 1)
    BY <2>2, NextGeneration
  <2>4. new \in ToastRecord /\ new.id = id /\ new.gen = shown + 1 /\ new.path = path /\ ~new.closing
    BY <2>3 DEF ToastRecord
  <2>5. (IF path = "" THEN 0 ELSE shown + 1) \in Nat
    BY <2>3
  <2>6. shown' \in Nat /\ pathToasts' \in [ToastIds -> Nat]
    BY <2>1, <2>5, <2>3 DEF ToastType
  <2>. HIDE DEF new
  <2>7. ToastType'
    BY <2>1, <2>4, <2>6 DEF ToastType
  <2>8. GenOnce'
    <3>1. \A t \in toasts : t.gen \in 1 .. shown /\ t.gen \in 1 .. shown'
      <4>1. \A g \in 1 .. shown : g \in 1 .. shown'
        BY <2>1, <2>3
      <4>2. QED
        BY <4>1 DEF GenOnce
    <3>2. \A t \in toasts' : t = new \/ t \in toasts
      BY <2>1
    <3>3. shown + 1 \in 1 .. shown' /\ shown + 1 \notin 1 .. shown
      BY <2>1, <2>3
    <3>4. ASSUME NEW t \in toasts' PROVE t.gen \in 1 .. shown'
      BY <2>4, <3>1, <3>2, <3>3
    <3>5. ASSUME NEW t \in toasts', NEW u \in toasts', t.gen = u.gen PROVE t = u
      BY <2>4, <3>1, <3>2, <3>3, <3>5 DEF GenOnce
    <3>6. QED
      BY <3>4, <3>5 DEF GenOnce
  <2>9. EntryKept'
    <3>1. ASSUME NEW t \in toasts', t.path = "settings"
          PROVE  t.id \in ToastIds /\ (~t.closing => pathToasts'[t.id] = t.gen)
      <4>1. CASE t = new
        <5>1. id \in ToastIds /\ path = "settings"
          BY <2>4, <3>1, <4>1
        <5>2. pathToasts'[id] = shown + 1
          BY <2>1, <5>1 DEF ToastType
        <5>3. QED
          BY <2>4, <4>1, <5>1, <5>2
      <4>2. CASE t # new
        <5>1. t \in toasts /\ t \notin Frame!Live(id)
          BY <2>1, <4>2
        <5>2. ~t.closing => t.id # id
          BY <5>1 DEF Frame!Live
        <5>3. t.id \in ToastIds /\ (~t.closing => pathToasts[t.id] = t.gen)
          BY <3>1, <5>1 DEF EntryKept
        <5>4. ~t.closing => pathToasts'[t.id] = pathToasts[t.id]
          BY <2>1, <5>2, <5>3 DEF ToastType
        <5>5. QED
          BY <5>3, <5>4
      <4>3. QED
        BY <4>1, <4>2
    <3>2. QED
      BY <3>1 DEF EntryKept
  <2>10. Frame!NoToastForThisPage'
    <3>1. ASSUME page = "settings", synced, NEW t \in toasts', t.path = "settings" PROVE t.closing
      <4>1. path # "settings"
        BY <1>2, <3>1 DEF Frame!IsOnPath
      <4>2. t \in toasts
        BY <2>1, <2>4, <3>1, <4>1
      <4>3. QED
        BY <3>1, <4>2 DEF Frame!NoToastForThisPage
    <3>2. QED
      BY <3>1 DEF Frame!NoToastForThisPage
  <2>11. QED
    BY <2>7, <2>8, <2>9, <2>10
<1>3. QED
  BY <1>1, <1>2

\* Changing whether a toast loads, or closing it, keeps its generation, its id and its path.
LEMMA ChangedKeeps ==
  ASSUME ToastType, GenOnce, EntryKept, Frame!NoToastForThisPage, NEW change \in [toasts -> ToastRecord],
         \A t \in toasts : /\ change[t].gen = t.gen /\ change[t].id = t.id /\ change[t].path = t.path
                           /\ t.closing => change[t].closing,
         toasts' = {change[t] : t \in toasts},
         UNCHANGED <<pathToasts, shown, part>>, silent' \in {"timer", "flight", "over"},
         (page' = page /\ synced' = synced) \/ (page' = "login" /\ synced' = TRUE)
  PROVE  ToastType' /\ GenOnce' /\ EntryKept' /\ Frame!NoToastForThisPage'
<1>1. page' \in Frame!Pages /\ synced' \in BOOLEAN
  BY DEF ToastType, Frame!Pages
<1>2. ToastType'
  BY <1>1 DEF ToastType
<1>3. GenOnce' /\ EntryKept'
  BY DEF GenOnce, EntryKept
<1>4. ASSUME page' = "settings", synced', NEW u \in toasts', u.path = "settings" PROVE u.closing
  <2>1. page = "settings" /\ synced
    BY <1>4
  <2>2. PICK t \in toasts : u = change[t]
    OBVIOUS
  <2>3. QED
    BY <1>4, <2>1, <2>2 DEF Frame!NoToastForThisPage
<1>5. Frame!NoToastForThisPage'
  BY <1>4 DEF Frame!NoToastForThisPage
<1>6. QED
  BY <1>2, <1>3, <1>5

LEMMA ClosedKeeps ==
  ASSUME ToastType, GenOnce, EntryKept, Frame!NoToastForThisPage, NEW ids, toasts' = Frame!Closed(ids),
         UNCHANGED <<pathToasts, shown, part>>, silent' \in {"timer", "flight", "over"},
         (page' = page /\ synced' = synced) \/ (page' = "login" /\ synced' = TRUE)
  PROVE  ToastType' /\ GenOnce' /\ EntryKept' /\ Frame!NoToastForThisPage'
<1> DEFINE change == [t \in toasts |-> IF t.id \in ids THEN [t EXCEPT !.closing = TRUE] ELSE t]
<1>1. \A t \in ToastRecord : LET c == [t EXCEPT !.closing = TRUE]
                             IN  c \in ToastRecord /\ c.gen = t.gen /\ c.id = t.id /\ c.path = t.path /\ c.closing
  BY DEF ToastRecord
<1>2. toasts \subseteq ToastRecord
  BY DEF ToastType
<1>3. change \in [toasts -> ToastRecord]
  BY <1>1, <1>2
<1>4. \A t \in toasts : /\ change[t].gen = t.gen /\ change[t].id = t.id /\ change[t].path = t.path
                        /\ t.closing => change[t].closing
  BY <1>1, <1>2
<1>5. toasts' = {change[t] : t \in toasts}
  BY DEF Frame!Closed
<1>. HIDE DEF change
<1>6. QED
  BY <1>3, <1>4, <1>5, ChangedKeeps

LEMMA ToastsKeep ==
  ASSUME ShellIInv, part = "notices",
         \/ \E id \in ToastIds, p \in {"", "settings"}, l \in BOOLEAN : Frame!Show(id, p, l)
         \/ \E id \in ToastIds : Frame!UpdateToastTo(id)
         \/ \E t \in toasts : Frame!CloseToast(t) \/ Frame!Removed(t)
         \/ Frame!SyncToastPath,
         UNCHANGED part
  PROVE  ToastType' /\ GenOnce' /\ EntryKept' /\ Frame!NoToastForThisPage'
<1>1. /\ ToastType /\ GenOnce /\ EntryKept /\ Frame!NoToastForThisPage
      /\ silent \in {"timer", "flight", "over"} /\ toasts \subseteq ToastRecord
  BY DEF ShellIInv, ToastType
<1>2. ASSUME NEW id \in ToastIds, NEW p \in {"", "settings"}, NEW l \in BOOLEAN, Frame!Show(id, p, l)
      PROVE  ToastType' /\ GenOnce' /\ EntryKept' /\ Frame!NoToastForThisPage'
  <2>1. Frame!Added(id, p, l) /\ UNCHANGED <<page, synced>> /\ UNCHANGED silent
    BY <1>2 DEF Frame!Show, Frame!update
  <2>2. QED
    BY <1>1, <2>1, AddedKeeps
<1>3. ASSUME NEW id \in ToastIds, Frame!UpdateToastTo(id)
      PROVE  ToastType' /\ GenOnce' /\ EntryKept' /\ Frame!NoToastForThisPage'
  <2> DEFINE change == [t \in toasts |-> IF t \in Frame!Live(id) THEN [t EXCEPT !.loads = FALSE] ELSE t]
  <2>1. \A t \in ToastRecord : LET c == [t EXCEPT !.loads = FALSE]
                               IN  c \in ToastRecord /\ c.gen = t.gen /\ c.id = t.id /\ c.path = t.path
                                   /\ c.closing = t.closing
    BY DEF ToastRecord
  <2>2. change \in [toasts -> ToastRecord]
    BY <1>1, <2>1
  <2>3. \A t \in toasts : /\ change[t].gen = t.gen /\ change[t].id = t.id /\ change[t].path = t.path
                          /\ t.closing => change[t].closing
    BY <1>1, <2>1
  <2>4. toasts' = {change[t] : t \in toasts} /\ UNCHANGED <<pathToasts, shown, page, synced>> /\ UNCHANGED silent
    BY <1>3 DEF Frame!UpdateToastTo, Frame!update
  <2>. HIDE DEF change
  <2>5. QED
    BY <1>1, <2>2, <2>3, <2>4, ChangedKeeps
<1>4. ASSUME NEW t \in toasts, Frame!CloseToast(t)
      PROVE  ToastType' /\ GenOnce' /\ EntryKept' /\ Frame!NoToastForThisPage'
  <2> DEFINE change == [u \in toasts |-> IF u = t THEN [u EXCEPT !.closing = TRUE] ELSE u]
  <2>1. \A u \in ToastRecord : LET c == [u EXCEPT !.closing = TRUE]
                               IN  c \in ToastRecord /\ c.gen = u.gen /\ c.id = u.id /\ c.path = u.path /\ c.closing
    BY DEF ToastRecord
  <2>2. change \in [toasts -> ToastRecord]
    BY <1>1, <2>1
  <2>3. \A u \in toasts : /\ change[u].gen = u.gen /\ change[u].id = u.id /\ change[u].path = u.path
                          /\ u.closing => change[u].closing
    BY <1>1, <2>1
  <2>4. toasts' = {change[u] : u \in toasts} /\ UNCHANGED <<pathToasts, shown, page, synced>> /\ UNCHANGED silent
    BY <1>4 DEF Frame!CloseToast, Frame!update
  <2>. HIDE DEF change
  <2>5. QED
    BY <1>1, <2>2, <2>3, <2>4, ChangedKeeps
<1>5. ASSUME NEW t \in toasts, Frame!Removed(t)
      PROVE  ToastType' /\ GenOnce' /\ EntryKept' /\ Frame!NoToastForThisPage'
  <2>1. /\ t.closing /\ toasts' = toasts \ {t} /\ pathToasts' = Frame!Forgotten(t)
        /\ UNCHANGED <<shown, page, synced>> /\ UNCHANGED silent
    BY <1>5 DEF Frame!Removed, Frame!update
  <2>2. /\ pathToasts' \in [ToastIds -> Nat]
        /\ \/ pathToasts' = pathToasts
           \/ pathToasts[t.id] = t.gen /\ \A id \in ToastIds : id # t.id => pathToasts'[id] = pathToasts[id]
    BY <1>1, <2>1 DEF Frame!Forgotten, ToastType
  <2>3. ToastType'
    BY <1>1, <2>1, <2>2 DEF ToastType
  <2>4. GenOnce' /\ Frame!NoToastForThisPage'
    BY <1>1, <2>1 DEF GenOnce, Frame!NoToastForThisPage
  <2>5. ASSUME NEW u \in toasts', u.path = "settings", ~u.closing PROVE u.id \in ToastIds /\ pathToasts'[u.id] = u.gen
    <3>1. u \in toasts /\ u # t /\ u.id \in ToastIds /\ pathToasts[u.id] = u.gen
      BY <1>1, <2>1, <2>5 DEF EntryKept
    <3>2. u.gen # t.gen
      BY <1>1, <3>1 DEF GenOnce
    <3>3. QED
      BY <2>2, <3>1, <3>2
  <2>6. EntryKept'
    BY <1>1, <2>1, <2>5 DEF EntryKept
  <2>7. QED
    BY <2>3, <2>4, <2>6
<1>6. CASE Frame!SyncToastPath
  <2> DEFINE here == {id \in ToastIds : pathToasts[id] # 0 /\ Frame!IsOnPath("settings")}
  <2>1. /\ toasts' = Frame!Closed(here) /\ pathToasts' = [id \in ToastIds |-> IF id \in here THEN 0 ELSE pathToasts[id]]
        /\ UNCHANGED <<shown, page>> /\ UNCHANGED silent /\ synced' = TRUE
    BY <1>6 DEF Frame!SyncToastPath, Frame!update
  <2> DEFINE change == [t \in toasts |-> IF t.id \in here THEN [t EXCEPT !.closing = TRUE] ELSE t]
  <2>2. \A t \in ToastRecord : LET c == [t EXCEPT !.closing = TRUE]
                               IN  c \in ToastRecord /\ c.gen = t.gen /\ c.id = t.id /\ c.path = t.path /\ c.closing
    BY DEF ToastRecord
  <2>3. \A t \in toasts : LET u == change[t]
                          IN  /\ u \in ToastRecord /\ u.gen = t.gen /\ u.id = t.id /\ u.path = t.path
                              /\ ~u.closing => u = t /\ t.id \notin here
    BY <1>1, <2>2
  <2>4. \A u \in toasts' : \E t \in toasts : u = change[t]
    BY <2>1 DEF Frame!Closed
  <2>. HIDE DEF change, here
  <2>5. ToastType'
    <3>1. ASSUME NEW u \in toasts' PROVE u \in ToastRecord
      <4>1. PICK t \in toasts : u = change[t]
        BY <2>4
      <4>2. QED
        BY <2>3, <4>1
    <3>2. pathToasts' \in [ToastIds -> Nat]
      BY <1>1, <2>1 DEF ToastType
    <3>3. QED
      BY <1>1, <2>1, <3>1, <3>2 DEF ToastType
  <2>6. GenOnce'
    <3>1. \A u \in toasts' : u.gen \in 1 .. shown'
      <4>1. ASSUME NEW u \in toasts' PROVE u.gen \in 1 .. shown'
        <5>1. PICK t \in toasts : u = change[t]
          BY <2>4
        <5>2. QED
          BY <1>1, <2>1, <2>3, <5>1 DEF GenOnce
      <4>2. QED
        BY <4>1
    <3>2. ASSUME NEW u \in toasts', NEW v \in toasts', u.gen = v.gen PROVE u = v
      <4>1. PICK t \in toasts, w \in toasts : u = change[t] /\ v = change[w]
        BY <2>4
      <4>2. t.gen = w.gen
        BY <2>3, <3>2, <4>1
      <4>3. QED
        BY <1>1, <4>1, <4>2 DEF GenOnce
    <3>3. QED
      BY <3>1, <3>2 DEF GenOnce
  <2>7. EntryKept'
    <3>1. ASSUME NEW u \in toasts', u.path = "settings"
          PROVE  u.id \in ToastIds /\ (~u.closing => pathToasts'[u.id] = u.gen)
      <4>1. PICK t \in toasts : u = change[t]
        BY <2>4
      <4>2. t.path = "settings" /\ u.id = t.id /\ u.gen = t.gen /\ t.id \in ToastIds
        BY <1>1, <2>3, <3>1, <4>1 DEF EntryKept
      <4>3. CASE ~u.closing
        <5>1. u = t /\ t.id \notin here
          BY <2>3, <4>1, <4>3
        <5>2. pathToasts[t.id] = t.gen
          BY <1>1, <3>1, <4>3, <5>1 DEF EntryKept
        <5>3. QED
          BY <2>1, <4>2, <5>1, <5>2
      <4>4. QED
        BY <4>2, <4>3
    <3>2. QED
      BY <3>1 DEF EntryKept
  <2>8. Frame!NoToastForThisPage'
    <3>1. ASSUME page = "settings", NEW u \in toasts', u.path = "settings", ~u.closing PROVE FALSE
      <4>1. u \in toasts /\ u.id \notin here
        <5>1. PICK t \in toasts : u = change[t]
          BY <2>4
        <5>2. QED
          BY <2>3, <3>1, <5>1
      <4>2. u.id \in ToastIds /\ pathToasts[u.id] = u.gen /\ u.gen \in 1 .. shown
        BY <1>1, <3>1, <4>1 DEF EntryKept, GenOnce
      <4>3. shown \in Nat
        BY <1>1 DEF ToastType
      <4>4. \A g \in 1 .. shown : g # 0
        BY <4>3, NextGeneration
      <4>5. QED
        BY <3>1, <4>1, <4>2, <4>4 DEF Frame!IsOnPath, here
    <3>2. QED
      BY <2>1, <3>1 DEF Frame!NoToastForThisPage
  <2>9. QED
    BY <2>5, <2>6, <2>7, <2>8
<1>7. QED
  BY <1>2, <1>3, <1>4, <1>5, <1>6

LEMMA NavigationKeeps ==
  ASSUME ShellIInv, part = "notices", UNCHANGED part,
         \/ \E p \in Frame!Pages : Frame!Navigate(p)
         \/ Frame!SetLang \/ Frame!SignOut \/ Frame!Reload
  PROVE  ToastType' /\ GenOnce' /\ EntryKept' /\ Frame!NoToastForThisPage'
<1>1. /\ ToastType /\ GenOnce /\ EntryKept /\ Frame!NoToastForThisPage
      /\ silent \in {"timer", "flight", "over"} /\ page \in Frame!Pages
  BY DEF ShellIInv, ToastType
<1>2. ASSUME NEW p \in Frame!Pages, Frame!Navigate(p)
      PROVE  ToastType' /\ GenOnce' /\ EntryKept' /\ Frame!NoToastForThisPage'
  <2>1. UNCHANGED <<toasts, pathToasts, shown>> /\ UNCHANGED silent /\ page' = p /\ synced' = FALSE
    BY <1>2 DEF Frame!Navigate, Frame!update
  <2>2. ToastType'
    BY <1>1, <2>1 DEF ToastType
  <2>3. GenOnce' /\ EntryKept' /\ Frame!NoToastForThisPage'
    BY <1>1, <2>1 DEF GenOnce, EntryKept, Frame!NoToastForThisPage
  <2>4. QED
    BY <2>2, <2>3
<1>3. CASE Frame!SetLang
  <2>1. toasts' = Frame!Closed(ToastIds) /\ UNCHANGED <<pathToasts, shown, page, synced>> /\ UNCHANGED silent
    BY <1>3 DEF Frame!SetLang, Frame!update
  <2>2. QED
    BY <1>1, <2>1, ClosedKeeps
<1>4. CASE Frame!SignOut
  <2>1. toasts' = Frame!Closed(ToastIds) /\ UNCHANGED <<pathToasts, shown>>
        /\ silent' = "over" /\ page' = "login" /\ synced' = TRUE
    BY <1>4 DEF Frame!SignOut
  <2>2. QED
    BY <1>1, <2>1, ClosedKeeps
<1>5. CASE Frame!Reload
  <2>1. toasts' = {} /\ pathToasts' = [id \in ToastIds |-> 0] /\ UNCHANGED <<shown, page>>
        /\ silent' = "timer" /\ synced' = TRUE
    BY <1>5 DEF Frame!Reload
  <2>2. ToastType'
    BY <1>1, <2>1 DEF ToastType
  <2>3. GenOnce' /\ EntryKept' /\ Frame!NoToastForThisPage'
    BY <2>1 DEF GenOnce, EntryKept, Frame!NoToastForThisPage
  <2>4. QED
    BY <2>2, <2>3
<1>6. QED
  BY <1>2, <1>3, <1>4, <1>5

LEMMA ChecksKeep ==
  ASSUME ShellIInv, part = "notices", UNCHANGED part,
         \/ Frame!Release \/ Frame!SilentStart \/ Frame!CheckNow \/ Frame!OpenDialog \/ Frame!CloseDialog
         \/ \E ok \in BOOLEAN : Frame!SilentAnswer(ok) \/ Frame!CheckAnswer(ok)
  PROVE  ToastType' /\ GenOnce' /\ EntryKept' /\ Frame!NoToastForThisPage'
<1>1. /\ ToastType /\ GenOnce /\ EntryKept /\ Frame!NoToastForThisPage
      /\ silent \in {"timer", "flight", "over"} /\ page \in Frame!Pages
  BY DEF ShellIInv, ToastType
<1>2. CASE Frame!Release \/ Frame!SilentStart \/ Frame!CheckNow \/ Frame!CloseDialog
  <2>1. UNCHANGED <<toasts, pathToasts, shown, page, synced>> /\ silent' \in {silent, "flight"}
    BY <1>2 DEF Frame!Release, Frame!SilentStart, Frame!CheckNow, Frame!CloseDialog
  <2>2. QED
    BY <1>1, <2>1, NotesStay
<1>3. CASE Frame!OpenDialog
  <2>1. toasts' = Frame!Closed({Frame!UpdateToast}) /\ UNCHANGED <<pathToasts, shown, page, synced>> /\ UNCHANGED silent
    BY <1>3 DEF Frame!OpenDialog, Frame!OpenUpdateDialog
  <2>2. QED
    BY <1>1, <2>1, ClosedKeeps
<1>4. ASSUME NEW ok \in BOOLEAN, Frame!SilentAnswer(ok)
      PROVE  ToastType' /\ GenOnce' /\ EntryKept' /\ Frame!NoToastForThisPage'
  <2>1. UNCHANGED <<page, synced>> /\ silent' = "over"
        /\ (Frame!Added(Frame!UpdateToast, "", FALSE) \/ UNCHANGED <<toasts, pathToasts, shown>>)
    BY <1>4 DEF Frame!SilentAnswer
  <2>2. QED
    BY <1>1, <2>1, AddedKeeps, NotesStay
<1>5. ASSUME NEW ok \in BOOLEAN, Frame!CheckAnswer(ok)
      PROVE  ToastType' /\ GenOnce' /\ EntryKept' /\ Frame!NoToastForThisPage'
  <2>1. UNCHANGED <<page, synced>> /\ UNCHANGED silent
    BY <1>5 DEF Frame!CheckAnswer
  <2>2. CASE ok /\ Frame!Newer
    <3>1. toasts' = Frame!Closed({Frame!UpdateToast}) /\ UNCHANGED <<pathToasts, shown>>
      BY <1>5, <2>2 DEF Frame!CheckAnswer, Frame!OpenUpdateDialog
    <3>2. QED
      BY <1>1, <2>1, <3>1, ClosedKeeps
  <2>3. CASE ~(ok /\ Frame!Newer)
    <3>1. PICK id \in ToastIds \ {Frame!UpdateToast} : Frame!Added(id, "", FALSE)
      BY <1>5, <2>3 DEF Frame!CheckAnswer
    <3>2. QED
      BY <1>1, <2>1, <3>1, AddedKeeps
  <2>4. QED
    BY <2>2, <2>3
<1>6. QED
  BY <1>2, <1>3, <1>4, <1>5

LEMMA NoticesKeep == ASSUME ShellIInv, Frame!NoticesNext PROVE ShellIInv'
<1>1. part = "notices" /\ UNCHANGED part /\ UNCHANGED Frame!pal /\ UNCHANGED Frame!look
  BY DEF Frame!NoticesNext, Frame!Show, Frame!UpdateToastTo, Frame!CloseToast, Frame!Removed, Frame!Navigate, Frame!SyncToastPath, Frame!SetLang,
         Frame!SignOut, Frame!Release, Frame!SilentStart, Frame!SilentAnswer, Frame!CheckNow, Frame!CheckAnswer, Frame!OpenDialog, Frame!CloseDialog,
         Frame!Reload
<1>2. ToastType' /\ GenOnce' /\ EntryKept' /\ Frame!NoToastForThisPage'
  BY <1>1, ToastsKeep, NavigationKeeps, ChecksKeep DEF Frame!NoticesNext
<1>3. PaletteKnows' /\ RevealHeld'
  BY <1>1, PaletteStays, LookStays DEF ShellIInv
<1>4. QED
  BY <1>2, <1>3 DEF ShellIInv

\* Removing one transition leaves the others.
LEMMA OneRemoved ==
  ASSUME NEW X, NEW q \in Seq(X), NEW i \in DOMAIN q
  PROVE  SubSeq(q, 1, i - 1) \o SubSeq(q, i + 1, Len(q)) \in Seq(X)
<1>1. i \in 1 .. Len(q) /\ Len(q) \in Nat
  BY LenProperties
<1>2. SubSeq(q, 1, i - 1) \in Seq(X) /\ SubSeq(q, i + 1, Len(q)) \in Seq(X)
  BY <1>1, SubSeqProperties
<1>3. QED
  BY <1>2, ConcatProperties

LEMMA ThemeKeeps == ASSUME ShellIInv, Frame!ThemeNext PROVE ShellIInv'
<1>1. part = "theme" /\ UNCHANGED part /\ UNCHANGED page /\ UNCHANGED Frame!pal /\ UNCHANGED Frame!notes
  BY DEF Frame!ThemeNext, Frame!SetTheme, Frame!SystemTheme, Frame!RunUpdate, Frame!SkipTransition, Frame!Finish
<1>2. PaletteKnows' /\ ToastType' /\ GenOnce' /\ EntryKept' /\ Frame!NoToastForThisPage'
  <2>1. UNCHANGED <<toasts, pathToasts, synced, shown>> /\ UNCHANGED silent
    BY <1>1 DEF Frame!notes, Frame!update
  <2>2. page \in Frame!Pages /\ silent \in {"timer", "flight", "over"}
    BY DEF ShellIInv, ToastType
  <2>3. QED
    BY <1>1, <2>1, <2>2, NotesStay, PaletteStays DEF ShellIInv
<1>3. RevealHeld
  BY DEF ShellIInv
<1>4. ASSUME NEW t \in {"system", "light", "dark"}, NEW c \in BOOLEAN, Frame!SetTheme(t, c) PROVE RevealHeld'
  <2>1. CASE Frame!Render(t, systemDark) /\ UNCHANGED <<reveal, transitions>>
    BY <1>3, <2>1 DEF RevealHeld, Frame!Render, Frame!Resolved
  <2>2. CASE ~(Frame!Render(t, systemDark) /\ UNCHANGED <<reveal, transitions>>)
    <3> DEFINE cut == [i \in DOMAIN transitions |-> [transitions[i] EXCEPT !.skipped = TRUE]]
               new == [theme |-> t, phase |-> "pending", skipped |-> FALSE]
    <3>1. reveal' = TRUE /\ transitions' = Append(cut, new) /\ UNCHANGED <<theme, systemDark, dark>>
      BY <1>4, <2>2, Zenon DEF Frame!SetTheme
    <3>2. \A r \in TransitionRecord : [r EXCEPT !.skipped = TRUE] \in TransitionRecord
      BY DEF TransitionRecord
    <3>3. cut \in Seq(TransitionRecord)
      BY <1>3, <3>2 DEF RevealHeld
    <3>4. new \in TransitionRecord
      BY DEF TransitionRecord
    <3>. HIDE DEF cut, new
    <3>5. transitions' \in Seq(TransitionRecord) /\ transitions' # <<>>
      BY <3>1, <3>3, <3>4, AppendProperties
    <3>6. QED
      BY <1>3, <3>1, <3>5 DEF RevealHeld, Frame!Resolved
  <2>3. QED
    BY <2>1, <2>2
<1>5. ASSUME Frame!SystemTheme PROVE RevealHeld'
  BY <1>3, <1>5 DEF RevealHeld, Frame!SystemTheme, Frame!Render, Frame!Resolved
<1>6. ASSUME NEW i \in DOMAIN transitions, Frame!RunUpdate(i) PROVE RevealHeld'
  <2>1. /\ Frame!Render(transitions[i].theme, systemDark) /\ UNCHANGED reveal
        /\ transitions' = [transitions EXCEPT ![i].phase = "running"]
    BY <1>6 DEF Frame!RunUpdate
  <2>2. \A r \in TransitionRecord : [r EXCEPT !.phase = "running"] \in TransitionRecord
    BY DEF TransitionRecord
  <2>3. transitions' \in Seq(TransitionRecord) /\ transitions' # <<>>
    BY <1>3, <1>6, <2>1, <2>2 DEF RevealHeld
  <2>4. QED
    BY <1>3, <2>1, <2>3 DEF RevealHeld, Frame!Render, Frame!Resolved
<1>7. ASSUME NEW i \in DOMAIN transitions, Frame!SkipTransition(i) PROVE RevealHeld'
  <2>1. transitions' = [transitions EXCEPT ![i].skipped = TRUE] /\ UNCHANGED <<reveal, theme, systemDark, dark>>
    BY <1>7 DEF Frame!SkipTransition
  <2>2. \A r \in TransitionRecord : [r EXCEPT !.skipped = TRUE] \in TransitionRecord
    BY DEF TransitionRecord
  <2>3. transitions' \in Seq(TransitionRecord) /\ transitions' # <<>>
    BY <1>3, <1>7, <2>1, <2>2 DEF RevealHeld
  <2>4. QED
    BY <1>3, <2>1, <2>3 DEF RevealHeld, Frame!Resolved
<1>8. ASSUME NEW i \in DOMAIN transitions, Frame!Finish(i) PROVE RevealHeld'
  <2>1. /\ transitions' = SubSeq(transitions, 1, i - 1) \o SubSeq(transitions, i + 1, Len(transitions))
        /\ reveal' = FALSE /\ UNCHANGED <<theme, systemDark, dark>>
    BY <1>8 DEF Frame!Finish, Frame!Unreveal
  <2>2. transitions' \in Seq(TransitionRecord)
    BY <1>3, <2>1, OneRemoved DEF RevealHeld
  <2>3. QED
    BY <1>3, <2>1, <2>2 DEF RevealHeld, Frame!Resolved
<1>9. RevealHeld'
  BY <1>4, <1>5, <1>6, <1>7, <1>8 DEF Frame!ThemeNext
<1>10. QED
  BY <1>2, <1>9 DEF ShellIInv

LEMMA ShellInductive == Frame!Spec => []ShellIInv
<1>1. Frame!Init => ShellIInv
  BY ShellStarts
<1>2. ShellIInv /\ [Frame!Next]_(Frame!vars) => ShellIInv'
  <2>1. ASSUME ShellIInv, UNCHANGED Frame!vars PROVE ShellIInv'
    <3>1. /\ UNCHANGED <<toasts, pathToasts, synced, shown>> /\ UNCHANGED <<silent, part, page>>
          /\ UNCHANGED Frame!pal /\ UNCHANGED Frame!look
      BY <2>1 DEF Frame!vars, Frame!notes, Frame!update
    <3>2. page \in Frame!Pages /\ silent \in {"timer", "flight", "over"}
      BY <2>1 DEF ShellIInv, ToastType
    <3>3. QED
      BY <2>1, <3>1, <3>2, PaletteStays, LookStays, NotesStay DEF ShellIInv
  <2>2. QED
    BY <2>1, PaletteKeeps, NoticesKeep, ThemeKeeps DEF Frame!Next
<1>3. QED
  BY <1>1, <1>2, PTL DEF Frame!Spec

\* However many toasts, checks, navigations and theme changes: no toast points at the page the user
\* is on once its path effect has run, and a reveal ends with its class gone and the last theme shown
\* (lib/toast.ts, theme-provider.tsx).
THEOREM ShellAlwaysTellsRight == Frame!Spec => []Frame!ShellTellsRight
<1>1. ShellIInv => Frame!ShellTellsRight
  <2>1. ShellIInv => Frame!TypeOK
    BY DEF ShellIInv, PaletteKnows, ToastType, RevealHeld, Frame!TypeOK, Frame!Resolved
  <2>2. ShellIInv => Frame!NoToastForThisPage /\ Frame!RevealEnds
    BY DEF ShellIInv, RevealHeld, Frame!RevealEnds
  <2>3. QED
    BY <2>1, <2>2 DEF Frame!ShellTellsRight
<1>2. QED
  BY <1>1, ShellInductive, PTL

\* Dismissing the palette always gives focus back to what had it when it was opened
\* (command-menu.tsx).
THEOREM PaletteAlwaysReturnsFocus == Spec => PaletteReturnsFocus
<1>1. ASSUME ShellIInv, Frame!Shortcut \/ Frame!Dismiss, open
      PROVE  focus' = IF Frame!Takes(before) THEN before ELSE "body"
  <2>1. focus' = Frame!FinalFocus(opener)
    BY <1>1 DEF Frame!Shortcut, Frame!Dismiss, Frame!Close
  <2>2. before \in Focusable /\ opener = IF before = "body" THEN "none" ELSE before
    BY <1>1 DEF ShellIInv, PaletteKnows
  <2>3. QED
    BY <2>1, <2>2 DEF Focusable, Frame!FinalFocus, Frame!Connected, Frame!Takes, Frame!Trigger
<1>2. ShellIInv => Frame!FocusReturns
  BY <1>1 DEF Frame!FocusReturns
<1>3. (~(which = "shell") \/ ShellIInv) /\ [Next]_vars => [which = "shell" => Frame!FocusReturns]_vars
  BY <1>2
<1>4. QED
  BY <1>3, ShellInductive, FrameRuns, PTL DEF Spec, PaletteReturnsFocus

(***************************************************************************)
(* Amounts read within their last digit, and error phrases as what they    *)
(* are.                                                                    *)
(*                                                                         *)
(* What was rounded once is rounded to itself, so choosing the unit by the *)
(* rounded value is safe; and the longest phrase inside a part of the      *)
(* message is the one that no other phrase inside it contains.             *)
(***************************************************************************)

\* The amounts a walk begins at are amounts, and a unit is larger than the one before it.
AmountBounds == Kilo \in Nat /\ Kilo > 1 /\ \A k \in Amounts!Kinds : Starts[k] \subseteq Nat

\* The words of the phrases and of the messages.
Word == {"session", "missing", "or", "expired", "authorization", "timeout", "failed", "device", "approve", "token",
         "unknown", "semicolon"}

\* The inductive invariant.
AmountIInv == AmountBounds /\ Amounts!TypeOK /\ message \in Seq(Word)

LEMMA WordsMake ==
  ASSUME NEW X, NEW w \in X, NEW x \in X, NEW y \in X, NEW z \in X
  PROVE  <<w>> \in Seq(X) /\ <<w, x>> \in Seq(X) /\ <<w, x, y>> \in Seq(X) /\ <<w, x, y, z>> \in Seq(X)
OBVIOUS

LEMMA PhrasesAreWords ==
  /\ DOMAIN Amounts!Table = 1 .. 6
  /\ \A i \in 1 .. 6 : /\ Amounts!Table[i].words \in Seq(Word) /\ Len(Amounts!Table[i].words) \in Nat
                       /\ \A j \in 1 .. 6 : Amounts!Table[j].words = Amounts!Table[i].words => j = i
<1>1. DOMAIN Amounts!Table = 1 .. 6
  BY DEF Amounts!Table
<1>2. \A i \in 1 .. 6 : Amounts!Table[i].words \in Seq(Word)
  <2>0. {"session", "missing", "or", "expired", "authorization", "timeout", "failed", "device", "approve"} \subseteq Word
    BY DEF Word
  <2>1. ASSUME NEW i \in 1 .. 6 PROVE Amounts!Table[i].words \in Seq(Word)
    <3>1. CASE i = 1
      <4>1. Amounts!Table[i].words = <<"session", "missing", "or", "expired">>
        BY <3>1 DEF Amounts!Table
      <4>2. QED
        BY <2>0, <4>1, WordsMake
    <3>2. CASE i = 2
      <4>1. Amounts!Table[i].words = <<"session", "expired">>
        BY <3>2 DEF Amounts!Table
      <4>2. QED
        BY <2>0, <4>1, WordsMake
    <3>3. CASE i = 3
      <4>1. Amounts!Table[i].words = <<"authorization", "timeout">>
        BY <3>3 DEF Amounts!Table
      <4>2. QED
        BY <2>0, <4>1, WordsMake
    <3>4. CASE i = 4
      <4>1. Amounts!Table[i].words = <<"authorization", "failed">>
        BY <3>4 DEF Amounts!Table
      <4>2. QED
        BY <2>0, <4>1, WordsMake
    <3>5. CASE i = 5
      <4>1. Amounts!Table[i].words = <<"device", "authorization", "failed">>
        BY <3>5 DEF Amounts!Table
      <4>2. QED
        BY <2>0, <4>1, WordsMake
    <3>6. CASE i = 6
      <4>1. Amounts!Table[i].words = <<"approve", "authorization", "failed">>
        BY <3>6 DEF Amounts!Table
      <4>2. QED
        BY <2>0, <4>1, WordsMake
    <3>7. QED
      BY <3>1, <3>2, <3>3, <3>4, <3>5, <3>6
  <2>2. QED
    BY <2>1
<1>3. \A i \in 1 .. 6 : Len(Amounts!Table[i].words) \in Nat
  BY <1>2, LenProperties
<1>4. \A i, j \in 1 .. 6 : Amounts!Table[j].words = Amounts!Table[i].words => j = i
  BY DEF Amounts!Table
<1>5. QED
  BY <1>1, <1>2, <1>3, <1>4

LEMMA AmountInductive == AmountBounds /\ Amounts!Spec => []AmountIInv
<1>1. AmountBounds /\ Amounts!Init => AmountIInv
  <2> SUFFICES ASSUME AmountBounds, Amounts!Init PROVE AmountIInv
    OBVIOUS
  <2>1. CASE kind \in Amounts!Kinds /\ first \in Starts[kind] /\ n = first /\ message = <<>>
    <3>1. Starts[kind] \subseteq Nat
      BY <2>1 DEF AmountBounds
    <3>2. QED
      BY <2>1, <3>1 DEF Amounts!TypeOK, AmountIInv
  <2>2. CASE kind = "error" /\ first = 0 /\ n = 0 /\ message \in {<<w>> : w \in {"token", "unknown"}}
    <3>1. <<"token">> \in Seq(Word) /\ <<"unknown">> \in Seq(Word)
      <4>1. "token" \in Word /\ "unknown" \in Word
        BY DEF Word
      <4>2. QED
        BY <4>1, WordsMake
    <3>2. message \in Seq(Word)
      BY <2>2, <3>1
    <3>3. QED
      BY <2>2, <3>2 DEF Amounts!TypeOK, AmountIInv
  <2>3. QED
    BY <2>1, <2>2 DEF Amounts!Init
<1>2. AmountIInv /\ [Amounts!Next]_(Amounts!vars) => AmountIInv'
  <2>0. AmountBounds => AmountBounds'
    BY DEF AmountBounds, Amounts!Kinds
  <2>1. ASSUME AmountIInv, Amounts!More \/ UNCHANGED Amounts!vars PROVE AmountIInv'
    BY <2>0, <2>1 DEF Amounts!More, Amounts!vars, AmountIInv, Amounts!TypeOK
  <2>2. ASSUME AmountIInv, NEW i \in DOMAIN Amounts!Table, Amounts!Wrap(i) PROVE AmountIInv'
    <3>1. Amounts!Table[i].words \in Seq(Word) /\ message' = message \o Amounts!Table[i].words
      BY <2>2, PhrasesAreWords DEF Amounts!Wrap
    <3>3. message' \in Seq(Word)
      BY <2>2, <3>1, ConcatProperties DEF AmountIInv
    <3>2. QED
      BY <2>0, <2>2, <3>3 DEF Amounts!Wrap, AmountIInv, Amounts!TypeOK
  <2>3. ASSUME AmountIInv, Amounts!Join PROVE AmountIInv'
    <3>0. "semicolon" \in Word /\ "token" \in Word
      BY DEF Word
    <3>1. /\ message \in Seq(Word) /\ <<"semicolon", "token">> \in Seq(Word)
          /\ message' = message \o <<"semicolon", "token">>
      BY <2>3, <3>0, WordsMake DEF Amounts!Join, AmountIInv
    <3>3. message' \in Seq(Word)
      BY <3>1, ConcatProperties
    <3>2. QED
      BY <2>0, <2>3, <3>3 DEF Amounts!Join, AmountIInv, Amounts!TypeOK
  <2>4. QED
    BY <2>1, <2>2, <2>3 DEF Amounts!Next
<1>3. QED
  BY <1>1, <1>2, PTL DEF Amounts!Spec

\* Rounding is off by half a step at most.
LEMMA Rounded ==
  ASSUME NEW a \in Nat
  PROVE  /\ LET r == Amounts!Round(a, 10)   IN r \in Nat /\ 20 * r <= 2 * a + 10 /\ 2 * a < 20 * r + 10
         /\ LET r == Amounts!Round(a, 100)  IN r \in Nat /\ 200 * r <= 2 * a + 100 /\ 2 * a < 200 * r + 100
         /\ LET r == Amounts!Round(a, 1000) IN r \in Nat /\ 2000 * r <= 2 * a + 1000 /\ 2 * a < 2000 * r + 1000
<1>1. LET r == (2 * a + 10) \div 20 IN r \in Nat /\ 20 * r <= 2 * a + 10 /\ 2 * a < 20 * r + 10
  OBVIOUS
<1>2. LET r == (2 * a + 100) \div 200 IN r \in Nat /\ 200 * r <= 2 * a + 100 /\ 2 * a < 200 * r + 100
  OBVIOUS
<1>3. LET r == (2 * a + 1000) \div 2000 IN r \in Nat /\ 2000 * r <= 2 * a + 1000 /\ 2 * a < 2000 * r + 1000
  OBVIOUS
<1>4. Amounts!Round(a, 10) = (2 * a + 10) \div 20 /\ Amounts!Round(a, 100) = (2 * a + 100) \div 200
      /\ Amounts!Round(a, 1000) = (2 * a + 1000) \div 2000
  BY DEF Amounts!Round
<1>5. QED
  BY <1>1, <1>2, <1>3, <1>4

\* What is rounded is rounded to itself.
LEMMA RoundsItself ==
  ASSUME NEW k \in Nat
  PROVE  Amounts!Round(k * 10, 10) = k /\ Amounts!Round(k * 100, 100) = k
<1>1. Amounts!Round(k * 10, 10) = (20 * k + 10) \div 20 /\ Amounts!Round(k * 100, 100) = (200 * k + 100) \div 200
  BY DEF Amounts!Round
<1>2. (20 * k + 10) \div 20 = k /\ (200 * k + 100) \div 200 = k
  OBVIOUS
<1>3. QED
  BY <1>1, <1>2

LEMMA Apart ==
  ASSUME NEW a \in Int, NEW b \in Int, NEW c \in Int, 2 * (a - b) <= c, 2 * (b - a) <= c
  PROVE  2 * Amounts!Max({a - b, b - a}) <= c
BY DEF Amounts!Max

\* Seconds: the value that is rounded first is shown as it is.
LEMMA SecondsShown ==
  ASSUME NEW a \in Nat, NEW q, NEW p,
         LET step == IF a < 10000 THEN 10 ELSE 100
             again == IF q * step < 10000 THEN 10 ELSE 100
         IN  q = Amounts!Round(a, step) /\ p = Amounts!Round(q * step, again)
  PROVE  LET step == IF a < 10000 THEN 10 ELSE 100
             rounded == q * step
             again == IF rounded < 10000 THEN 10 ELSE 100
         IN  /\ rounded \in Nat /\ p \in Nat /\ p * again = rounded
             /\ 2 * (rounded - a) <= again /\ 2 * (a - rounded) <= again
<1>1. CASE a < 10000
  <2>1. q = Amounts!Round(a, 10)
    BY <1>1
  <2>2. q \in Nat /\ 20 * q <= 2 * a + 10 /\ 2 * a < 20 * q + 10
    BY <2>1, Rounded
  <2>3. CASE q * 10 < 10000
    <3>1. p = Amounts!Round(q * 10, 10)
      BY <1>1, <2>2, <2>3
    <3>3. p = q
      BY <2>2, <3>1, RoundsItself
    <3>4. QED
      BY <1>1, <2>2, <2>3, <3>3
  <2>4. CASE ~(q * 10 < 10000)
    <3>1. q = 1000
      BY <1>1, <2>2, <2>4
    <3>2. p = Amounts!Round(100 * 100, 100)
      BY <1>1, <3>1
    <3>4. p = 100
      BY <3>2, RoundsItself
    <3>5. QED
      BY <1>1, <2>2, <3>1, <3>4
  <2>5. QED
    BY <2>3, <2>4
<1>2. CASE ~(a < 10000)
  <2>1. q = Amounts!Round(a, 100)
    BY <1>2
  <2>2. q \in Nat /\ 200 * q <= 2 * a + 100 /\ 2 * a < 200 * q + 100
    BY <2>1, Rounded
  <2>3. ~(q * 100 < 10000) /\ q * 100 \in Nat
    BY <1>2, <2>2
  <2>4. p = Amounts!Round(q * 100, 100)
    BY <1>2, <2>3
  <2>6. p = q
    BY <2>2, <2>4, RoundsItself
  <2>7. QED
    BY <1>2, <2>2, <2>3, <2>6
<1>3. QED
  BY <1>1, <1>2

LEMMA DurationHonest ==
  ASSUME NEW a \in Nat
  PROVE  LET r == Amounts!FormatDurationMs(a)
         IN  /\ r.unit = "s" => r.shown * r.step < 60000
             /\ (r.unit = "s" /\ r.step = 10) => r.shown < 1000
             /\ r.unit \notin {"kB", "MB"}
             /\ r.shown * r.step \in Int /\ r.step \in Int
             /\ 2 * (r.shown * r.step - a) <= r.step /\ 2 * (a - r.shown * r.step) <= r.step
<1> DEFINE step == IF a < 10000 THEN 10 ELSE 100
           q == Amounts!Round(a, step)
           rounded == q * step
           again == IF rounded < 10000 THEN 10 ELSE 100
           p == Amounts!Round(rounded, again)
<1>1. Amounts!FormatDurationMs(a) =
        IF a < 1000 THEN [unit |-> "ms", step |-> 1, shown |-> a]
        ELSE IF rounded < 60000 THEN [unit |-> "s", step |-> again, shown |-> p]
        ELSE [unit |-> "min_s", step |-> 1000, shown |-> Amounts!Round(a, 1000)]
  BY DEF Amounts!FormatDurationMs
<1>2. /\ rounded \in Nat /\ p \in Nat /\ p * again = rounded
      /\ 2 * (rounded - a) <= again /\ 2 * (a - rounded) <= again
  BY SecondsShown
<1>3. again \in {10, 100} /\ (again = 10 => rounded < 10000)
  OBVIOUS
<1>. HIDE DEF q, p, again, rounded, step
<1>4. CASE a < 1000
  BY <1>1, <1>4
<1>5. CASE a >= 1000 /\ rounded < 60000
  <2>1. Amounts!FormatDurationMs(a) = [unit |-> "s", step |-> again, shown |-> p]
    BY <1>1, <1>5
  <2>2. again = 10 => p < 1000
    BY <1>2, <1>3
  <2>3. QED
    BY <1>2, <1>3, <1>5, <2>1, <2>2
<1>6. CASE ~(a < 1000) /\ ~(rounded < 60000)
  <2>1. Amounts!FormatDurationMs(a) = [unit |-> "min_s", step |-> 1000, shown |-> Amounts!Round(a, 1000)]
    BY <1>1, <1>6
  <2>2. PICK m : m = Amounts!Round(a, 1000)
    OBVIOUS
  <2>3. m \in Nat /\ 2000 * m <= 2 * a + 1000 /\ 2 * a < 2000 * m + 1000
    BY <2>2, Rounded
  <2>4. 2 * (m * 1000 - a) <= 1000 /\ 2 * (a - m * 1000) <= 1000 /\ m * 1000 \in Int
    BY <2>3
  <2>5. PICK r : r = Amounts!FormatDurationMs(a)
    OBVIOUS
  <2>6. r.unit = "min_s" /\ r.step = 1000 /\ r.shown = m
    BY <2>1, <2>2, <2>5
  <2>7. QED
    BY <2>4, <2>5, <2>6
<1>7. QED
  BY <1>4, <1>5, <1>6

LEMMA BytesHonest ==
  ASSUME NEW b \in Nat, Kilo \in Nat, Kilo > 1
  PROVE  LET r == Amounts!FormatBytes(b)
         IN  r.unit # "s" /\ (r.unit \in {"kB", "MB"} => r.shown < 10 * Kilo)
<1> DEFINE tenths(size) == Amounts!Round(10 * b, size)
           size == IF Amounts!Stays(b, Kilo) THEN Kilo ELSE IF Amounts!Stays(b, Kilo * Kilo) THEN Kilo * Kilo
                   ELSE Kilo * Kilo * Kilo
<1>1. Amounts!FormatBytes(b) =
        IF b < Kilo THEN [unit |-> "B", step |-> 1, shown |-> b]
        ELSE [unit |-> IF size = Kilo THEN "kB" ELSE IF size = Kilo * Kilo THEN "MB" ELSE "GB",
              step |-> size, shown |-> tenths(size)]
  BY Zenon DEF Amounts!FormatBytes
<1>2. Kilo * Kilo > Kilo /\ Kilo * Kilo * Kilo > Kilo * Kilo
  <2>1. \A x, y, z \in Nat : x > 1 /\ y = x * x /\ z = x * y => y > x
    OBVIOUS
  <2>2. QED
    BY <2>1
<1>3. size = Kilo => Amounts!Stays(b, Kilo)
  BY <1>2
<1>4. size # Kilo /\ size = Kilo * Kilo => Amounts!Stays(b, Kilo * Kilo)
  BY <1>2
<1>5. /\ Amounts!Stays(b, Kilo) => tenths(Kilo) < 10 * Kilo
      /\ Amounts!Stays(b, Kilo * Kilo) => tenths(Kilo * Kilo) < 10 * Kilo
  BY DEF Amounts!Stays
<1>6. size = Kilo \/ size = Kilo * Kilo => tenths(size) < 10 * Kilo
  BY <1>3, <1>4, <1>5
<1>. HIDE DEF size, tenths
<1>7. QED
  BY <1>1, <1>6

LEMMA CreditsHonest ==
  ASSUME NEW c \in Nat
  PROVE  LET r == Amounts!FormatCredits(c)
         IN  r.unit \notin {"s", "kB", "MB"} /\ (r.shown = 0 <=> c = 0)
<1>1. CASE Amounts!RoundsToZero(c)
  BY <1>1 DEF Amounts!FormatCredits, Amounts!RoundsToZero
<1>2. CASE ~Amounts!RoundsToZero(c)
  <2>1. PICK q : q = Amounts!Round(c, 100)
    OBVIOUS
  <2>2. q \in Nat /\ 200 * q <= 2 * c + 100 /\ 2 * c < 200 * q + 100
    BY <2>1, Rounded
  <2>3. c = 0 \/ c >= 50
    BY <1>2 DEF Amounts!RoundsToZero
  <2>4. q = 0 <=> c = 0
    BY <2>2, <2>3
  <2>5. Amounts!FormatCredits(c) = [unit |-> "plain", step |-> 100, shown |-> q]
    BY <1>2, <2>1 DEF Amounts!FormatCredits
  <2>6. PICK r : r = Amounts!FormatCredits(c)
    OBVIOUS
  <2>7. r.unit = "plain" /\ r.shown = q
    BY <2>5, <2>6
  <2>8. QED
    BY <2>4, <2>6, <2>7
<1>3. QED
  BY <1>1, <1>2

LEMMA UptimeHonest ==
  ASSUME NEW t \in Nat
  PROVE  LET r == Amounts!FormatUptime(t)
         IN  r.unit \notin {"s", "kB", "MB"} /\ r.shown * r.step <= t /\ t < r.shown * r.step + r.step
<1>1. (t \div 3600) * 3600 <= t /\ t < (t \div 3600) * 3600 + 3600
  OBVIOUS
<1>2. (t \div 60) * 60 <= t /\ t < (t \div 60) * 60 + 60
  OBVIOUS
<1>3. QED
  BY <1>1, <1>2 DEF Amounts!FormatUptime

LEMMA AmountsHonest == AmountIInv => Amounts!ShownHonestly
<1> SUFFICES ASSUME AmountIInv, kind # "error" PROVE Amounts!ShownHonestly
  BY DEF Amounts!ShownHonestly
<1>1. n \in Nat /\ kind \in {"duration", "bytes", "credits", "uptime"} /\ Kilo \in Nat /\ Kilo > 1
  BY DEF AmountBounds, AmountIInv, Amounts!TypeOK, Amounts!Kinds
<1>2. PICK r : r = Amounts!Shown(kind, n)
  OBVIOUS
<1>3. CASE kind = "duration"
  <2>1. r = Amounts!FormatDurationMs(n)
    BY <1>2, <1>3, Zenon DEF Amounts!Shown
  <2>2. Amounts!Reading(kind, r) = r.shown * r.step
    BY <1>3 DEF Amounts!Reading
  <2>3. r.shown * r.step \in Int /\ r.step \in Int /\ 2 * (r.shown * r.step - n) <= r.step
        /\ 2 * (n - r.shown * r.step) <= r.step
    BY <1>1, <2>1, DurationHonest
  <2>4. 2 * Amounts!Max({Amounts!Reading(kind, r) - n, n - Amounts!Reading(kind, r)}) <= r.step
    BY <1>1, <2>2, <2>3, Apart
  <2>5. QED
    BY <1>1, <1>2, <1>3, <2>1, <2>4, DurationHonest DEF Amounts!ShownHonestly
<1>4. CASE kind = "bytes"
  <2>1. r = Amounts!FormatBytes(n)
    BY <1>2, <1>4, Zenon DEF Amounts!Shown
  <2>2. QED
    BY <1>1, <1>2, <1>4, <2>1, BytesHonest DEF Amounts!ShownHonestly
<1>5. CASE kind = "credits"
  <2>1. r = Amounts!FormatCredits(n)
    BY <1>2, <1>5, Zenon DEF Amounts!Shown
  <2>2. QED
    BY <1>1, <1>2, <1>5, <2>1, CreditsHonest DEF Amounts!ShownHonestly
<1>6. CASE kind = "uptime"
  <2>1. r = Amounts!FormatUptime(n)
    BY <1>2, <1>6, Zenon DEF Amounts!Shown
  <2>2. Amounts!Reading(kind, r) = r.shown * r.step
    BY <1>6 DEF Amounts!Reading
  <2>3. QED
    BY <1>1, <1>2, <1>6, <2>1, <2>2, UptimeHonest DEF Amounts!ShownHonestly
<1>7. QED
  BY <1>1, <1>3, <1>4, <1>5, <1>6

\* A phrase at the end of a message is inside it.
LEMMA EndIsInside ==
  ASSUME NEW p \in Seq(Word), NEW w \in Seq(Word), Len(p) >= Len(w), SubSeq(p, 1 + Len(p) - Len(w), Len(p)) = w
  PROVE  Amounts!Inside(w, p)
<1>1. PICK a \in Nat, b \in Nat : a = Len(p) /\ b = Len(w)
  BY LenProperties
<1>2. a - b \in 0 .. a - b /\ (a - b) + 1 = 1 + a - b /\ (a - b) + b = a
  BY <1>1
<1>3. SubSeq(p, (a - b) + 1, (a - b) + b) = w
  BY <1>1, <1>2
<1>4. QED
  BY <1>1, <1>2, <1>3 DEF Amounts!Inside

\* A phrase inside another is shorter or the same.
LEMMA InsideIsShorter ==
  ASSUME NEW u \in Seq(Word), NEW w \in Seq(Word), Amounts!Inside(u, w)
  PROVE  Len(u) <= Len(w) /\ (Len(u) = Len(w) => u = w)
<1>1. PICK k \in 0 .. (Len(w) - Len(u)) : SubSeq(w, k + 1, k + Len(u)) = u
  BY DEF Amounts!Inside
<1>2. Len(u) <= Len(w)
  BY <1>1
<1>3. ASSUME Len(u) = Len(w) PROVE u = w
  <2>1. k = 0
    BY <1>1, <1>3
  <2>2. SubSeq(w, 1, Len(w)) = u
    BY <1>1, <1>3, <2>1
  <2>3. SubSeq(w, 1, Len(w)) = w
    OBVIOUS
  <2>4. QED
    BY <2>2, <2>3
<1>4. QED
  BY <1>2, <1>3

LEMMA LongestPhrase ==
  ASSUME NEW p \in Seq(Word), NEW i \in 1 .. 6, Amounts!Inside(Amounts!Table[i].words, p),
         \A j \in 1 .. 6 : j # i /\ Amounts!Inside(Amounts!Table[j].words, p)
                            => Amounts!Inside(Amounts!Table[j].words, Amounts!Table[i].words)
  PROVE  Amounts!Phrase(p) = Amounts!Table[i].key
<1> DEFINE found == {j \in DOMAIN Amounts!Table : Amounts!Inside(Amounts!Table[j].words, p)}
           best  == {j \in found : \A h \in found : Len(Amounts!Table[h].words) <= Len(Amounts!Table[j].words)}
<1>1. i \in found /\ found \subseteq 1 .. 6
  BY PhrasesAreWords
<1>2. \A j \in found : Len(Amounts!Table[j].words) <= Len(Amounts!Table[i].words)
                      /\ (Len(Amounts!Table[j].words) = Len(Amounts!Table[i].words) => j = i)
  <2>1. ASSUME NEW j \in found, j # i
        PROVE  /\ Len(Amounts!Table[j].words) <= Len(Amounts!Table[i].words)
               /\ Len(Amounts!Table[j].words) # Len(Amounts!Table[i].words)
    <3>1. Amounts!Inside(Amounts!Table[j].words, Amounts!Table[i].words) /\ j \in 1 .. 6
      BY <1>1, <2>1
    <3>2. Amounts!Table[j].words \in Seq(Word) /\ Amounts!Table[i].words \in Seq(Word)
          /\ Amounts!Table[j].words # Amounts!Table[i].words
      BY <2>1, <3>1, PhrasesAreWords
    <3>3. QED
      BY <3>1, <3>2, InsideIsShorter
  <2>2. Len(Amounts!Table[i].words) \in Nat
    BY PhrasesAreWords
  <2>3. QED
    BY <2>1, <2>2
<1>3. \A j \in 1 .. 6 : Len(Amounts!Table[j].words) \in Nat
  BY PhrasesAreWords
<1>4. best = {i}
  <2>1. i \in best
    BY <1>1, <1>2
  <2>2. ASSUME NEW j \in best PROVE j = i
    <3>1. j \in found /\ Len(Amounts!Table[i].words) <= Len(Amounts!Table[j].words)
      BY <1>1, <2>2
    <3>2. QED
      BY <1>1, <1>2, <1>3, <3>1
  <2>3. QED
    BY <2>1, <2>2
<1>5. Amounts!Phrase(p) = IF found = {} THEN "none" ELSE Amounts!Table[Amounts!Min(best)].key
  BY DEF Amounts!Phrase
<1>. HIDE DEF found, best
<1>6. Amounts!Min(best) = i
  BY <1>4 DEF Amounts!Min
<1>7. QED
  BY <1>1, <1>5, <1>6

\* The parts of a message are words too.
LEMMA PartsAreWords == ASSUME message \in Seq(Word), NEW p \in Amounts!Parts(message) PROVE p \in Seq(Word)
<1> DEFINE cuts == {0, Len(message) + 1} \cup {j \in DOMAIN message : message[j] = "semicolon"}
           nextCut(j) == Amounts!Min({h \in cuts : h > j})
<1>1. PICK j \in cuts \ {Len(message) + 1} : p = SubSeq(message, j + 1, nextCut(j) - 1)
  BY Zenon DEF Amounts!Parts
<1>2. PICK len \in Nat : len = Len(message) /\ DOMAIN message = 1 .. len
  BY LenProperties
<1>3. \A h \in cuts : h \in Nat /\ h <= len + 1
  <2>1. \A h \in 1 .. len : h \in Nat /\ h <= len + 1
    BY <1>2
  <2>2. 0 \in Nat /\ 0 <= len + 1 /\ len + 1 \in Nat
    BY <1>2
  <2>3. QED
    BY <1>2, <2>1, <2>2
<1>4. j < len + 1 /\ j \in Nat
  BY <1>2, <1>1, <1>3
<1>5. nextCut(j) \in cuts /\ nextCut(j) > j
  <2>1. {h \in cuts : h > j} \subseteq Nat /\ len + 1 \in {h \in cuts : h > j}
    BY <1>2, <1>3, <1>4
  <2>2. \E x \in {h \in cuts : h > j} : \A y \in {h \in cuts : h > j} : x <= y
    BY <2>1, LeastPosition
  <2>3. Amounts!Min({h \in cuts : h > j}) \in {h \in cuts : h > j}
    BY <2>2 DEF Amounts!Min
  <2>4. QED
    BY <2>3
<1>. HIDE DEF cuts, nextCut
<1>6. PICK e \in Nat : e = nextCut(j) /\ e <= len + 1 /\ e > j
  BY <1>3, <1>5
<1>7. j + 1 >= 1 /\ e - 1 <= len /\ j + 1 \in Int /\ e - 1 \in Int
  BY <1>4, <1>6
<1>8. p = SubSeq(message, j + 1, e - 1)
  BY <1>1, <1>6
<1>9. QED
  BY <1>2, <1>4, <1>6, <1>7, <1>8, SubSeqProperties

LEMMA PhrasesToldApart == AmountIInv => Amounts!PhraseToldApart
<1> SUFFICES ASSUME AmountIInv, NEW i \in DOMAIN Amounts!Table, NEW p \in Amounts!Parts(message), kind = "error",
                    Len(p) >= Len(Amounts!Table[i].words),
                    SubSeq(p, 1 + Len(p) - Len(Amounts!Table[i].words), Len(p)) = Amounts!Table[i].words,
                    \A j \in DOMAIN Amounts!Table : (j # i /\ Amounts!Inside(Amounts!Table[j].words, p))
                       => Amounts!Inside(Amounts!Table[j].words, Amounts!Table[i].words)
             PROVE  Amounts!Table[i].key \in Amounts!ErrorMessage(message)
  BY DEF Amounts!PhraseToldApart
<1>1. p \in Seq(Word)
  BY PartsAreWords DEF AmountIInv
<1>2. Amounts!Inside(Amounts!Table[i].words, p)
  BY <1>1, EndIsInside, PhrasesAreWords
<1>3. Amounts!Phrase(p) = Amounts!Table[i].key
  BY <1>1, <1>2, LongestPhrase, PhrasesAreWords
<1>4. QED
  BY <1>3 DEF Amounts!ErrorMessage

\* For every amount and every message the server can build: an amount reads within its last digit and
\* below the limit of its unit, and a phrase is told as what it is (lib/format.ts, server-errors.ts).
THEOREM AmountsAlwaysToldRight == AmountBounds /\ Amounts!Spec => []Amounts!AmountsToldRight
<1>1. AmountIInv => Amounts!AmountsToldRight
  BY AmountsHonest, PhrasesToldApart DEF AmountIInv, Amounts!AmountsToldRight
<1>2. QED
  BY <1>1, AmountInductive, PTL

(***************************************************************************)
(* The pages and the frame together.                                       *)
(***************************************************************************)
\* Whichever of the three pages runs, with any number of keys, backups, requests, losses and letters:
\* once every request, event and timer has settled, the page shows what is in force
\* (api-keys.ts, backups-page.tsx, requests-toolbar.tsx).
THEOREM PagesAlwaysSettle == Spec => []PagesSettle
<1>1. Spec => [](which = "keys" => Keys!KeysPageIsServer)
  BY KeysPageSettles, KeysRun, PTL
<1>2. Spec => [](which = "backups" => Backups!BackupRowsAreServer)
  BY BackupListSettles, BackupsRun, PTL
<1>3. Spec => [](which = "requests" => Requests!FieldShowsSearch)
  BY SearchFieldSettles, RequestsRun, PTL
<1>4. QED
  BY <1>1, <1>2, <1>3, PTL DEF PagesSettle

\* For any toasts, checks and theme changes, and every amount and every message the server can build:
\* the frame and the amounts tell nothing untrue (toast.ts, theme-provider.tsx, format.ts, server-errors.ts).
THEOREM FrameAlwaysTellsRight == AmountBounds /\ Spec => []FrameTellsRight
<1>1. Spec => [](which = "shell" => Frame!ShellTellsRight)
  BY ShellAlwaysTellsRight, FrameRuns, PTL
<1>2. AmountBounds /\ Spec => [](which = "amounts" => Amounts!AmountsToldRight)
  BY AmountsAlwaysToldRight, AmountsRun, PTL
<1>3. QED
  BY <1>1, <1>2, PTL DEF FrameTellsRight
=============================================================================
