--------------------------- MODULE Renditions_proofs ---------------------------
(***************************************************************************)
(* Theorems about Renditions, for any number of views, sessions, templates *)
(* and administrators, and for behaviours of any length.                   *)
(***************************************************************************)
EXTENDS Renditions, TLAPS

Marks    == Templates \cup {GuestMark}
Products == [viewer : Sessions \cup {Null}, marks : SUBSET Marks]
Looking  == {"look", "miss", "join", "make", "rename", "clean"}
PCs      == Looking \cup {"idle", "context", "based", "templates", "resolved", "compose", "serve",
                          "served", "failed"}
Rows     == [pc : PCs, session : Sessions \cup {Null}, out : Outs, owner : Views \cup {Null},
             context : Places \cup {Null}, from : Outs \cup {Null}, marks : SUBSET Marks,
             made : Products \cup {Null}, got : Products \cup {Null}]
TemplateRows == [enabled : BOOLEAN, deleted : BOOLEAN, scope : SUBSET Places]

\* The state keeps its types.
TypeOK ==
    /\ kind \in {"image", "video", "audio"}
    /\ asks \in [Sessions -> {"scope", "link", "text", "none"}]
    /\ place \in Places
    /\ template \in [Templates -> TemplateRows]
    /\ admin \in [Admins -> {NoCall} \cup [pc : {"write"}, t : Templates, set : Writes]]
    /\ opened \in SUBSET Sessions
    /\ cache \in [Outs -> Products \cup {Null}]
    /\ inflight \in [Outs -> Views \cup {Null}]
    /\ view \in [Views -> Rows]
    /\ lasting \in [Sessions -> SUBSET Templates] /\ gone \in [Sessions -> SUBSET Templates]

\* What a call is about at each statement: its session, and the file it goes on with.
CallSound(c) ==
    /\ c.pc # "idle" => c.session \in opened
    /\ c.out \in {"base", c.session} /\ c.from \in {Null, "base", c.session}
    /\ c.pc \in {"based", "resolved", "serve"} => c.from # Null
    /\ c.from # Null => cache[c.from] # Null
    /\ c.made # Null => c.pc \in {"rename", "clean"}
    /\ c.pc = "rename" => c.made # Null
    /\ c.pc = "clean" /\ c.made # Null => cache[c.out] # Null

CallsSound == \A v \in Views : CallSound(view[v])

\* The map names exactly the calls that produce, and those who wait for one are told by it.
NamesHeld ==
    /\ \A v \in Views : Producing(v) => inflight[view[v].out] = v
    /\ \A o \in Outs : inflight[o] # Null => Producing(inflight[o]) /\ view[inflight[o]].out = o
    /\ \A v \in Views : view[v].pc = "join" => view[v].owner # Null /\ inflight[view[v].out] = view[v].owner

ProductionInv == TypeOK /\ CallsSound /\ NamesHeld

-----------------------------------------------------------------------------
(* Type correctness                                                        *)

LEMMA ProductTyped ==
    ASSUME NEW s \in Sessions \cup {Null}, NEW w \in SUBSET Marks
    PROVE  Marked(s, w) \in Products /\ Marked(s, w) # Null
BY RenditionAssumption DEF Marked, Products, Marks

LEMMA NoViewTyped == NoView \in Rows
BY DEF NoView, Rows, PCs, Outs, Marks

LEMMA FreshRow ==
    ASSUME NEW s \in Sessions, NEW pc \in PCs, NEW marks \in SUBSET Marks,
           NEW row, row = [NoView EXCEPT !.session = s, !.pc = pc, !.marks = marks]
    PROVE  /\ row \in Rows
           /\ row = [pc |-> pc, session |-> s, out |-> "base", owner |-> Null, context |-> Null,
                     from |-> Null, marks |-> marks, made |-> Null, got |-> Null]
BY DEF NoView, Rows, Outs

LEMMA EndedRow ==
    ASSUME NEW s \in Sessions, NEW pc \in PCs, NEW got \in Products \cup {Null},
           NEW row, row = [NoView EXCEPT !.pc = pc, !.session = s, !.got = got]
    PROVE  /\ row \in Rows
           /\ row = [pc |-> pc, session |-> s, out |-> "base", owner |-> Null, context |-> Null,
                     from |-> Null, marks |-> {}, made |-> Null, got |-> got]
BY DEF NoView, Rows, Outs

LEMMA FailedRow ==
    ASSUME NEW s \in Sessions, NEW row, row = [NoView EXCEPT !.pc = "failed", !.session = s]
    PROVE  /\ row \in Rows
           /\ row = [pc |-> "failed", session |-> s, out |-> "base", owner |-> Null, context |-> Null,
                     from |-> Null, marks |-> {}, made |-> Null, got |-> Null]
BY DEF NoView, Rows, PCs, Outs

LEMMA InitTyped == Init => TypeOK
<1> SUFFICES ASSUME Init PROVE TypeOK
  OBVIOUS
<1>1. /\ kind \in {"image", "video", "audio"}
      /\ asks \in [Sessions -> {"scope", "link", "text", "none"}]
  BY RenditionAssumption DEF Init
<1>2. /\ NoTemplate \in TemplateRows
      /\ [enabled : {TRUE}, deleted : {FALSE}, scope : Scopes] \subseteq TemplateRows
  BY DEF NoTemplate, TemplateRows, Scopes, Places
<1>3. template \in [Templates -> TemplateRows]  BY <1>2 DEF Init
<1> QED BY <1>1, <1>3, NoViewTyped DEF Init, TypeOK, Places

\* A template row with columns of a request written over it is a template row, and what was
\* deleted stays deleted.
LEMMA WritesTyped ==
    ASSUME NEW row \in TemplateRows, NEW w \in Writes,
           NEW new, new = [f \in DOMAIN row |-> IF f \in DOMAIN w THEN w[f] ELSE row[f]]
    PROVE  new \in TemplateRows /\ (row.deleted => new.deleted)
<1>1. DOMAIN row = {"enabled", "deleted", "scope"}  BY DEF TemplateRows
<1>2. row = [enabled |-> row.enabled, deleted |-> row.deleted, scope |-> row.scope]
  BY DEF TemplateRows
<1>3. CASE w \in [enabled : BOOLEAN]
  <2>1. DOMAIN w = {"enabled"} /\ w["enabled"] \in BOOLEAN  BY <1>3
  <2>2. new = [enabled |-> w["enabled"], deleted |-> row.deleted, scope |-> row.scope]
    BY <1>1, <2>1
  <2> QED BY <2>1, <2>2 DEF TemplateRows
<1>4. CASE w \in [scope : Scopes]
  <2>1. DOMAIN w = {"scope"} /\ w["scope"] \in SUBSET Places  BY <1>4 DEF Scopes, Places
  <2>2. new = [enabled |-> row.enabled, deleted |-> row.deleted, scope |-> w["scope"]]
    BY <1>1, <2>1
  <2> QED BY <2>1, <2>2 DEF TemplateRows
<1>5. CASE w \in [enabled : BOOLEAN, scope : Scopes]
  <2>1. /\ DOMAIN w = {"enabled", "scope"}
        /\ w["enabled"] \in BOOLEAN /\ w["scope"] \in SUBSET Places
    BY <1>5 DEF Scopes, Places
  <2>2. new = [enabled |-> w["enabled"], deleted |-> row.deleted, scope |-> w["scope"]]
    BY <1>1, <2>1
  <2> QED BY <2>1, <2>2 DEF TemplateRows
<1>6. CASE w = [enabled |-> FALSE, deleted |-> TRUE]
  <2>1. DOMAIN w = {"enabled", "deleted"} /\ ~w["enabled"] /\ w["deleted"]  BY <1>6
  <2>2. new = [enabled |-> w["enabled"], deleted |-> TRUE, scope |-> row.scope]
    BY <1>1, <1>6, <2>1
  <2> QED BY <1>6, <2>1, <2>2 DEF TemplateRows
<1> QED BY <1>3, <1>4, <1>5, <1>6 DEF Writes

\* A step of one call that gives it a well-typed row.
LEMMA CallTyped ==
    ASSUME TypeOK, NEW v \in Views, NEW row \in Rows, view' = [view EXCEPT ![v] = row],
           UNCHANGED <<settings, ruleVars, history>>,
           cache' \in [Outs -> Products \cup {Null}], inflight' \in [Outs -> Views \cup {Null}]
    PROVE  TypeOK'
<1>1. view' \in [Views -> Rows]  BY DEF TypeOK
<1> QED BY <1>1 DEF TypeOK, settings, ruleVars, history

\* Templates are written and the file moved without a look at the calls.
LEMMA RulesTyped ==
    ASSUME TypeOK,
           \/ AdminCreatesTemplate \/ FileMoves
           \/ \E c \in Admins : AdminFindsTemplate(c) \/ AdminWritesTemplate(c)
    PROVE  TypeOK'
<1>1. CASE AdminCreatesTemplate
  <2>1. PICK t \in Templates, e \in BOOLEAN, w \in Scopes :
           template' = [template EXCEPT ![t] = [enabled |-> e, deleted |-> FALSE, scope |-> w]]
    BY <1>1 DEF AdminCreatesTemplate
  <2>2. [enabled |-> e, deleted |-> FALSE, scope |-> w] \in TemplateRows
    BY DEF TemplateRows, Scopes, Places
  <2>3. template' \in [Templates -> TemplateRows]  BY <2>1, <2>2 DEF TypeOK
  <2> QED BY <1>1, <2>3 DEF AdminCreatesTemplate, TypeOK, settings, history, diskVars
<1>2. CASE FileMoves
  BY <1>2 DEF FileMoves, TypeOK, settings, diskVars
<1>3. ASSUME NEW c \in Admins, AdminFindsTemplate(c)  PROVE TypeOK'
  <2>1. PICK t \in Templates, w \in Writes :
           admin' = [admin EXCEPT ![c] = [pc |-> "write", t |-> t, set |-> w]]
    BY <1>3 DEF AdminFindsTemplate
  <2>2. [pc |-> "write", t |-> t, set |-> w] \in [pc : {"write"}, t : Templates, set : Writes]
    OBVIOUS
  <2>3. admin' \in [Admins -> {NoCall} \cup [pc : {"write"}, t : Templates, set : Writes]]
    BY <2>1, <2>2 DEF TypeOK
  <2> QED BY <1>3, <2>3 DEF AdminFindsTemplate, TypeOK, settings, history, diskVars
<1>4. ASSUME NEW c \in Admins, AdminWritesTemplate(c)  PROVE TypeOK'
  <2> DEFINE t == admin[c].t
             w == admin[c].set
             new == [f \in DOMAIN template[t] |-> IF f \in DOMAIN w THEN w[f] ELSE template[t][f]]
  <2>1. t \in Templates /\ w \in Writes
    BY <1>4 DEF AdminWritesTemplate, TypeOK, NoCall
  <2>2. template[t] \in TemplateRows  BY <2>1 DEF TypeOK
  <2>3. new \in TemplateRows
    <3> HIDE DEF t, w
    <3> QED BY <2>1, <2>2, WritesTyped
  <2>4. template' = [template EXCEPT ![t] = new]  BY <1>4 DEF AdminWritesTemplate
  <2>5. template' \in [Templates -> TemplateRows]
    <3> HIDE DEF new, t
    <3> QED BY <2>1, <2>3, <2>4 DEF TypeOK
  <2>6. admin' \in [Admins -> {NoCall} \cup [pc : {"write"}, t : Templates, set : Writes]]
    BY <1>4 DEF AdminWritesTemplate, TypeOK
  <2>7. lasting' \in [Sessions -> SUBSET Templates]
    BY <1>4 DEF AdminWritesTemplate, TypeOK
  <2> QED BY <1>4, <2>5, <2>6, <2>7 DEF AdminWritesTemplate, TypeOK, settings, diskVars
<1> QED BY <1>1, <1>2, <1>3, <1>4

-----------------------------------------------------------------------------
(* One production per rendition                                            *)

AtWork == {"make", "rename", "clean"}

\* A step of one call that neither begins nor ends a production.
LEMMA CallKeeps ==
    ASSUME ProductionInv, NEW v \in Views, NEW row \in Rows, view' = [view EXCEPT ![v] = row],
           UNCHANGED <<settings, ruleVars, history, diskVars>>,
           CallSound(row),
           view[v].pc \in AtWork => row.pc \in AtWork /\ row.out = view[v].out,
           row.pc \in AtWork => view[v].pc \in AtWork,
           row.pc # "join"
    PROVE  ProductionInv'
<1>1. TypeOK'
  BY CallTyped DEF ProductionInv, TypeOK, diskVars
<1>2. \A x \in Views : view'[x] = IF x = v THEN row ELSE view[x]
  BY DEF ProductionInv, TypeOK
<1>3. CallsSound'
  <2> SUFFICES ASSUME NEW x \in Views PROVE CallSound(view[x])'
    BY DEF CallsSound
  <2>1. CallSound(view'[x])
    BY <1>2 DEF ProductionInv, CallsSound
  <2> QED BY <2>1 DEF CallSound, history, diskVars
<1>4. NamesHeld'
  BY <1>2 DEF ProductionInv, TypeOK, NamesHeld, Producing, AtWork, diskVars
<1> QED BY <1>1, <1>3, <1>4 DEF ProductionInv

\* The statements of a view between its productions.
LEMMA StatementsKeep ==
    ASSUME ProductionInv, NEW v \in Views,
           \/ CachedLooks(v) \/ Produce(v) \/ ViewBegins(v) \/ ReadsContext(v) \/ ReadsTemplates(v)
           \/ NeedsNoTemplates(v) \/ Chooses(v) \/ Composes(v) \/ Streams(v) \/ Forgets(v)
    PROVE  ProductionInv'
<1>0. view[v] \in Rows /\ CallSound(view[v]) /\ opened \in SUBSET Sessions
  BY DEF ProductionInv, TypeOK, CallsSound
<1>1. CASE CachedLooks(v)
  <2> DEFINE out == view[v].out
             row == IF cache[out] = Null THEN [view[v] EXCEPT !.pc = "miss"]
                    ELSE [view[v] EXCEPT !.pc = IF out = "base" THEN "based" ELSE "serve", !.from = out]
  <2>1. view' = [view EXCEPT ![v] = row]  BY <1>1 DEF CachedLooks
  <2>2. row \in Rows
    <3>1. [view[v] EXCEPT !.pc = "miss"] \in Rows  BY <1>0 DEF Rows, PCs, Looking
    <3>2. \A pc \in {"based", "serve"} : [view[v] EXCEPT !.pc = pc, !.from = out] \in Rows
      BY <1>0 DEF Rows, PCs
    <3> QED BY <3>1, <3>2
  <2>3. CallSound(row)
    <3>0. view[v].pc = "look"  BY <1>1 DEF CachedLooks
    <3>1. CallSound([view[v] EXCEPT !.pc = "miss"])  BY <1>0, <3>0 DEF CallSound, Rows
    <3>2. ASSUME cache[out] # Null, NEW pc \in {"based", "serve"}
          PROVE  CallSound([view[v] EXCEPT !.pc = pc, !.from = out])
      <4>1. out # Null  BY <1>0, RenditionAssumption DEF Rows, Outs
      <4>2. out \in {"base", view[v].session} /\ view[v].made = Null /\ view[v].session \in opened
        BY <1>0, <3>0 DEF CallSound
      <4> DEFINE row2 == [view[v] EXCEPT !.pc = pc, !.from = out]
      <4>3. row2.pc = pc /\ row2.from = out /\ row2.out = out /\ row2.made = view[v].made
            /\ row2.session = view[v].session
        BY <1>0 DEF Rows
      <4> HIDE DEF row2, out
      <4>4. CallSound(row2)  BY <3>2, <4>1, <4>2, <4>3 DEF CallSound
      <4> QED BY <4>4 DEF row2
    <3> QED BY <3>1, <3>2
  <2>4. row.pc \notin AtWork \cup {"join"} /\ view[v].pc \notin AtWork
    BY <1>0, <1>1 DEF CachedLooks, Rows, AtWork
  <2> HIDE DEF row
  <2> QED BY <1>1, <2>1, <2>2, <2>3, <2>4, CallKeeps DEF CachedLooks
<1>2. CASE Produce(v)
  <2>1. Product(v) \in Products /\ Product(v) # Null
    BY <1>0, ProductTyped DEF Product, Base, Marked, Rows, Products
  <2>2. PICK row \in {[view[v] EXCEPT !.pc = "rename", !.made = Product(v)], [view[v] EXCEPT !.pc = "clean"]} :
           view' = [view EXCEPT ![v] = row]
    BY <1>0, <1>2 DEF Produce, Goes, Rows
  <2>3. row \in Rows  BY <1>0, <2>1 DEF Rows, PCs, Looking
  <2>4. CallSound(row)
    <3>1. view[v].pc = "make"  BY <1>2 DEF Produce
    <3>2. CASE row = [view[v] EXCEPT !.pc = "rename", !.made = Product(v)]
      BY <1>0, <2>1, <3>1, <3>2 DEF CallSound, Rows
    <3>3. CASE row = [view[v] EXCEPT !.pc = "clean"]
      BY <1>0, <3>1, <3>3 DEF CallSound, Rows
    <3> QED BY <3>2, <3>3
  <2>5. /\ row.pc \in AtWork /\ row.pc # "join" /\ row.out = view[v].out
        /\ view[v].pc \in AtWork
    BY <1>0, <1>2 DEF Produce, Rows, AtWork
  <2> QED BY <1>2, <2>2, <2>3, <2>4, <2>5, CallKeeps DEF Produce
<1>3. CASE ViewBegins(v)
  <2>1. PICK s \in opened :
           view' = [view EXCEPT ![v] = [NoView EXCEPT !.session = s,
                       !.pc = IF asks[s] = "link" THEN "context" ELSE "look",
                       !.marks = IF asks[s] = "text" THEN {GuestMark} ELSE {}]]
    BY <1>3 DEF ViewBegins
  <2> DEFINE pc == IF asks[s] = "link" THEN "context" ELSE "look"
             marks == IF asks[s] = "text" THEN {GuestMark} ELSE {}
             row == [NoView EXCEPT !.session = s, !.pc = pc, !.marks = marks]
  <2>2. pc \in {"context", "look"} /\ pc \in PCs /\ marks \in SUBSET Marks
    BY DEF PCs, Looking, Marks
  <2>3. view' = [view EXCEPT ![v] = row]  BY <2>1
  <2> HIDE DEF pc, marks
  <2>a. s \in Sessions  BY <1>0
  <2>b. row = [NoView EXCEPT !.session = s, !.pc = pc, !.marks = marks]  OBVIOUS
  <2> HIDE DEF row
  <2>c. /\ row \in Rows
        /\ row = [pc |-> pc, session |-> s, out |-> "base", owner |-> Null, context |-> Null,
                  from |-> Null, marks |-> marks, made |-> Null, got |-> Null]
    BY <2>2, <2>a, <2>b, FreshRow
  <2>4. /\ row \in Rows /\ row.pc = pc /\ row.session = s /\ row.out = "base"
        /\ row.from = Null /\ row.made = Null
    BY <2>c
  <2>5. CallSound(row)  BY <2>2, <2>4 DEF CallSound
  <2>6. row.pc \notin AtWork \cup {"join"} /\ view[v].pc \notin AtWork
    BY <1>3, <2>2, <2>4 DEF ViewBegins, AtWork
  <2> QED BY <1>3, <2>3, <2>4, <2>5, <2>6, CallKeeps DEF ViewBegins
<1>4. CASE ReadsContext(v)
  <2> DEFINE row == [view[v] EXCEPT !.pc = "templates", !.context = place]
  <2>1. view' = [view EXCEPT ![v] = row]  BY <1>4, <1>0 DEF ReadsContext, Rows
  <2>2. row \in Rows  BY <1>0 DEF Rows, PCs, ProductionInv, TypeOK
  <2>3. CallSound(row)  BY <1>0, <1>4 DEF ReadsContext, CallSound, Rows
  <2>4. row.pc \notin AtWork \cup {"join"} /\ view[v].pc \notin AtWork
    BY <1>0, <1>4 DEF ReadsContext, Rows, AtWork
  <2> HIDE DEF row
  <2> QED BY <1>4, <2>1, <2>2, <2>3, <2>4, CallKeeps DEF ReadsContext
<1>5. CASE ReadsTemplates(v)
  <2> DEFINE found == ApplicableFor(view[v].context)
             to == IF view[v].from = Null THEN "look" ELSE "resolved"
             marks == IF asks[view[v].session] = "link" /\ found = {} THEN {GuestMark} ELSE found
             row == [view[v] EXCEPT !.context = Null, !.pc = to, !.marks = marks]
  <2>1. view' = [view EXCEPT ![v] = row]  BY <1>0, <1>5 DEF ReadsTemplates, Rows
  <2>2. /\ to \in {"look", "resolved"} /\ (to = "look" <=> view[v].from = Null)
        /\ marks \in SUBSET Marks
    BY DEF ApplicableFor, Marks
  <2> HIDE DEF to, marks
  <2>3. row \in Rows  BY <1>0, <2>2 DEF Rows, PCs, Looking
  <2>5. CallSound(row)  BY <1>0, <1>5, <2>2 DEF ReadsTemplates, CallSound, Rows
  <2>6. row.pc \notin AtWork \cup {"join"} /\ view[v].pc \notin AtWork
    BY <1>0, <1>5, <2>2 DEF ReadsTemplates, Rows, AtWork
  <2> HIDE DEF row
  <2> QED BY <1>5, <2>1, <2>3, <2>5, <2>6, CallKeeps DEF ReadsTemplates
<1>6. CASE NeedsNoTemplates(v)
  <2> DEFINE to == IF kind = "audio" THEN "serve" ELSE "resolved"
             row == [view[v] EXCEPT !.pc = to]
  <2>1. view' = [view EXCEPT ![v] = row]  BY <1>0, <1>6 DEF NeedsNoTemplates, Goes, Rows
  <2>2. to \in {"serve", "resolved"}  OBVIOUS
  <2> HIDE DEF to
  <2>3. row \in Rows  BY <1>0, <2>2 DEF Rows, PCs
  <2>4. CallSound(row)  BY <1>0, <1>6, <2>2 DEF NeedsNoTemplates, CallSound, Rows
  <2>5. row.pc \notin AtWork \cup {"join"} /\ view[v].pc \notin AtWork
    BY <1>0, <1>6, <2>2 DEF NeedsNoTemplates, Rows, AtWork
  <2> HIDE DEF row
  <2> QED BY <1>6, <2>1, <2>3, <2>4, <2>5, CallKeeps DEF NeedsNoTemplates
<1>7. CASE Chooses(v)
  <2>0. view[v].session \in Sessions  BY <1>0, <1>7 DEF Chooses, CallSound
  <2>1. PICK row \in {[view[v] EXCEPT !.pc = "serve"], [view[v] EXCEPT !.pc = "compose"],
                      [view[v] EXCEPT !.pc = "look", !.out = view[v].session]} :
           view' = [view EXCEPT ![v] = row]
    <3>1. CASE view[v].marks = {}  BY <1>7, <3>1 DEF Chooses
    <3>2. CASE view[v].marks # {} /\ kind = "image"  BY <1>7, <3>2 DEF Chooses
    <3>3. CASE view[v].marks # {} /\ kind # "image"  BY <1>7, <3>3 DEF Chooses
    <3> QED BY <3>1, <3>2, <3>3
  <2>2. row \in Rows
    <3>1. \A pc \in {"serve", "compose"} : [view[v] EXCEPT !.pc = pc] \in Rows
      BY <1>0 DEF Rows, PCs
    <3>2. view[v].session \in Outs  BY <2>0 DEF Outs
    <3>3. [view[v] EXCEPT !.pc = "look", !.out = view[v].session] \in Rows
      BY <1>0, <3>2 DEF Rows, PCs, Looking
    <3> QED BY <3>1, <3>3
  <2>3. CallSound(row)  BY <1>0, <1>7 DEF Chooses, CallSound, Rows
  <2>4. row.pc \notin AtWork \cup {"join"} /\ view[v].pc \notin AtWork
    BY <1>0, <1>7 DEF Chooses, Rows, AtWork
  <2> QED BY <1>7, <2>1, <2>2, <2>3, <2>4, CallKeeps DEF Chooses
<1>8. ASSUME NEW pc \in {"served", "failed"}, NEW got \in Products \cup {Null},
             view[v].pc \in {"compose", "serve"},
             view' = [view EXCEPT ![v] = [NoView EXCEPT !.pc = pc, !.session = view[v].session, !.got = got]],
             UNCHANGED <<settings, ruleVars, history, diskVars>>
      PROVE  ProductionInv'
  <2> DEFINE row == [NoView EXCEPT !.pc = pc, !.session = view[v].session, !.got = got]
  <2>1. view[v].session \in Sessions  BY <1>0, <1>8 DEF CallSound
  <2>a. row = [NoView EXCEPT !.pc = pc, !.session = view[v].session, !.got = got]  OBVIOUS
  <2>b. pc \in PCs  BY <1>8 DEF PCs
  <2>6. view' = [view EXCEPT ![v] = row]  BY <1>8
  <2> HIDE DEF row
  <2>2. /\ row \in Rows
        /\ row = [pc |-> pc, session |-> view[v].session, out |-> "base", owner |-> Null,
                  context |-> Null, from |-> Null, marks |-> {}, made |-> Null, got |-> got]
    BY <1>8, <2>1, <2>a, <2>b, EndedRow
  <2>4. CallSound(row)  BY <1>0, <1>8, <2>2 DEF CallSound
  <2>5. row.pc \notin AtWork \cup {"join"} /\ view[v].pc \notin AtWork
    BY <1>8, <2>2 DEF AtWork
  <2> QED BY <1>8, <2>2, <2>4, <2>5, <2>6, CallKeeps
<1>9. CASE Composes(v)
  <2>1. Marked(view[v].session, view[v].marks) \in Products
    BY <1>0, ProductTyped DEF Rows
  <2>2. view[v].session \in Sessions  BY <1>0, <1>9 DEF Composes, CallSound
  <2> DEFINE failed == [NoView EXCEPT !.pc = "failed", !.session = view[v].session]
             ended == [NoView EXCEPT !.pc = "failed", !.session = view[v].session, !.got = Null]
             flat == [pc |-> "failed", session |-> view[v].session, out |-> "base", owner |-> Null,
                      context |-> Null, from |-> Null, marks |-> {}, made |-> Null, got |-> Null]
  <2>3. failed = flat
    <3>1. failed = [NoView EXCEPT !.pc = "failed", !.session = view[v].session]  OBVIOUS
    <3> HIDE DEF failed
    <3> QED BY <2>2, <3>1, FailedRow
  <2>4. ended = flat
    <3>1. ended = [NoView EXCEPT !.pc = "failed", !.session = view[v].session, !.got = Null]
      OBVIOUS
    <3>2. "failed" \in PCs  BY DEF PCs
    <3> HIDE DEF ended
    <3> QED BY <2>2, <3>1, <3>2, EndedRow
  <2>5. failed = ended  BY <2>3, <2>4
  <2> HIDE DEF flat
  <2> QED BY <1>8, <1>9, <2>1, <2>5 DEF Composes
<1>10. CASE Streams(v)
  <2>1. view[v].from \in Outs  BY <1>0, <1>10 DEF Streams, CallSound, Rows
  <2>2. cache[view[v].from] \in Products \cup {Null}  BY <2>1 DEF ProductionInv, TypeOK
  <2> QED BY <1>8, <1>10, <2>2 DEF Streams
<1>11. CASE Forgets(v)
  <2>1. view' = [view EXCEPT ![v] = NoView]  BY <1>11 DEF Forgets
  <2>2. CallSound(NoView)  BY DEF CallSound, NoView
  <2>3. NoView.pc \notin AtWork \cup {"join"} /\ view[v].pc \notin AtWork
    BY <1>11 DEF Forgets, NoView, AtWork
  <2> QED BY <1>11, <2>1, <2>2, <2>3, NoViewTyped, CallKeeps DEF Forgets
<1> QED BY <1>1, <1>2, <1>3, <1>4, <1>5, <1>6, <1>7, <1>9, <1>10, <1>11

\* Nobody but the calls touches the names.
LEMMA OthersKeep ==
    ASSUME ProductionInv,
           \/ AdminCreatesTemplate \/ FileMoves
           \/ \E c \in Admins : AdminFindsTemplate(c) \/ AdminWritesTemplate(c)
           \/ \E s \in Sessions : SessionOpens(s)
           \/ UNCHANGED vars
    PROVE  ProductionInv'
<1>1. TypeOK'
  <2>1. ASSUME NEW s \in Sessions, SessionOpens(s)  PROVE TypeOK'
    <3>1. ApplicableFor(place) \subseteq Templates /\ {t \in Templates : template[t].deleted} \subseteq Templates
      BY DEF ApplicableFor
    <3> QED BY <2>1, <3>1 DEF SessionOpens, ProductionInv, TypeOK, settings, ruleVars, diskVars
  <2>2. ASSUME UNCHANGED vars  PROVE TypeOK'
    BY <2>2 DEF ProductionInv, TypeOK, vars, settings, ruleVars, history, diskVars
  <2> QED BY <2>1, <2>2, RulesTyped DEF ProductionInv
<1>2. UNCHANGED <<view, cache, inflight>> /\ opened \subseteq opened'
  BY DEF AdminCreatesTemplate, FileMoves, AdminFindsTemplate, AdminWritesTemplate, SessionOpens,
         vars, history, diskVars
<1>3. CallsSound'
  BY <1>2 DEF ProductionInv, CallsSound, CallSound
<1>4. NamesHeld'
  BY <1>2 DEF ProductionInv, NamesHeld, Producing
<1> QED BY <1>1, <1>3, <1>4 DEF ProductionInv

\* The map is asked and written in one step, so of two calls that miss one name a single one
\* produces it.
LEMMA JoinKeeps ==
    ASSUME ProductionInv, NEW v \in Views, CachedJoinsOrStarts(v)
    PROVE  ProductionInv'
<1> DEFINE out == view[v].out
<1>0. /\ view[v] \in Rows /\ CallSound(view[v]) /\ view[v].pc = "miss" /\ out \in Outs
      /\ inflight[out] \in Views \cup {Null}
  BY DEF ProductionInv, TypeOK, CallsSound, CachedJoinsOrStarts, Rows
<1>1. CASE inflight[out] # Null
  <2> DEFINE row == [view[v] EXCEPT !.pc = "join", !.owner = inflight[out]]
  <2>1. view' = [view EXCEPT ![v] = row] /\ inflight' = inflight /\ cache' = cache
        /\ UNCHANGED <<settings, ruleVars, history>>
    BY <1>0, <1>1 DEF CachedJoinsOrStarts, Rows
  <2>2. /\ row \in Rows /\ row.pc = "join" /\ row.owner = inflight[out] /\ row.out = out
    BY <1>0 DEF Rows, PCs, Looking
  <2>3. CallSound(row)  BY <1>0 DEF CallSound, Rows
  <2> HIDE DEF row
  <2>4. TypeOK'  BY <2>1, <2>2, CallTyped DEF ProductionInv, TypeOK
  <2>5. \A x \in Views : view'[x] = IF x = v THEN row ELSE view[x]
    BY <2>1 DEF ProductionInv, TypeOK
  <2>6. CallsSound'
    BY <2>1, <2>3, <2>5 DEF ProductionInv, CallsSound, CallSound, history
  <2>7. NamesHeld'
    BY <1>0, <1>1, <2>1, <2>2, <2>5 DEF ProductionInv, TypeOK, NamesHeld, Producing
  <2> QED BY <2>4, <2>6, <2>7 DEF ProductionInv
<1>2. CASE inflight[out] = Null
  <2> DEFINE row == [view[v] EXCEPT !.pc = "make"]
  <2>1. view' = [view EXCEPT ![v] = row] /\ inflight' = [inflight EXCEPT ![out] = v]
        /\ cache' = cache /\ UNCHANGED <<settings, ruleVars, history>>
    BY <1>0, <1>2 DEF CachedJoinsOrStarts, Goes, Rows
  <2>2. row \in Rows /\ row.pc = "make" /\ row.out = out
    BY <1>0 DEF Rows, PCs, Looking
  <2>3. CallSound(row)  BY <1>0 DEF CallSound, Rows
  <2> HIDE DEF row
  <2>4. TypeOK'  BY <1>0, <2>1, <2>2, CallTyped DEF ProductionInv, TypeOK
  <2>5. \A x \in Views : view'[x] = IF x = v THEN row ELSE view[x]
    BY <2>1 DEF ProductionInv, TypeOK
  <2>6. \A o \in Outs : inflight'[o] = IF o = out THEN v ELSE inflight[o]
    BY <2>1 DEF ProductionInv, TypeOK
  <2>7. CallsSound'
    BY <2>1, <2>3, <2>5 DEF ProductionInv, CallsSound, CallSound, history
  <2>8. v # Null /\ \A x \in Views : view[x].out \in Outs /\ x # Null
    BY RenditionAssumption DEF ProductionInv, TypeOK, Rows
  <2> HIDE DEF out
  <2>9. NamesHeld'
    <3>1. \A x \in Views : Producing(x)' => inflight'[view'[x].out] = x
      BY <1>0, <1>2, <2>2, <2>5, <2>6, <2>8 DEF ProductionInv, NamesHeld, Producing
    <3>2. ASSUME NEW o \in Outs, inflight'[o] # Null
          PROVE  view'[inflight'[o]].pc \in AtWork /\ view'[inflight'[o]].out = o
      <4>1. CASE o = out  BY <4>1, <2>2, <2>5, <2>6 DEF AtWork
      <4>2. CASE o # out
        <5>1. inflight'[o] = inflight[o] /\ inflight[o] \in Views
          BY <3>2, <4>2, <2>6 DEF ProductionInv, TypeOK
        <5>2. Producing(inflight[o]) /\ view[inflight[o]].out = o
          BY <5>1, <2>8 DEF ProductionInv, NamesHeld
        <5>3. inflight[o] # v  BY <5>2, <1>0 DEF Producing
        <5> QED BY <5>1, <5>2, <5>3, <2>5 DEF Producing, AtWork
      <4> QED BY <4>1, <4>2
    <3>3. \A x \in Views : view'[x].pc = "join" => view'[x].owner # Null /\ inflight'[view'[x].out] = view'[x].owner
      BY <1>2, <2>2, <2>5, <2>6, <2>8 DEF ProductionInv, NamesHeld
    <3> QED BY <3>1, <3>2, <3>3 DEF NamesHeld, Producing, AtWork
  <2> QED BY <2>4, <2>7, <2>9 DEF ProductionInv
<1> QED BY <1>1, <1>2

LEMMA RenameKeeps ==
    ASSUME ProductionInv, NEW v \in Views, Rename(v)
    PROVE  ProductionInv'
<1> DEFINE out == view[v].out
<1>0. /\ view[v] \in Rows /\ CallSound(view[v]) /\ view[v].pc = "rename" /\ out \in Outs
      /\ view[v].made \in Products /\ view[v].made # Null
  <2>1. view[v] \in Rows /\ CallSound(view[v]) /\ view[v].pc = "rename"
    BY DEF ProductionInv, TypeOK, CallsSound, Rename
  <2> QED BY <2>1 DEF CallSound, Rows
<1>1. PICK row \in {[view[v] EXCEPT !.pc = "clean"], [view[v] EXCEPT !.pc = "clean", !.made = Null]} :
         /\ view' = [view EXCEPT ![v] = row]
         /\ \/ cache' = cache /\ row.made = Null
            \/ cache' = [cache EXCEPT ![out] = view[v].made]
  <2>1. CASE view' = [view EXCEPT ![v].pc = "clean", ![v].made = Null] /\ cache' = cache
    BY <1>0, <2>1 DEF Rows
  <2>2. CASE Goes(v, "clean") /\ cache' = [cache EXCEPT ![out] = view[v].made]
    BY <1>0, <2>2 DEF Goes, Rows
  <2> QED BY <2>1, <2>2 DEF Rename
<1>2. /\ row \in Rows /\ row.pc = "clean" /\ row.out = out /\ row.session = view[v].session
      /\ row.from = view[v].from
  BY <1>0 DEF Rows, PCs, Looking
<1>3. UNCHANGED <<settings, ruleVars, history, inflight>>  BY DEF Rename
<1>4. TypeOK'
  <2>1. cache' \in [Outs -> Products \cup {Null}]  BY <1>0, <1>1 DEF ProductionInv, TypeOK
  <2>2. inflight' \in [Outs -> Views \cup {Null}]  BY <1>3 DEF ProductionInv, TypeOK
  <2> QED BY <1>1, <1>2, <1>3, <2>1, <2>2, CallTyped DEF ProductionInv
<1>5. \A x \in Views : view'[x] = IF x = v THEN row ELSE view[x]
  BY <1>1 DEF ProductionInv, TypeOK
<1>6. \A o \in Outs : cache[o] # Null => cache'[o] # Null
  BY <1>0, <1>1 DEF ProductionInv, TypeOK
<1>7. row.made # Null => cache'[out] # Null
  BY <1>0, <1>1 DEF ProductionInv, TypeOK
<1>8. CallsSound'
  <2> SUFFICES ASSUME NEW x \in Views  PROVE CallSound(view[x])'
    BY DEF CallsSound
  <2>1. view[x] \in Rows /\ CallSound(view[x])  BY DEF ProductionInv, TypeOK, CallsSound
  <2>2. CASE x = v
    BY <1>0, <1>2, <1>3, <1>5, <1>6, <1>7, <2>2 DEF CallSound, history, Rows
  <2>3. CASE x # v
    BY <1>3, <1>5, <1>6, <2>1, <2>3 DEF CallSound, history, Rows
  <2> QED BY <2>2, <2>3
<1>9. NamesHeld'
  BY <1>0, <1>2, <1>3, <1>5 DEF ProductionInv, TypeOK, NamesHeld, Producing
<1> QED BY <1>4, <1>8, <1>9 DEF ProductionInv

\* A production that is over frees its name and resumes everyone who waits for it, and nobody else.
LEMMA SettleKeeps ==
    ASSUME ProductionInv, NEW v \in Views, Settle(v)
    PROVE  ProductionInv'
<1> DEFINE out == view[v].out
<1>0. /\ view[v] \in Rows /\ CallSound(view[v]) /\ view[v].pc = "clean" /\ out \in Outs
      /\ inflight[out] = v
  BY DEF ProductionInv, TypeOK, CallsSound, NamesHeld, Producing, Settle, Rows
<1>1. /\ inflight' = [inflight EXCEPT ![out] = Null]
      /\ view' = [x \in Views |-> IF x \in Follows(v) THEN Resumed(v, x) ELSE view[x]]
      /\ UNCHANGED <<settings, ruleVars, history, cache>>
  BY DEF Settle
<1>2. ASSUME NEW x \in Follows(v)
      PROVE  /\ x \in Views /\ view[x] \in Rows /\ CallSound(view[x]) /\ view[x].out = out
             /\ view[x].session \in opened /\ view[x].session \in Sessions
  <2>1. x \in Views /\ view[x] \in Rows /\ CallSound(view[x])
    BY DEF Follows, ProductionInv, TypeOK, CallsSound
  <2>2. view[x].pc \in {"join", "clean"}  BY <1>0 DEF Follows
  <2>3. view[x].session \in opened /\ view[x].session \in Sessions
    BY <2>1, <2>2 DEF CallSound, ProductionInv, TypeOK
  <2>4. view[x].out = out
    <3>1. CASE x = v  BY <3>1
    <3>2. CASE view[x].pc = "join" /\ view[x].owner = v
      <4>1. inflight[view[x].out] = v /\ v # Null /\ view[x].out \in Outs
        BY <2>1, <3>2, RenditionAssumption DEF ProductionInv, NamesHeld, Rows
      <4> QED BY <4>1 DEF ProductionInv, NamesHeld
    <3> QED BY <3>1, <3>2 DEF Follows
  <2> QED BY <2>1, <2>3, <2>4
<1>3. ASSUME NEW x \in Follows(v)
      PROVE  /\ Resumed(v, x) \in Rows /\ CallSound(Resumed(v, x))
             /\ Resumed(v, x).pc \in {"failed", "based", "serve"}
  <2>1. CASE view[v].made = Null
    <3> DEFINE row == [NoView EXCEPT !.pc = "failed", !.session = view[x].session]
    <3>1. row = [NoView EXCEPT !.pc = "failed", !.session = view[x].session]  OBVIOUS
    <3>2. Resumed(v, x) = row  BY <2>1 DEF Resumed
    <3>3. view[x].session \in Sessions  BY <1>2
    <3> HIDE DEF row
    <3>4. /\ row \in Rows
          /\ row = [pc |-> "failed", session |-> view[x].session, out |-> "base", owner |-> Null,
                    context |-> Null, from |-> Null, marks |-> {}, made |-> Null, got |-> Null]
      BY <3>1, <3>3, FailedRow
    <3>5. CallSound(row)  BY <1>2, <3>4 DEF CallSound
    <3> QED BY <3>2, <3>4, <3>5
  <2>2. CASE view[v].made # Null
    <3> DEFINE pc == IF view[x].out = "base" THEN "based" ELSE "serve"
               row == [view[x] EXCEPT !.pc = pc, !.from = view[x].out, !.owner = Null, !.made = Null]
    <3>1. Resumed(v, x) = row  BY <2>2 DEF Resumed
    <3>2. pc \in {"based", "serve"}  OBVIOUS
    <3> HIDE DEF pc
    <3>3. row \in Rows  BY <1>2, <3>2 DEF Rows, PCs
    <3>4. row.pc = pc /\ row.from = out /\ row.out = out /\ row.made = Null /\ row.session = view[x].session
      BY <1>2 DEF Rows
    <3> HIDE DEF row
    <3>5. cache[out] # Null /\ out # Null
      BY <1>0, <2>2, RenditionAssumption DEF CallSound, Outs
    <3>6. CallSound(row)  BY <1>2, <3>2, <3>4, <3>5 DEF CallSound
    <3> QED BY <3>1, <3>2, <3>3, <3>4, <3>6
  <2> QED BY <2>1, <2>2
<1> HIDE DEF out
<1>4. view' \in [Views -> Rows]
  BY <1>1, <1>3 DEF ProductionInv, TypeOK
<1>5. TypeOK'
  BY <1>0, <1>1, <1>4 DEF ProductionInv, TypeOK, settings, ruleVars, history
<1>6. CallsSound'
  BY <1>1, <1>3 DEF ProductionInv, CallsSound, CallSound, history
<1>7. /\ \A x \in Views : view[x].out \in Outs /\ x # Null
      /\ \A o \in Outs : inflight'[o] = IF o = out THEN Null ELSE inflight[o]
      /\ v \in Follows(v)
  BY <1>1, RenditionAssumption DEF ProductionInv, TypeOK, Rows, Follows
<1>8. ASSUME NEW x \in Views, view'[x].pc \in AtWork
      PROVE  inflight'[view'[x].out] = x
  <2>1. x \notin Follows(v) /\ view'[x] = view[x]  BY <1>1, <1>3, <1>8 DEF AtWork
  <2>2. x # v /\ inflight[view[x].out] = x
    BY <1>7, <1>8, <2>1 DEF ProductionInv, NamesHeld, Producing, AtWork
  <2> QED BY <1>0, <1>7, <2>1, <2>2
<1>9. ASSUME NEW o \in Outs, inflight'[o] # Null
      PROVE  view'[inflight'[o]].pc \in AtWork /\ view'[inflight'[o]].out = o
  <2>1. o # out /\ inflight'[o] = inflight[o] /\ inflight[o] \in Views
    BY <1>7, <1>9 DEF ProductionInv, TypeOK
  <2>2. Producing(inflight[o]) /\ view[inflight[o]].out = o
    BY <1>7, <2>1 DEF ProductionInv, NamesHeld
  <2>3. inflight[o] \notin Follows(v)
    BY <1>2, <2>1, <2>2
  <2> QED BY <1>1, <2>1, <2>2, <2>3 DEF Producing, AtWork
<1>10. ASSUME NEW x \in Views, view'[x].pc = "join"
       PROVE  view'[x].owner # Null /\ inflight'[view'[x].out] = view'[x].owner
  <2>1. x \notin Follows(v) /\ view'[x] = view[x]  BY <1>1, <1>3, <1>10
  <2>2. view[x].owner # Null /\ inflight[view[x].out] = view[x].owner /\ view[x].owner # v
    BY <1>10, <2>1 DEF ProductionInv, NamesHeld, Follows
  <2> QED BY <1>0, <1>7, <2>1, <2>2
<1>11. NamesHeld'
  BY <1>8, <1>9, <1>10 DEF NamesHeld, Producing, AtWork
<1> QED BY <1>5, <1>6, <1>11 DEF ProductionInv

LEMMA CrashKeeps == ProductionInv /\ Crash => ProductionInv'
<1> SUFFICES ASSUME ProductionInv, Crash  PROVE ProductionInv'
  OBVIOUS
<1>1. /\ view' = [v \in Views |-> NoView] /\ inflight' = [o \in Outs |-> Null]
      /\ UNCHANGED <<settings, place, template, history, cache>> /\ admin' = [c \in Admins |-> NoCall]
  BY DEF Crash
<1>2. TypeOK'
  BY <1>1, NoViewTyped DEF ProductionInv, TypeOK, settings, history
<1>3. NoView.pc = "idle" /\ NoView.out = "base" /\ NoView.from = Null /\ NoView.made = Null
      /\ NoView.session = Null
  BY DEF NoView
<1>4. CallsSound'  BY <1>1, <1>3 DEF CallsSound, CallSound
<1>5. NamesHeld'  BY <1>1, <1>3 DEF NamesHeld, Producing
<1> QED BY <1>2, <1>4, <1>5 DEF ProductionInv

LEMMA ProductionStep == ProductionInv /\ [Next]_vars => ProductionInv'
<1> SUFFICES ASSUME ProductionInv, [Next]_vars  PROVE ProductionInv'
  OBVIOUS
<1>1. ASSUME NEW v \in Views, ViewBegins(v) \/ Step(v) \/ Forgets(v)  PROVE ProductionInv'
  BY <1>1, StatementsKeep, JoinKeeps, RenameKeeps, SettleKeeps DEF Step
<1> QED BY <1>1, OthersKeep, CrashKeeps DEF Next

LEMMA ProductionInit == Init => ProductionInv
<1> SUFFICES ASSUME Init  PROVE ProductionInv
  OBVIOUS
<1>1. NoView.pc = "idle" /\ NoView.out = "base" /\ NoView.from = Null /\ NoView.made = Null
  BY DEF NoView
<1> QED BY <1>1, InitTyped DEF Init, ProductionInv, CallsSound, CallSound, NamesHeld, Producing

\* The state keeps its types, whatever administrators, viewers and crashes do.
THEOREM TypeCorrect == Spec => []TypeOK
<1>1. Init => ProductionInv  BY ProductionInit
<1>2. ProductionInv /\ [Next]_vars => ProductionInv'  BY ProductionStep
<1>3. ProductionInv => TypeOK  BY DEF ProductionInv
<1> QED BY <1>1, <1>2, <1>3, PTL DEF Spec

\* No rendition is produced twice at the same time and no name waits for a production that is
\* over (viewing.service.ts:255), for any number of calls, names and crashes.
THEOREM ProducedOnce == Spec => []OneProduction
<1>1. Init => ProductionInv  BY ProductionInit
<1>2. ProductionInv /\ [Next]_vars => ProductionInv'  BY ProductionStep
<1>3. ProductionInv => OneProduction
  BY DEF ProductionInv, NamesHeld, OneProduction
<1> QED BY <1>1, <1>2, <1>3, PTL DEF Spec

-----------------------------------------------------------------------------
(* What is served bears the marks it must                                  *)

\* The marks a session asks for: nothing deleted before it, everything that has covered the
\* file since, and something for a guest.
Ruled(s, w) == /\ w \cap gone[s] = {}
               /\ asks[s] \in {"scope", "link"} => lasting[s] \subseteq w
               /\ asks[s] \in {"link", "text"} => w # {}

\* What history says of the templates as they are.
HistoryTrue ==
    \A s \in opened : /\ \A t \in lasting[s] : Covers(t, place)
                      /\ \A t \in gone[s] : template[t].deleted

\* What lies in the cache may be served to the session it is named for.
CacheRuled ==
    /\ cache["base"] \in {Null, Base}
    /\ \A s \in Sessions : cache[s] # Null =>
          s \in opened /\ cache[s].viewer = s /\ Ruled(s, cache[s].marks)

\* What a call has got at the end.
AnswerRuled(s, got) ==
    /\ got # Null /\ (got.marks # {} => got.viewer = s) /\ got.marks \cap gone[s] = {}
    /\ kind # "audio" => Ruled(s, got.marks)

\* What a call holds at each statement is what its product and its answer need.
CallRuled(c) ==
    LET s == c.session
    IN  /\ c.pc \in {"context", "templates"} => asks[s] \in {"scope", "link"}
        /\ c.pc = "templates" => c.context = place \/ lasting[s] = {}
        /\ c.pc \in Looking \cup {"based"} /\ (c.out # "base" \/ asks[s] # "scope") => Ruled(s, c.marks)
        /\ c.pc \in {"resolved", "compose"} => Ruled(s, c.marks)
        /\ c.pc = "rename" => c.made = IF c.out = "base" THEN Base ELSE Marked(s, c.marks)
        /\ c.pc = "serve" /\ c.from = "base" /\ kind # "audio" => Ruled(s, {})
        /\ c.pc = "served" => AnswerRuled(s, c.got)

CallsRuled == \A v \in Views : CallRuled(view[v])

RulesInv == ProductionInv /\ HistoryTrue /\ CacheRuled /\ CallsRuled

\* A step of calls that leaves the cache and the templates as they are.
LEMMA CallsKeepRules ==
    ASSUME RulesInv, ProductionInv', UNCHANGED <<settings, ruleVars, history, cache>>,
           \A x \in Views : view'[x] = view[x] \/ CallRuled(view'[x])
    PROVE  RulesInv'
<1>1. CallsRuled'
  <2> SUFFICES ASSUME NEW x \in Views  PROVE CallRuled(view[x])'
    BY DEF CallsRuled
  <2>1. CallRuled(view'[x])  BY DEF RulesInv, CallsRuled
  <2> QED BY <2>1 DEF CallRuled, AnswerRuled, Ruled, settings, ruleVars, history
<1>2. HistoryTrue' /\ CacheRuled'
  BY DEF RulesInv, HistoryTrue, CacheRuled, Ruled, Covers, settings, ruleVars, history
<1> QED BY <1>1, <1>2 DEF RulesInv

\* What covers the file now is what a session asks for, if it was read of the place the file is
\* in, or nothing has covered it all along.
LEMMA FoundRuled ==
    ASSUME RulesInv, NEW s \in opened, NEW where,
           where = place \/ lasting[s] = {}
    PROVE  /\ lasting[s] \subseteq ApplicableFor(where)
           /\ ApplicableFor(where) \cap gone[s] = {}
           /\ GuestMark \notin gone[s]
<1>1. lasting[s] \subseteq Templates /\ gone[s] \subseteq Templates
  BY DEF RulesInv, ProductionInv, TypeOK
<1> QED BY <1>1, RenditionAssumption DEF RulesInv, HistoryTrue, ApplicableFor, Covers

\* The statements of a view but the renaming.
LEMMA StepKeepsRules ==
    ASSUME RulesInv, ProductionInv', NEW v \in Views,
           ViewBegins(v) \/ Step(v) \/ Forgets(v), ~Rename(v)
    PROVE  RulesInv'
<1> DEFINE c == view[v]
           s == view[v].session
<1>0. /\ c \in Rows /\ CallSound(c) /\ CallRuled(c) /\ opened \in SUBSET Sessions
      /\ view' \in [Views -> Rows]
  BY DEF RulesInv, ProductionInv, TypeOK, CallsSound, CallsRuled
<1>a. ASSUME \A x \in Views : x # v => view'[x] = view[x], CallRuled(view'[v]),
             UNCHANGED <<settings, ruleVars, history, cache>>
      PROVE  RulesInv'
  BY <1>a, CallsKeepRules
<1>1. CASE CachedLooks(v)
  <2>1. c.pc = "look"
        /\ view'[v].session = s /\ view'[v].out = c.out /\ view'[v].marks = c.marks
        /\ view'[v].pc \in {"miss", "based", "serve"}
        /\ (view'[v].pc = "based" => c.out = "base")
        /\ (view'[v].pc = "serve" => view'[v].from # "base")
    BY <1>0, <1>1 DEF CachedLooks, Rows, RulesInv, ProductionInv, TypeOK
  <2>2. CallRuled(view'[v])
    BY <1>0, <2>1 DEF CallRuled, Looking
  <2> QED BY <1>0, <1>1, <1>a, <2>2 DEF CachedLooks, RulesInv, ProductionInv, TypeOK, diskVars
<1>2. CASE CachedJoinsOrStarts(v)
  <2>1. c.pc = "miss" /\ view'[v].session = s /\ view'[v].out = c.out /\ view'[v].marks = c.marks
        /\ view'[v].pc \in {"join", "make"}
    BY <1>0, <1>2 DEF CachedJoinsOrStarts, Goes, Rows, RulesInv, ProductionInv, TypeOK
  <2>2. CallRuled(view'[v])
    BY <1>0, <2>1 DEF CallRuled, Looking
  <2> QED BY <1>0, <1>2, <1>a, <2>2 DEF CachedJoinsOrStarts, Goes, RulesInv, ProductionInv, TypeOK
<1>3. CASE Produce(v)
  <2>1. c.pc = "make" /\ view'[v].session = s /\ view'[v].out = c.out /\ view'[v].marks = c.marks
        /\ (\/ view'[v].pc = "rename" /\ view'[v].made = Product(v)
            \/ view'[v].pc = "clean")
    BY <1>0, <1>3 DEF Produce, Goes, Rows, RulesInv, ProductionInv, TypeOK
  <2>2. CallRuled(view'[v])
    BY <1>0, <2>1 DEF CallRuled, Looking, Product
  <2> QED BY <1>0, <1>3, <1>a, <2>2 DEF Produce, Goes, RulesInv, ProductionInv, TypeOK, diskVars
<1>4. CASE Settle(v)
  <2>1. ASSUME NEW x \in Views  PROVE view'[x] = view[x] \/ CallRuled(view'[x])
    <3>0. view[x] \in Rows /\ CallRuled(view[x])
      BY <1>0 DEF RulesInv, ProductionInv, TypeOK, CallsRuled
    <3>1. view'[x] = IF x \in Follows(v) THEN Resumed(v, x) ELSE view[x]
      BY <1>4 DEF Settle
    <3>2. CASE x \in Follows(v) /\ view[v].made = Null
      <4> DEFINE row == [NoView EXCEPT !.pc = "failed", !.session = view[x].session]
      <4>1. row.pc = "failed"  BY DEF NoView
      <4>2. view'[x] = row  BY <3>1, <3>2 DEF Resumed
      <4> HIDE DEF row
      <4> QED BY <4>1, <4>2 DEF CallRuled, Looking
    <3>3. CASE x \in Follows(v) /\ view[v].made # Null
      <4>1. view[x].pc \in {"join", "clean"}  BY <1>4, <3>3 DEF Follows, Settle
      <4>2. view'[x] = [view[x] EXCEPT !.pc = IF view[x].out = "base" THEN "based" ELSE "serve",
                                       !.from = view[x].out, !.owner = Null, !.made = Null]
        BY <3>1, <3>3 DEF Resumed
      <4>3. /\ view'[x].session = view[x].session /\ view'[x].out = view[x].out
            /\ view'[x].marks = view[x].marks /\ view'[x].from = view[x].out
            /\ view'[x].pc = IF view[x].out = "base" THEN "based" ELSE "serve"
        BY <3>0, <4>2 DEF Rows
      <4>4. CallRuled(view'[x])  BY <3>0, <4>1, <4>3 DEF CallRuled, Looking
      <4> QED BY <4>4
    <3> QED BY <3>1, <3>2, <3>3
  <2> QED BY <1>4, <2>1, CallsKeepRules DEF Settle
<1>5. CASE ViewBegins(v)
  <2>1. PICK o \in opened :
           view' = [view EXCEPT ![v] = [NoView EXCEPT !.session = o,
                       !.pc = IF asks[o] = "link" THEN "context" ELSE "look",
                       !.marks = IF asks[o] = "text" THEN {GuestMark} ELSE {}]]
    BY <1>5 DEF ViewBegins
  <2> DEFINE pc == IF asks[o] = "link" THEN "context" ELSE "look"
             marks == IF asks[o] = "text" THEN {GuestMark} ELSE {}
             row == [NoView EXCEPT !.session = o, !.pc = pc, !.marks = marks]
  <2>2. pc \in {"context", "look"} /\ pc \in PCs /\ marks \in SUBSET Marks
    BY DEF PCs, Looking, Marks
  <2>3. pc = "context" => asks[o] = "link"  OBVIOUS
  <2>4. GuestMark \notin gone[o]  BY <1>0, FoundRuled
  <2>5. asks[o] # "scope" /\ pc = "look" => Ruled(o, marks)
    BY <1>0, <2>4 DEF Ruled, RulesInv, ProductionInv, TypeOK
  <2>6. view'[v] = row  BY <1>0, <2>1 DEF RulesInv, ProductionInv, TypeOK
  <2> HIDE DEF pc, marks
  <2>7. row = [NoView EXCEPT !.session = o, !.pc = pc, !.marks = marks]  OBVIOUS
  <2> HIDE DEF row
  <2>8. row = [pc |-> pc, session |-> o, out |-> "base", owner |-> Null, context |-> Null,
               from |-> Null, marks |-> marks, made |-> Null, got |-> Null]
    BY <1>0, <2>2, <2>7, FreshRow
  <2>9. row.pc = pc /\ row.session = o /\ row.out = "base" /\ row.marks = marks  BY <2>8
  <2>10. CallRuled(view'[v])
    BY <2>2, <2>3, <2>5, <2>6, <2>9 DEF CallRuled, Looking
  <2> QED BY <1>0, <1>5, <1>a, <2>10 DEF ViewBegins, RulesInv, ProductionInv, TypeOK, diskVars
<1>6. CASE ReadsContext(v)
  <2>1. /\ view'[v].session = s /\ view'[v].pc = "templates" /\ view'[v].context = place
        /\ asks[s] \in {"scope", "link"}
    BY <1>0, <1>6 DEF ReadsContext, Rows, RulesInv, ProductionInv, TypeOK, CallRuled
  <2>2. CallRuled(view'[v])  BY <2>1 DEF CallRuled, Looking
  <2> QED BY <1>0, <1>6, <1>a, <2>2 DEF ReadsContext, RulesInv, ProductionInv, TypeOK, diskVars
<1>7. CASE ReadsTemplates(v)
  <2> DEFINE found == ApplicableFor(c.context)
             marks == IF asks[s] = "link" /\ found = {} THEN {GuestMark} ELSE found
  <2>1. /\ view'[v].session = s /\ view'[v].pc \in {"look", "resolved"} /\ view'[v].marks = marks
        /\ c.pc = "templates"
    BY <1>0, <1>7 DEF ReadsTemplates, Rows, RulesInv, ProductionInv, TypeOK
  <2>2. s \in opened /\ asks[s] \in {"scope", "link"} /\ (c.context = place \/ lasting[s] = {})
    BY <1>0, <2>1 DEF CallSound, CallRuled
  <2>3. lasting[s] \subseteq found /\ found \cap gone[s] = {} /\ GuestMark \notin gone[s]
    BY <2>2, FoundRuled
  <2> HIDE DEF found
  <2>4. Ruled(s, marks)  BY <2>2, <2>3 DEF Ruled
  <2> HIDE DEF marks
  <2>5. CallRuled(view'[v])  BY <2>1, <2>4 DEF CallRuled, Looking
  <2> QED BY <1>0, <1>7, <1>a, <2>5 DEF ReadsTemplates, RulesInv, ProductionInv, TypeOK, diskVars
<1>8. CASE NeedsNoTemplates(v)
  <2>1. /\ c.pc = "based" /\ view'[v].session = s /\ view'[v].marks = c.marks
        /\ \/ kind = "audio" /\ view'[v].pc = "serve"
           \/ asks[s] # "scope" /\ view'[v].pc = "resolved"
    BY <1>0, <1>8 DEF NeedsNoTemplates, Goes, Rows, RulesInv, ProductionInv, TypeOK
  <2>2. CallRuled(view'[v])  BY <1>0, <2>1 DEF CallRuled, Looking
  <2> QED BY <1>0, <1>8, <1>a, <2>2 DEF NeedsNoTemplates, Goes, RulesInv, ProductionInv, TypeOK, diskVars
<1>9. CASE Chooses(v)
  <2>1. /\ c.pc = "resolved" /\ view'[v].session = s /\ view'[v].marks = c.marks
        /\ \/ c.marks = {} /\ view'[v].pc = "serve"
           \/ view'[v].pc \in {"compose", "look"}
    BY <1>0, <1>9 DEF Chooses, Rows, RulesInv, ProductionInv, TypeOK
  <2>2. CallRuled(view'[v])  BY <1>0, <2>1 DEF CallRuled, Looking
  <2> QED BY <1>0, <1>9, <1>a, <2>2 DEF Chooses, RulesInv, ProductionInv, TypeOK, diskVars
<1>10. CASE Composes(v)
  <2> DEFINE got == Marked(s, c.marks)
             served == [NoView EXCEPT !.pc = "served", !.session = s, !.got = got]
             failed == [NoView EXCEPT !.pc = "failed", !.session = s]
  <2>1. view'[v] \in {served, failed} /\ c.pc = "compose"
    BY <1>0, <1>10 DEF Composes, RulesInv, ProductionInv, TypeOK
  <2>2. s \in Sessions /\ Ruled(s, c.marks)  BY <1>0, <2>1 DEF CallSound, CallRuled
  <2>3. got \in Products /\ got # Null /\ got.viewer = s /\ got.marks = c.marks
    BY <1>0, <2>2, ProductTyped DEF Marked, Rows
  <2> HIDE DEF got
  <2>4. served = [NoView EXCEPT !.pc = "served", !.session = s, !.got = got]
        /\ "served" \in PCs
    BY DEF PCs
  <2>4a. failed = [NoView EXCEPT !.pc = "failed", !.session = s]  OBVIOUS
  <2> HIDE DEF served, failed
  <2>5. served = [pc |-> "served", session |-> s, out |-> "base", owner |-> Null, context |-> Null,
                  from |-> Null, marks |-> {}, made |-> Null, got |-> got]
    BY <2>2, <2>3, <2>4, EndedRow
  <2>5a. failed = [pc |-> "failed", session |-> s, out |-> "base", owner |-> Null, context |-> Null,
                   from |-> Null, marks |-> {}, made |-> Null, got |-> Null]
    BY <2>2, <2>4a, FailedRow
  <2>6. failed.pc = "failed"  BY <2>5a
  <2>7. CallRuled(served)
    BY <2>2, <2>3, <2>5 DEF CallRuled, Looking, AnswerRuled, Ruled
  <2>8. CallRuled(failed)  BY <2>6 DEF CallRuled, Looking
  <2> QED BY <1>0, <1>10, <1>a, <2>1, <2>7, <2>8 DEF Composes, RulesInv, ProductionInv, TypeOK, diskVars
<1>11. CASE Streams(v)
  <2> DEFINE got == cache[c.from]
             row == [NoView EXCEPT !.pc = "served", !.session = s, !.got = got]
  <2>1. view'[v] = row /\ c.pc = "serve"
    BY <1>0, <1>11 DEF Streams, RulesInv, ProductionInv, TypeOK
  <2>2. s \in opened /\ s \in Sessions /\ c.from \in {"base", s} /\ got # Null
    BY <1>0, <2>1 DEF CallSound
  <2>3. got \in Products
    BY <2>2 DEF RulesInv, ProductionInv, TypeOK, Outs
  <2>4. AnswerRuled(s, got)
    <3>1. CASE c.from = "base"
      <4>1. got = Base  BY <2>2, <3>1 DEF RulesInv, CacheRuled
      <4>2. Base.marks = {}  BY DEF Base
      <4>3. kind # "audio" => Ruled(s, {})  BY <1>0, <2>1, <3>1 DEF CallRuled
      <4> QED BY <2>2, <4>1, <4>2, <4>3 DEF AnswerRuled
    <3>2. CASE c.from = s
      BY <2>2, <3>2 DEF RulesInv, CacheRuled, AnswerRuled, Ruled
    <3> QED BY <2>2, <3>1, <3>2
  <2> HIDE DEF got
  <2>5. row = [NoView EXCEPT !.pc = "served", !.session = s, !.got = got] /\ "served" \in PCs
    BY DEF PCs
  <2> HIDE DEF row
  <2>6. row = [pc |-> "served", session |-> s, out |-> "base", owner |-> Null, context |-> Null,
               from |-> Null, marks |-> {}, made |-> Null, got |-> got]
    BY <2>2, <2>3, <2>5, EndedRow
  <2>7. row.pc = "served" /\ row.session = s /\ row.got = got  BY <2>6
  <2>8. CallRuled(view'[v])  BY <2>1, <2>4, <2>7 DEF CallRuled, Looking
  <2> QED BY <1>0, <1>11, <1>a, <2>8 DEF Streams, RulesInv, ProductionInv, TypeOK, diskVars
<1>12. CASE Forgets(v)
  <2>1. view'[v] = NoView  BY <1>12 DEF Forgets, RulesInv, ProductionInv, TypeOK
  <2>2. NoView.pc = "idle"  BY DEF NoView
  <2>3. CallRuled(view'[v])  BY <2>1, <2>2 DEF CallRuled, Looking
  <2> QED BY <1>0, <1>12, <1>a, <2>3 DEF Forgets, RulesInv, ProductionInv, TypeOK, diskVars
<1> QED BY <1>1, <1>2, <1>3, <1>4, <1>5, <1>6, <1>7, <1>8, <1>9, <1>10, <1>11, <1>12 DEF Step

\* A rendition comes into the cache under the name of the session it was made for.
LEMMA RenameKeepsRules ==
    ASSUME RulesInv, ProductionInv', NEW v \in Views, Rename(v)
    PROVE  RulesInv'
<1> DEFINE c == view[v]
           s == view[v].session
<1>0. /\ c \in Rows /\ CallSound(c) /\ CallRuled(c) /\ c.pc = "rename"
      /\ s \in opened /\ s \in Sessions /\ c.out \in {"base", s} /\ c.out \in Outs
  <2>1. c \in Rows /\ CallSound(c) /\ CallRuled(c) /\ c.pc = "rename"
    BY DEF RulesInv, ProductionInv, TypeOK, CallsSound, CallsRuled, Rename
  <2> QED BY <2>1 DEF CallSound, RulesInv, ProductionInv, TypeOK, Outs
<1>1. /\ UNCHANGED <<settings, ruleVars, history>>
      /\ \A x \in Views : x # v => view'[x] = view[x]
      /\ view'[v].pc = "clean" /\ view'[v].session = s /\ view'[v].out = c.out
      /\ view'[v].marks = c.marks
      /\ \A o \in Outs : cache'[o] = cache[o] \/ (o = c.out /\ cache'[o] = c.made)
  BY <1>0 DEF Rename, Goes, Rows, RulesInv, ProductionInv, TypeOK
<1>2. CallsRuled'
  <2> SUFFICES ASSUME NEW x \in Views  PROVE CallRuled(view[x])'
    BY DEF CallsRuled
  <2>1. CallRuled(view'[v])  BY <1>0, <1>1 DEF CallRuled, Looking
  <2>2. CallRuled(view'[x])  BY <1>1, <2>1 DEF RulesInv, CallsRuled
  <2> QED BY <1>1, <2>2 DEF CallRuled, AnswerRuled, Ruled, settings, ruleVars, history
<1>3. HistoryTrue'
  BY <1>1 DEF RulesInv, HistoryTrue, Covers, ruleVars, history
<1>4. CacheRuled'
  <2>1. c.out = "base" => c.made = Base  BY <1>0 DEF CallRuled
  <2>2. c.out # "base" => /\ c.out = s /\ c.made.viewer = s /\ Ruled(s, c.made.marks)
    BY <1>0 DEF CallRuled, Looking, Marked
  <2>3. cache'["base"] \in {Null, Base}
    BY <1>1, <2>1 DEF RulesInv, CacheRuled, Outs
  <2>4. ASSUME NEW o \in Sessions, cache'[o] # Null
        PROVE  o \in opened /\ cache'[o].viewer = o /\ Ruled(o, cache'[o].marks)
    <3>1. o # "base" /\ o \in Outs  BY RenditionAssumption DEF Outs
    <3>2. CASE cache'[o] = cache[o]  BY <2>4, <3>2 DEF RulesInv, CacheRuled
    <3>3. CASE o = c.out /\ cache'[o] = c.made  BY <1>0, <2>2, <3>1, <3>3
    <3> QED BY <1>1, <3>1, <3>2, <3>3
  <2> QED BY <1>1, <2>3, <2>4 DEF CacheRuled, Ruled, settings, history
<1> QED BY <1>2, <1>3, <1>4 DEF RulesInv

\* What happens beside the calls may only take templates out of what has covered the file all
\* along, and opens sessions that no call and no rendition has.
LEMMA OutsideKeepsRules ==
    ASSUME RulesInv, ProductionInv', UNCHANGED <<settings, view, cache>>, HistoryTrue',
           opened \subseteq opened',
           \A s \in opened : lasting'[s] \subseteq lasting[s] /\ gone'[s] = gone[s],
           place' # place => \A s \in opened : lasting'[s] = {}
    PROVE  RulesInv'
<1>1. CallsRuled'
  <2> SUFFICES ASSUME NEW x \in Views  PROVE CallRuled(view[x])'
    BY DEF CallsRuled
  <2>1. CallRuled(view[x]) /\ CallSound(view[x])
    BY DEF RulesInv, CallsRuled, ProductionInv, CallsSound
  <2>2. CASE view[x].pc = "idle"  BY <2>2 DEF CallRuled, Looking
  <2>3. CASE view[x].pc # "idle"
    <3>1. view[x].session \in opened  BY <2>1, <2>3 DEF CallSound
    <3> QED BY <2>1, <3>1 DEF CallRuled, AnswerRuled, Ruled, settings
  <2> QED BY <2>2, <2>3
<1>2. CacheRuled'
  BY DEF RulesInv, CacheRuled, Ruled, settings
<1> QED BY <1>1, <1>2 DEF RulesInv

LEMMA RulesStep == RulesInv /\ [Next]_vars => RulesInv'
<1> SUFFICES ASSUME RulesInv, [Next]_vars  PROVE RulesInv'
  OBVIOUS
<1>0. ProductionInv'  BY ProductionStep DEF RulesInv
<1>t. TypeOK  BY DEF RulesInv, ProductionInv
<1>h. \A s \in opened : /\ \A t \in lasting[s] : Covers(t, place)
                        /\ \A t \in gone[s] : template[t].deleted
  BY DEF RulesInv, HistoryTrue
<1>1. ASSUME NEW v \in Views, ViewBegins(v) \/ Step(v) \/ Forgets(v)  PROVE RulesInv'
  BY <1>0, <1>1, StepKeepsRules, RenameKeepsRules
<1>2. CASE AdminCreatesTemplate
  <2>1. PICK n \in Templates, e \in BOOLEAN, w \in Scopes :
           /\ template[n] = NoTemplate
           /\ template' = [template EXCEPT ![n] = [enabled |-> e, deleted |-> FALSE, scope |-> w]]
    BY <1>2 DEF AdminCreatesTemplate
  <2>2. ~template[n].enabled /\ ~template[n].deleted  BY <2>1 DEF NoTemplate
  <2>3. \A t \in Templates : t # n => template'[t] = template[t]  BY <2>1, <1>t DEF TypeOK
  <2>4. UNCHANGED <<settings, view, cache, place, opened, lasting, gone>>
    BY <1>2 DEF AdminCreatesTemplate, history, diskVars
  <2>5. HistoryTrue'
    BY <1>t, <1>h, <2>2, <2>3, <2>4 DEF HistoryTrue, Covers, TypeOK
  <2> QED BY <1>0, <2>4, <2>5, OutsideKeepsRules
<1>3. CASE FileMoves
  <2>1. UNCHANGED <<settings, view, cache, template, opened, gone>>
        /\ lasting' = [s \in Sessions |-> {}]
    BY <1>3 DEF FileMoves, diskVars
  <2>2. HistoryTrue'
    BY <1>t, <1>h, <2>1 DEF HistoryTrue, TypeOK
  <2> QED BY <1>0, <1>t, <2>1, <2>2, OutsideKeepsRules DEF TypeOK
<1>4. ASSUME NEW a \in Admins, AdminFindsTemplate(a)  PROVE RulesInv'
  <2>1. UNCHANGED <<settings, view, cache, place, template, opened, lasting, gone>>
    BY <1>4 DEF AdminFindsTemplate, history, diskVars
  <2>2. HistoryTrue'  BY <1>h, <2>1 DEF HistoryTrue, Covers
  <2> QED BY <1>0, <2>1, <2>2, OutsideKeepsRules
<1>5. ASSUME NEW a \in Admins, AdminWritesTemplate(a)  PROVE RulesInv'
  <2> DEFINE n == admin[a].t
             w == admin[a].set
             new == [f \in DOMAIN template[n] |-> IF f \in DOMAIN w THEN w[f] ELSE template[n][f]]
  <2>1. n \in Templates /\ w \in Writes /\ template[n] \in TemplateRows
    BY <1>5, <1>t DEF AdminWritesTemplate, TypeOK, NoCall
  <2>2. template[n].deleted => new.deleted
    <3> HIDE DEF n, w
    <3> QED BY <2>1, WritesTyped
  <2>3. /\ template' = [template EXCEPT ![n] = new]
        /\ UNCHANGED <<settings, view, cache, place, opened, gone>>
        /\ lasting' = [s \in Sessions |-> lasting[s] \ {n}]
    BY <1>5 DEF AdminWritesTemplate, diskVars
  <2> HIDE DEF new, n
  <2>4. \A t \in Templates : template'[t] = IF t = n THEN new ELSE template[t]
    BY <1>t, <2>3 DEF TypeOK
  <2>5. HistoryTrue'
    BY <1>t, <1>h, <2>2, <2>3, <2>4 DEF HistoryTrue, Covers, TypeOK
  <2> QED BY <1>0, <1>t, <2>3, <2>5, OutsideKeepsRules DEF TypeOK
<1>6. ASSUME NEW o \in Sessions, SessionOpens(o)  PROVE RulesInv'
  <2>1. /\ UNCHANGED <<settings, view, cache, place, template>>
        /\ o \notin opened /\ opened' = opened \cup {o}
        /\ \A s \in Sessions : /\ lasting'[s] = IF s = o THEN ApplicableFor(place) ELSE lasting[s]
                               /\ gone'[s] = IF s = o THEN {t \in Templates : template[t].deleted} ELSE gone[s]
    BY <1>6, <1>t DEF SessionOpens, ruleVars, diskVars, TypeOK
  <2>2. HistoryTrue'
    <3> SUFFICES ASSUME NEW s \in opened'
        PROVE  /\ \A t \in lasting'[s] : Covers(t, place)'
               /\ \A t \in gone'[s] : template'[t].deleted
      BY DEF HistoryTrue
    <3>1. \A t : Covers(t, place)' <=> Covers(t, place)  BY <2>1 DEF Covers
    <3>2. CASE s = o  BY <2>1, <3>1, <3>2 DEF ApplicableFor
    <3>3. CASE s # o
      <4>1. s \in opened /\ lasting'[s] = lasting[s] /\ gone'[s] = gone[s]
        BY <1>t, <2>1, <3>3 DEF TypeOK
      <4> QED BY <1>h, <2>1, <3>1, <4>1
    <3> QED BY <3>2, <3>3
  <2> QED BY <1>0, <1>t, <2>1, <2>2, OutsideKeepsRules DEF TypeOK
<1>7. CASE Crash
  <2>1. /\ UNCHANGED <<settings, place, template, history, cache>>
        /\ \A v \in Views : view'[v] = NoView
    BY <1>7 DEF Crash
  <2>2. CallsRuled'
    <3>1. NoView.pc = "idle"  BY DEF NoView
    <3> QED BY <2>1, <3>1 DEF CallsRuled, CallRuled, Looking
  <2>3. HistoryTrue' /\ CacheRuled'
    BY <2>1 DEF RulesInv, HistoryTrue, CacheRuled, Covers, Ruled, settings, history
  <2> QED BY <1>0, <2>2, <2>3 DEF RulesInv
<1>8. CASE UNCHANGED vars
  <2>1. UNCHANGED <<settings, view, cache, place, template, opened, lasting, gone>>
    BY <1>8 DEF vars, ruleVars, history, diskVars
  <2>2. HistoryTrue'  BY <1>h, <2>1 DEF HistoryTrue, Covers
  <2> QED BY <1>0, <2>1, <2>2, OutsideKeepsRules
<1> QED BY <1>1, <1>2, <1>3, <1>4, <1>5, <1>6, <1>7, <1>8 DEF Next

LEMMA RulesInit == Init => RulesInv
<1> SUFFICES ASSUME Init  PROVE RulesInv
  OBVIOUS
<1>1. NoView.pc = "idle"  BY DEF NoView
<1>2. CallsRuled  BY <1>1 DEF Init, CallsRuled, CallRuled, Looking
<1>3. HistoryTrue /\ CacheRuled  BY DEF Init, HistoryTrue, CacheRuled, Outs
<1> QED BY <1>2, <1>3, ProductionInit DEF RulesInv

\* Whatever is served bears the viewer's own mark and the marks the rules have asked for all
\* along, though templates change, videos are kept and productions are shared
\* (watermark.service.ts:33, viewing.service.ts:420), for any number of calls,
\* sessions and templates.
THEOREM AlwaysServedAsRuled == Spec => []ServedAsRuled
<1>1. Init => RulesInv  BY RulesInit
<1>2. RulesInv /\ [Next]_vars => RulesInv'  BY RulesStep
<1>3. RulesInv => ServedAsRuled
  BY DEF RulesInv, CallsRuled, CallRuled, AnswerRuled, Ruled, ServedAsRuled
<1> QED BY <1>1, <1>2, <1>3, PTL DEF Spec
=============================================================================
