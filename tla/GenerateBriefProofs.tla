------------------------- MODULE GenerateBriefProofs -------------------------
(***************************************************************************)
(* Type correctness of GenerateBrief, that no message is told twice, and   *)
(* that a later run of a day drops nothing the first one told: for any     *)
(* number of overlapping handlers, audiences, messages and days.           *)
(***************************************************************************)
EXTENDS GenerateBrief, TLAPS

-----------------------------------------------------------------------------
(* Days and moments.                                                       *)

\* A day is DayLength ticks long.
LEMMA DayBounds ==
  ASSUME NEW t \in Nat
  PROVE  /\ DayOf(t) \in Nat
         /\ DayLength * DayOf(t) <= t /\ t < DayLength * DayOf(t) + DayLength
  BY BriefAssumption, SMT DEF DayOf

\* The days do not overlap.
LEMMA DaysApart ==
  ASSUME NEW d \in Nat, NEW e \in Nat, d + 1 < e
  PROVE  DayLength * d + DayLength <= DayLength * e - DayLength
  <1>1. DayLength \in Nat /\ e - 2 - d \in Nat
    BY BriefAssumption
  <1>2. DayLength * (e - 2 - d) \in Nat
    BY <1>1
  <1>3. DayLength * e = DayLength * d + DayLength + DayLength + DayLength * (e - 2 - d)
    BY <1>1, SMT
  <1>4. DayLength * e \in Nat /\ DayLength * d \in Nat
    BY <1>1
  <1> QED
    BY <1>1, <1>2, <1>3, <1>4

\* A moment of the model lies on one of its days.
LEMMA TickDay ==
  ASSUME NEW t \in Tick
  PROVE  t \in Nat /\ DayOf(t) \in Day
  <1>1. t \in Nat /\ t < Days * DayLength /\ Days \in Nat /\ DayLength \in Nat \ {0}
    BY BriefAssumption DEF Tick
  <1>2. DayOf(t) \in Nat /\ DayOf(t) < Days
    BY <1>1, SMT DEF DayOf
  <1> QED
    BY <1>1, <1>2 DEF Day

-----------------------------------------------------------------------------
(* Types.                                                                  *)

\* A run that has read nothing is well typed.
LEMMA EmptyTypes ==
  NoContext \in Context /\ NoContext.start = 0
  <1>1. 0 \in Tick /\ 0 \in -DayLength .. Days * DayLength - 1
    BY BriefAssumption, SMT DEF Tick
  <1>2. (CHOOSE a \in Audiences : TRUE) \in Audiences
    BY BriefAssumption
  <1> QED
    BY <1>1, <1>2 DEF NoContext, Context

\* A brief that is not there has no date.
LEMMA BriefTypes ==
  ASSUME TypeOK, NEW d \in Day, NEW a \in Audiences, briefs[<<d, a>>] # NoBrief
  PROVE  /\ briefs[<<d, a>>].items \in SUBSET Messages /\ briefs[<<d, a>>].known \in SUBSET Messages
         /\ briefs[<<d, a>>].to \in Tick /\ briefs[<<d, a>>].at \in Tick
  <1>1. briefs[<<d, a>>] \in Brief
    BY DEF TypeOK
  <1> QED
    BY <1>1 DEF Brief

\* A step of one run to a known place is well typed, and moves no other.
LEMMA GotoTypes ==
  ASSUME TypeOK, NEW r \in Runs, NEW step \in Steps, Goto(r, step)
  PROVE  /\ pc' \in [Runs -> Steps] /\ pc'[r] = step
         /\ \A q \in Runs : q # r => pc'[q] = pc[q]
  BY DEF Goto, TypeOK

\* So is what one run reads.
LEMMA ReadTypes ==
  ASSUME TypeOK, NEW r \in Runs, NEW c \in Context, ctx' = [ctx EXCEPT ![r] = c]
  PROVE  /\ ctx' \in [Runs -> Context] /\ ctx'[r] = c
         /\ \A q \in Runs : q # r => ctx'[q] = ctx[q]
  BY DEF TypeOK

\* What ResolveWindow writes down.
Resolved(c, a, from) == [c EXCEPT !.audience = a, !.todo = @ \ {a}, !.from = from]

\* ... is well typed, and leaves the rest of the context.
LEMMA ResolvedTypes ==
  ASSUME NEW c \in Context, NEW a \in Audiences,
         NEW from \in -DayLength .. Days * DayLength - 1
  PROVE  /\ Resolved(c, a, from) \in Context
         /\ Resolved(c, a, from).start = c.start
         /\ Resolved(c, a, from).audience = a
         /\ Resolved(c, a, from).from = from
  BY Zenon DEF Resolved, Context

\* What ReadRows writes down.
Rows(c, known, items) == [c EXCEPT !.known = known, !.items = items]

\* ... is well typed, and leaves the rest of the context.
LEMMA RowsTypes ==
  ASSUME NEW c \in Context, NEW known \in SUBSET Messages, NEW items \in SUBSET Messages
  PROVE  /\ Rows(c, known, items) \in Context
         /\ Rows(c, known, items).start = c.start
         /\ Rows(c, known, items).audience = c.audience
         /\ Rows(c, known, items).from = c.from
         /\ Rows(c, known, items).known = known
         /\ Rows(c, known, items).items = items
  BY Zenon DEF Rows, Context

-----------------------------------------------------------------------------
(* The invariant.                                                          *)

\* What a run has read of the brief of the day before still stands, unless that
\* brief was saved (again) since, which is what overtaken remembers; a brief saved
\* before the run began was not.
Stands(d, a, start) ==
  /\ briefs[<<d - 1, a>>] # NoBrief
  /\ <<d - 1, a>> \notin overtaken \/ briefs[<<d - 1, a>>].at < start

\* A run holds the window that goes with it, and what lies in that window.
Looks(r) ==
  LET d == Date(r)
      a == ctx[r].audience
      c == ctx[r]
  IN  /\ c.start <= now
      /\ pc[r] \in {"rows", "save"} =>
           /\ DayLength * d - DayLength <= c.from
           /\ d > 0 =>
                /\ <<d - 1, a>> \in lookedUp
                /\ Stands(d, a, c.start) => c.from = briefs[<<d - 1, a>>].at
      /\ pc[r] = "save" =>
           /\ c.known \subseteq extracted
           /\ c.items = {m \in c.known : InWindow(m, c.from, c.start)}

\* A brief ends on its own day, was saved after that, begins no earlier than the
\* day before, and begins where that day's brief was saved.
Told(d, a) ==
  LET b == briefs[<<d, a>>]
  IN  b # NoBrief =>
        /\ DayOf(b.to) = d /\ b.to <= b.at /\ b.at <= now
        /\ b.items \subseteq b.known /\ b.known \subseteq extracted
        /\ \A m \in b.items :
             DayLength * d - DayLength <= occurred[m] /\ occurred[m] < b.to
        /\ d > 0 =>
             /\ <<d - 1, a>> \in lookedUp
             /\ Stands(d, a, b.to) =>
                  b.items = {m \in b.known : InWindow(m, briefs[<<d - 1, a>>].at, b.to)}

BriefsInv ==
  /\ \A m \in extracted : occurred[m] # Never
  /\ \A r \in Runs : Looks(r)
  /\ \A d \in Day, a \in Audiences : Told(d, a)

IInv == TypeOK /\ BriefsInv

-----------------------------------------------------------------------------
(* Steps that save no brief.                                               *)

\* What has been extracted keeps its date, the rest only grows.
Grows ==
  /\ extracted \subseteq extracted'
  /\ \A m \in extracted : occurred'[m] = occurred[m]
  /\ \A m \in extracted' : occurred'[m] # Never
  /\ now <= now' /\ now' \in Nat
  /\ lookedUp \subseteq lookedUp'
  /\ UNCHANGED <<briefs, overtaken>>

\* Such a step leaves the briefs as they were ...
LEMMA ToldStays ==
  ASSUME IInv, Grows
  PROVE  \A d \in Day, a \in Audiences : Told(d, a)'
  <1> SUFFICES ASSUME NEW d \in Day, NEW a \in Audiences, briefs[<<d, a>>] # NoBrief
               PROVE  Told(d, a)'
    BY DEF Told, Grows
  <1> DEFINE b == briefs[<<d, a>>]
  <1>1. Told(d, a) /\ briefs' = briefs /\ overtaken' = overtaken
    BY DEF IInv, BriefsInv, Grows
  <1>2. b.to \in Nat /\ b.at \in Nat /\ now \in Nat /\ now' \in Nat /\ now <= now'
    BY BriefTypes, TickDay DEF IInv, TypeOK, Grows
  <1>3. /\ DayOf(b.to) = d /\ b.to <= b.at /\ b.at <= now'
        /\ b.items \subseteq b.known /\ b.known \subseteq extracted
    BY <1>1, <1>2 DEF Told
  <1>4. \A m \in b.known : occurred'[m] = occurred[m]
    BY <1>3 DEF Grows
  <1>5. \A m \in b.items :
          DayLength * d - DayLength <= occurred'[m] /\ occurred'[m] < b.to
    BY <1>1, <1>3, <1>4 DEF Told
  <1>6. ASSUME d > 0
        PROVE  /\ <<d - 1, a>> \in lookedUp'
               /\ Stands(d, a, b.to) =>
                    b.items = {m \in b.known : /\ briefs'[<<d - 1, a>>].at <= occurred'[m]
                                              /\ occurred'[m] < b.to}
    BY <1>1, <1>4, <1>6 DEF Told, Grows, InWindow
  <1>7. b.known \subseteq extracted'
    BY <1>3 DEF Grows
  <1> HIDE DEF b
  <1>8. briefs'[<<d, a>>] = b
    BY <1>1 DEF b
  <1> QED
    BY <1>1, <1>3, <1>5, <1>6, <1>7, <1>8 DEF Told, InWindow, Stands

\* ... and a run as sound as it was, unless it moves itself.
LEMMA LooksStays ==
  ASSUME IInv, Grows, NEW r \in Runs, pc'[r] = pc[r], ctx'[r] = ctx[r]
  PROVE  Looks(r)'
  <1> DEFINE c == ctx[r]
             d == Date(r)
             a == ctx[r].audience
  <1>1. Looks(r) /\ briefs' = briefs /\ overtaken' = overtaken
    BY DEF IInv, BriefsInv, Grows
  <1>2. Date(r)' = Date(r)
    BY DEF Date
  <1>3. c \in Context /\ c.start \in Nat /\ now \in Nat /\ now' \in Nat /\ now <= now'
    <2>1. c \in Context /\ now \in Tick
      BY DEF IInv, TypeOK
    <2>2. c.start \in Tick
      BY <2>1 DEF Context
    <2> QED
      BY <2>1, <2>2, TickDay DEF Grows
  <1>4. c.start <= now'
    BY <1>1, <1>3 DEF Looks
  <1>5. pc[r] \in {"rows", "save"} =>
          /\ DayLength * d - DayLength <= c.from
          /\ d > 0 =>
               /\ <<d - 1, a>> \in lookedUp'
               /\ Stands(d, a, c.start) => c.from = briefs'[<<d - 1, a>>].at
    BY <1>1 DEF Looks, Grows
  <1>6. pc[r] = "save" =>
          /\ c.known \subseteq extracted'
          /\ c.items = {m \in c.known : InWindow(m, c.from, c.start)'}
    <2> SUFFICES ASSUME pc[r] = "save"
                 PROVE  /\ c.known \subseteq extracted'
                        /\ c.items = {m \in c.known : InWindow(m, c.from, c.start)'}
      OBVIOUS
    <2>1. c.known \subseteq extracted /\ c.items = {m \in c.known : InWindow(m, c.from, c.start)}
      BY <1>1 DEF Looks
    <2>2. \A m \in c.known : InWindow(m, c.from, c.start)' <=> InWindow(m, c.from, c.start)
      BY <2>1 DEF Grows, InWindow
    <2> QED
      BY <2>1, <2>2 DEF Grows
  <1> QED
    BY <1>1, <1>2, <1>4, <1>5, <1>6 DEF Looks, InWindow, Stands

\* A step that saves nothing and lets at most one run go on, to a place where
\* it holds nothing, keeps the invariant.
LEMMA Quiet ==
  ASSUME IInv, TypeOK', Grows,
         \A r \in Runs :
           \/ pc'[r] = pc[r] /\ ctx'[r] = ctx[r]
           \/ pc'[r] \in {"idle", "next"} /\ ctx'[r].start <= now'
  PROVE  IInv'
  <1>1. \A d \in Day, a \in Audiences : Told(d, a)'
    BY ToldStays
  <1>2. ASSUME NEW r \in Runs PROVE Looks(r)'
    <2>1. CASE pc'[r] = pc[r] /\ ctx'[r] = ctx[r]
      BY <2>1, LooksStays
    <2>2. CASE pc'[r] \in {"idle", "next"} /\ ctx'[r].start <= now'
      BY <2>2 DEF Looks
    <2> QED
      BY <2>1, <2>2
  <1>3. \A m \in extracted' : occurred'[m] # Never
    BY DEF Grows
  <1> QED
    BY <1>1, <1>2, <1>3 DEF IInv, BriefsInv

-----------------------------------------------------------------------------
(* Each step of a run.                                                     *)

\* Two days' moments are apart by at least the days between them.
LEMMA StartBounds ==
  ASSUME IInv, NEW r \in Runs
  PROVE  /\ ctx[r] \in Context /\ ctx[r].start \in Tick /\ ctx[r].start \in Nat
         /\ ctx[r].audience \in Audiences /\ Date(r) \in Day /\ Date(r) \in Nat
         /\ DayLength * Date(r) <= ctx[r].start
         /\ ctx[r].start < DayLength * Date(r) + DayLength
         /\ ctx[r].start <= now /\ now \in Nat
  <1>1. ctx[r] \in Context /\ now \in Tick
    BY DEF IInv, TypeOK
  <1>2. ctx[r].start \in Tick /\ ctx[r].audience \in Audiences
    BY <1>1 DEF Context
  <1> QED
    BY <1>1, <1>2, TickDay, DayBounds DEF Date, IInv, BriefsInv, Looks

\* ResolveWindow reads the previous brief, and from then on it is looked up.
LEMMA ResolveStep ==
  ASSUME IInv, NEW r \in Runs, ResolveWindow(r)
  PROVE  IInv'
  <1>1. PICK a \in ctx[r].todo :
          /\ ctx' = [ctx EXCEPT ![r] =
                       [ctx[r] EXCEPT !.audience = a, !.todo = @ \ {a},
                                      !.from = WindowFrom(ctx[r].start, Previous(r, a))]]
          /\ lookedUp' = lookedUp \cup {<<d, a>> : d \in {Date(r) - 1} \cap Day}
    BY DEF ResolveWindow
  <1> DEFINE d    == Date(r)
             from == WindowFrom(ctx[r].start, Previous(r, a))
             c    == Resolved(ctx[r], a, from)
  <1>2. /\ UNCHANGED <<now, cron, occurred, feeds, extracted, waiting, active, owners,
                       briefs, overtaken>>
        /\ Goto(r, "rows") /\ TypeOK
    BY DEF ResolveWindow, IInv, clock, messages, queue
  <1>3. /\ ctx[r] \in Context /\ ctx[r].start \in Tick /\ ctx[r].start \in Nat
        /\ d \in Day /\ d \in Nat /\ DayLength * d <= ctx[r].start
        /\ ctx[r].start <= now /\ now \in Nat
    BY StartBounds
  <1>4. a \in Audiences
    BY <1>1, <1>3 DEF Context
  <1>5. DayLength \in Nat \ {0} /\ Days \in Nat /\ DayLength * d \in Nat
        /\ Days * DayLength \in Nat
    BY <1>3, BriefAssumption
  <1>6. d > 0 => /\ d - 1 \in Day /\ d - 1 \in Nat
                 /\ DayLength * (d - 1) = DayLength * d - DayLength
    BY <1>3, <1>5, SMT DEF Day
  <1>9. from \in -DayLength .. Days * DayLength - 1 /\ DayLength * d - DayLength <= from
    <2>1. CASE Previous(r, a) = NoBrief
      <3>1. from = ctx[r].start - DayLength
        BY <2>1 DEF WindowFrom
      <3>2. from \in -DayLength .. Days * DayLength - 1
        BY <1>3, <1>5, <3>1 DEF Tick
      <3>3. DayLength * d - DayLength <= from
        BY <1>3, <1>5, <3>1
      <3> QED
        BY <3>2, <3>3
    <2>2. CASE Previous(r, a) # NoBrief
      <3>1. d > 0 /\ Previous(r, a) = briefs[<<d - 1, a>>]
        BY <1>3, <2>2 DEF Previous
      <3>2. briefs[<<d - 1, a>>] # NoBrief /\ from = briefs[<<d - 1, a>>].at
        BY <2>2, <3>1 DEF WindowFrom
      <3>3. /\ briefs[<<d - 1, a>>].to \in Tick /\ briefs[<<d - 1, a>>].at \in Tick
        BY <1>2, <1>4, <1>6, <3>1, <3>2, BriefTypes
      <3>4. /\ DayOf(briefs[<<d - 1, a>>].to) = d - 1
            /\ briefs[<<d - 1, a>>].to <= briefs[<<d - 1, a>>].at
        BY <1>4, <1>6, <3>1, <3>2 DEF IInv, BriefsInv, Told
      <3>5. DayLength * (d - 1) <= briefs[<<d - 1, a>>].to
        BY <3>3, <3>4, TickDay, DayBounds
      <3> QED
        BY <1>5, <1>6, <3>1, <3>2, <3>3, <3>4, <3>5 DEF Tick
    <2> QED
      BY <2>1, <2>2
  <1>10. d > 0 => (briefs[<<d - 1, a>>] # NoBrief => from = briefs[<<d - 1, a>>].at)
    BY <1>3 DEF Previous, WindowFrom
  <1>11. ctx' = [ctx EXCEPT ![r] = c]
    BY <1>1, Zenon DEF Resolved
  <1> HIDE DEF from
  <1>12. c \in Context /\ c.start = ctx[r].start /\ c.audience = a /\ c.from = from
    BY <1>3, <1>4, <1>9, ResolvedTypes
  <1> HIDE DEF c
  <1>13. /\ ctx' \in [Runs -> Context] /\ ctx'[r] = c
         /\ \A q \in Runs : q # r => ctx'[q] = ctx[q]
    BY <1>2, <1>11, <1>12, ReadTypes
  <1>14. /\ pc' \in [Runs -> Steps] /\ pc'[r] = "rows"
         /\ \A q \in Runs : q # r => pc'[q] = pc[q]
    BY <1>2, GotoTypes DEF Steps
  <1>15. lookedUp' \in SUBSET (Day \X Audiences) /\ lookedUp \subseteq lookedUp'
    BY <1>1, <1>2, <1>4 DEF TypeOK
  <1>16. TypeOK'
    BY <1>2, <1>13, <1>14, <1>15 DEF TypeOK
  <1>17. Grows
    BY <1>2, <1>3, <1>15 DEF Grows, IInv, BriefsInv
  <1>18. Date(r)' = d
    BY <1>12, <1>13 DEF Date, DayOf
  <1>19. Looks(r)'
    <2>1. d > 0 => <<d - 1, a>> \in lookedUp'
      BY <1>1, <1>6
    <2> HIDE DEF d
    <2> QED
      BY <1>2, <1>3, <1>9, <1>10, <1>12, <1>13, <1>14, <1>18, <2>1 DEF Looks, Stands
  <1>20. \A q \in Runs : Looks(q)'
    BY <1>13, <1>14, <1>17, <1>19, LooksStays
  <1> QED
    BY <1>16, <1>17, <1>20, ToldStays DEF IInv, BriefsInv, Grows

\* ReadRows keeps exactly what lies in the window it resolved.
LEMMA ReadRowsStep ==
  ASSUME IInv, NEW r \in Runs, ReadRows(r)
  PROVE  IInv'
  <1> DEFINE known == {m \in extracted : feeds[m] = ctx[r].audience}
             items == {m \in known : InWindow(m, ctx[r].from, ctx[r].start)}
             c     == Rows(ctx[r], known, items)
  <1>1. /\ UNCHANGED <<now, cron, occurred, feeds, extracted, waiting, active, owners,
                       briefs, lookedUp, overtaken>>
        /\ Goto(r, "save") /\ TypeOK /\ pc[r] = "rows"
    BY DEF ReadRows, IInv, clock, messages, queue, history
  <1>2. ctx' = [ctx EXCEPT ![r] = c]
    BY Zenon DEF ReadRows, Rows
  <1>3. ctx[r] \in Context /\ now \in Nat
    BY StartBounds
  <1>4. known \in SUBSET Messages /\ items \in SUBSET Messages /\ known \subseteq extracted
    BY <1>1 DEF TypeOK
  <1> HIDE DEF known
  <1>5. /\ c \in Context /\ c.start = ctx[r].start /\ c.audience = ctx[r].audience
        /\ c.from = ctx[r].from /\ c.known = known /\ c.items = items
    BY <1>3, <1>4, RowsTypes
  <1> HIDE DEF c
  <1>6. /\ ctx' \in [Runs -> Context] /\ ctx'[r] = c
        /\ \A q \in Runs : q # r => ctx'[q] = ctx[q]
    BY <1>1, <1>2, <1>5, ReadTypes
  <1>7. /\ pc' \in [Runs -> Steps] /\ pc'[r] = "save"
        /\ \A q \in Runs : q # r => pc'[q] = pc[q]
    BY <1>1, GotoTypes DEF Steps
  <1>8. TypeOK'
    BY <1>1, <1>6, <1>7 DEF TypeOK
  <1>9. Grows
    BY <1>1, <1>3 DEF Grows, IInv, BriefsInv
  <1>10. Date(r)' = Date(r)
    BY <1>5, <1>6 DEF Date, DayOf
  <1>11. Looks(r)'
    <2>1. Looks(r)
      BY DEF IInv, BriefsInv
    <2>2. c.items = {m \in c.known : c.from <= occurred'[m] /\ occurred'[m] < c.start}
      <3>1. items = {m \in known : InWindow(m, ctx[r].from, ctx[r].start)}
        OBVIOUS
      <3> HIDE DEF items
      <3> QED
        BY <1>1, <1>5, <3>1 DEF InWindow
    <2> QED
      BY <1>1, <1>4, <1>5, <1>6, <1>7, <1>10, <2>1, <2>2 DEF Looks, InWindow, Stands
  <1>12. \A q \in Runs : Looks(q)'
    BY <1>6, <1>7, <1>9, <1>11, LooksStays
  <1> QED
    BY <1>8, <1>9, <1>12, ToldStays DEF IInv, BriefsInv, Grows

\* Save replaces one brief; whoever has looked at the old one is told so by
\* overtaken, and what they hold of it counts no longer.
LEMMA SaveStep ==
  ASSUME IInv, NEW r \in Runs, Save(r)
  PROVE  IInv'
  <1> DEFINE StandsNow(x, y, t) ==
               /\ briefs'[<<x - 1, y>>] # NoBrief
               /\ <<x - 1, y>> \notin overtaken' \/ briefs'[<<x - 1, y>>].at < t
             c   == ctx[r]
             d   == Date(r)
             a   == ctx[r].audience
             key == <<d, a>>
             b   == [items |-> c.items, known |-> c.known, to |-> c.start, at |-> now]
             e   == Rows(c, {}, {})
  <1>1. /\ UNCHANGED <<now, cron, occurred, feeds, extracted, waiting, active, owners, lookedUp>>
        /\ briefs' = [briefs EXCEPT ![key] = b]
        /\ overtaken' = overtaken \cup ({key} \cap lookedUp)
        /\ Goto(r, "next") /\ TypeOK /\ pc[r] = "save"
    BY DEF Save, IInv, clock, messages, queue
  <1>2. ctx' = [ctx EXCEPT ![r] = e]
    BY Zenon DEF Save, Rows
  <1>3. /\ c \in Context /\ c.start \in Tick /\ c.start \in Nat /\ a \in Audiences
        /\ d \in Day /\ d \in Nat /\ c.start <= now /\ now \in Nat
    BY StartBounds
  <1>4. /\ DayLength * d - DayLength <= c.from
        /\ d > 0 =>
             /\ <<d - 1, a>> \in lookedUp
             /\ Stands(d, a, c.start) => c.from = briefs[<<d - 1, a>>].at
        /\ c.known \subseteq extracted
        /\ c.items = {m \in c.known : InWindow(m, c.from, c.start)}
    BY <1>1 DEF IInv, BriefsInv, Looks
  <1>5. /\ c.from \in Int /\ c.items \in SUBSET Messages /\ c.known \in SUBSET Messages
    BY <1>3, BriefAssumption DEF Context
  <1>6. e \in Context /\ e.start = c.start
    BY <1>3, RowsTypes
  <1> HIDE DEF e
  <1>7. /\ ctx' \in [Runs -> Context] /\ ctx'[r] = e
        /\ \A q \in Runs : q # r => ctx'[q] = ctx[q]
    BY <1>1, <1>2, <1>6, ReadTypes
  <1>8. /\ pc' \in [Runs -> Steps] /\ pc'[r] = "next"
        /\ \A q \in Runs : q # r => pc'[q] = pc[q]
    BY <1>1, GotoTypes DEF Steps
  <1>9. b \in Brief /\ now \in Tick
    BY <1>1, <1>3, <1>5 DEF Brief, TypeOK
  <1>10. DayOf(c.start) = d
    BY DEF Date
  <1>11. /\ b.items = c.items /\ b.known = c.known /\ b.to = c.start /\ b.at = now
    OBVIOUS
  <1> HIDE DEF b, c, d, a, StandsNow
  <1>12. key \in Day \X Audiences
    BY <1>3
  <1>13. /\ briefs' \in [Day \X Audiences -> Brief \cup {NoBrief}] /\ briefs'[key] = b
         /\ \A k \in Day \X Audiences : k # key => briefs'[k] = briefs[k]
    BY <1>1, <1>9, <1>12 DEF TypeOK
  <1>14. overtaken \subseteq overtaken' /\ (key \in lookedUp => key \in overtaken')
    BY <1>1
  <1>15. TypeOK'
    BY <1>1, <1>7, <1>8, <1>13 DEF TypeOK
  <1>16. \A x \in Day, y \in Audiences :
           x > 0 => <<x - 1, y>> \in Day \X Audiences
    BY BriefAssumption, SMT DEF Day
  <1>17. ASSUME NEW x \in Day, NEW y \in Audiences, NEW t \in Nat, t <= now,
                x > 0, <<x - 1, y>> \in lookedUp, briefs'[<<x - 1, y>>] # NoBrief,
                <<x - 1, y>> \notin overtaken' \/ briefs'[<<x - 1, y>>].at < t
         PROVE  Stands(x, y, t) /\ briefs'[<<x - 1, y>>] = briefs[<<x - 1, y>>]
    <2>1. <<x - 1, y>> # key
      <3> SUFFICES ASSUME <<x - 1, y>> = key
                   PROVE  FALSE
        OBVIOUS
      <3>1. key \in overtaken' /\ briefs'[key].at = now
        BY <1>11, <1>13, <1>14, <1>17
      <3> HIDE DEF key
      <3> QED
        BY <1>3, <1>17, <3>1
    <2>2. briefs'[<<x - 1, y>>] = briefs[<<x - 1, y>>]
      BY <1>13, <1>16, <1>17, <2>1
    <2> QED
      BY <1>14, <1>17, <2>2 DEF Stands
  <1>18. ASSUME NEW q \in Runs PROVE Looks(q)'
    <2>1. CASE q = r
      BY <1>1, <1>3, <1>6, <1>7, <1>8, <2>1 DEF Looks
    <2>2. CASE q # r
      <3>1. /\ Looks(q) /\ pc'[q] = pc[q] /\ ctx'[q] = ctx[q] /\ Date(q)' = Date(q)
            /\ Date(q) \in Day /\ ctx[q].audience \in Audiences
        BY <1>7, <1>8, <2>2, StartBounds DEF IInv, BriefsInv, Date, DayOf
      <3>2. pc[q] \in {"rows", "save"} /\ Date(q) > 0 =>
              /\ <<Date(q) - 1, ctx[q].audience>> \in lookedUp
              /\ StandsNow(Date(q), ctx[q].audience, ctx[q].start)
                 => ctx[q].from = briefs'[<<Date(q) - 1, ctx[q].audience>>].at
        <4>1. ctx[q].start \in Nat /\ ctx[q].start <= now
          BY StartBounds
        <4> QED
          BY <1>17, <3>1, <4>1 DEF Looks, StandsNow
      <3> QED
        BY <1>1, <3>1, <3>2 DEF Looks, InWindow, Stands, StandsNow
    <2> QED
      BY <2>1, <2>2
  <1>19. ASSUME NEW x \in Day, NEW y \in Audiences PROVE Told(x, y)'
    <2>1. CASE <<x, y>> = key
      <3>1. x = d /\ y = a /\ briefs'[<<x, y>>] = b
        BY <1>13, <2>1
      <3>2. \A m \in c.items :
              DayLength * d - DayLength <= occurred[m] /\ occurred[m] < c.start
        <4> SUFFICES ASSUME NEW m \in c.items
                     PROVE  DayLength * d - DayLength <= occurred[m] /\ occurred[m] < c.start
          OBVIOUS
        <4>1. c.from <= occurred[m] /\ occurred[m] < c.start
          BY <1>4 DEF InWindow
        <4>2. occurred[m] \in Int /\ DayLength * d \in Int /\ DayLength \in Int
          BY <1>1, <1>3, <1>5, BriefAssumption DEF TypeOK, Tick, Never
        <4> QED
          BY <1>4, <1>5, <4>1, <4>2
      <3>3. ASSUME d > 0
            PROVE  /\ <<d - 1, a>> \in lookedUp
                   /\ StandsNow(d, a, c.start) => c.from = briefs'[<<d - 1, a>>].at
        BY <1>3, <1>4, <1>17, <3>3 DEF StandsNow
      <3>4. d > 0 /\ StandsNow(d, a, b.to) =>
              b.items = {m \in b.known : /\ briefs'[<<d - 1, a>>].at <= occurred[m]
                                         /\ occurred[m] < b.to}
        BY <1>4, <1>11, <3>3 DEF InWindow
      <3>5. b.items \subseteq b.known
        BY <1>4, <1>11
      <3> QED
        BY <1>1, <1>3, <1>4, <1>10, <1>11, <3>1, <3>2, <3>3, <3>4, <3>5
           DEF Told, InWindow, DayOf, Stands, StandsNow
    <2>2. CASE <<x, y>> # key
      <3>1. Told(x, y) /\ briefs'[<<x, y>>] = briefs[<<x, y>>]
        BY <1>13, <2>2 DEF IInv, BriefsInv
      <3>2. briefs[<<x, y>>] # NoBrief /\ x > 0 =>
              /\ <<x - 1, y>> \in lookedUp
              /\ StandsNow(x, y, briefs[<<x, y>>].to) =>
                   /\ Stands(x, y, briefs[<<x, y>>].to)
                   /\ briefs'[<<x - 1, y>>] = briefs[<<x - 1, y>>]
        <4> SUFFICES ASSUME briefs[<<x, y>>] # NoBrief, x > 0
                     PROVE  /\ <<x - 1, y>> \in lookedUp
                            /\ StandsNow(x, y, briefs[<<x, y>>].to) =>
                                 /\ Stands(x, y, briefs[<<x, y>>].to)
                                 /\ briefs'[<<x - 1, y>>] = briefs[<<x - 1, y>>]
          OBVIOUS
        <4>1. briefs[<<x, y>>].to \in Nat /\ briefs[<<x, y>>].at \in Nat
          BY <1>1, BriefTypes, TickDay
        <4>2. briefs[<<x, y>>].to <= now /\ <<x - 1, y>> \in lookedUp
          BY <1>3, <3>1, <4>1 DEF Told
        <4> QED
          BY <1>17, <4>1, <4>2 DEF StandsNow
      <3> QED
        BY <1>1, <3>1, <3>2 DEF Told, InWindow, StandsNow, Stands
    <2> QED
      BY <2>1, <2>2
  <1> QED
    BY <1>1, <1>15, <1>18, <1>19 DEF IInv, BriefsInv

-----------------------------------------------------------------------------
(* The steps at which a run begins, ends or gives up, and all the others.  *)

\* What Start writes down.
Begun(t) == [NoContext EXCEPT !.start = t, !.todo = Audiences]

\* ... is well typed.
LEMMA BegunTypes ==
  ASSUME NEW t \in Tick
  PROVE  Begun(t) \in Context /\ Begun(t).start = t
  BY EmptyTypes, Zenon DEF Begun, Context

\* What is left of a run's context when it gives up before reading.
Dropped(c, a) == [c EXCEPT !.todo = @ \ {a}]

\* ... is well typed.
LEMMA DroppedTypes ==
  ASSUME NEW c \in Context, NEW a
  PROVE  Dropped(c, a) \in Context /\ Dropped(c, a).start = c.start
  BY Zenon DEF Dropped, Context

\* A job on its way back into the queue.
LEMMA RetriedTypes ==
  ASSUME NEW j \in Job, j.tries < RetryLimit
  PROVE  [j EXCEPT !.tries = @ + 1] \in Job
  BY BriefAssumption DEF Job

\* A step that moves one run to "next" or "idle" and changes, of the tables,
\* nothing but its own place in the queue.
LEMMA MoveStep ==
  ASSUME IInv, NEW r \in Runs, NEW step \in {"idle", "next"}, NEW c \in Context,
         Goto(r, step), ctx' = [ctx EXCEPT ![r] = c], c.start <= now,
         UNCHANGED <<clock, messages, briefs, history>>,
         waiting' \in SUBSET Job, active' \in SUBSET Job, owners' \in SUBSET Runs
  PROVE  IInv'
  <1>1. TypeOK /\ step \in Steps
    BY DEF IInv, Steps
  <1>2. /\ pc' \in [Runs -> Steps] /\ pc'[r] = step
        /\ \A q \in Runs : q # r => pc'[q] = pc[q]
    BY <1>1, GotoTypes
  <1>3. /\ ctx' \in [Runs -> Context] /\ ctx'[r] = c
        /\ \A q \in Runs : q # r => ctx'[q] = ctx[q]
    BY <1>1, ReadTypes
  <1>4. TypeOK'
    BY <1>1, <1>2, <1>3 DEF TypeOK, clock, messages, history
  <1>5. now \in Nat /\ now' = now
    BY <1>1, TickDay DEF TypeOK, clock
  <1>6. Grows
    BY <1>5 DEF Grows, IInv, BriefsInv, clock, messages, history
  <1> QED
    BY <1>2, <1>3, <1>4, <1>5, <1>6, Quiet

\* The worker fetches the job.
LEMMA StartStep ==
  ASSUME IInv, NEW r \in Runs, Start(r)
  PROVE  IInv'
  <1>1. ctx' = [ctx EXCEPT ![r] = Begun(now)]
    BY Zenon DEF Start, Begun
  <1>2. TypeOK /\ now \in Tick /\ now \in Nat
    BY TickDay DEF IInv, TypeOK
  <1>3. waiting' \in SUBSET Job /\ active' \in SUBSET Job /\ owners' \in SUBSET Runs
    BY <1>2 DEF Start, TypeOK
  <1>4. Begun(now) \in Context /\ Begun(now).start <= now
    BY <1>2, BegunTypes
  <1>5. Goto(r, "next") /\ UNCHANGED <<clock, messages, briefs, history>>
    BY DEF Start
  <1> QED
    BY <1>1, <1>3, <1>4, <1>5, MoveStep

\* The handler returns.
LEMMA FinishStep ==
  ASSUME IInv, NEW r \in Runs, Finish(r)
  PROVE  IInv'
  <1>1. TypeOK /\ now \in Nat
    BY TickDay DEF IInv, TypeOK
  <1>2. waiting' \in SUBSET Job /\ active' \in SUBSET Job /\ owners' \in SUBSET Runs
    BY <1>1 DEF Finish, TypeOK
  <1>3. NoContext \in Context /\ NoContext.start <= now
    BY <1>1, EmptyTypes
  <1>4. /\ Goto(r, "idle") /\ ctx' = [ctx EXCEPT ![r] = NoContext]
        /\ UNCHANGED <<clock, messages, briefs, history>>
    BY DEF Finish
  <1> QED
    BY <1>2, <1>3, <1>4, MoveStep

\* One audience is given up on.
LEMMA SkipStep ==
  ASSUME IInv, NEW r \in Runs, Skip(r)
  PROVE  IInv'
  <1>1. /\ Goto(r, "next") /\ UNCHANGED <<clock, messages, briefs, history>>
        /\ TypeOK /\ UNCHANGED <<waiting, active, owners>>
    BY DEF Skip, IInv, queue
  <1>2. waiting' \in SUBSET Job /\ active' \in SUBSET Job /\ owners' \in SUBSET Runs
    BY <1>1 DEF TypeOK
  <1>3. ctx[r] \in Context /\ ctx[r].start <= now
    BY StartBounds
  <1>4. CASE pc[r] = "next"
    <2>1. PICK a \in ctx[r].todo : ctx' = [ctx EXCEPT ![r].todo = @ \ {a}]
      BY <1>4 DEF Skip
    <2>2. ctx' = [ctx EXCEPT ![r] = Dropped(ctx[r], a)]
      BY <2>1, Zenon DEF Dropped
    <2>3. Dropped(ctx[r], a) \in Context /\ Dropped(ctx[r], a).start <= now
      BY <1>3, DroppedTypes
    <2> QED
      BY <1>1, <1>2, <2>2, <2>3, MoveStep
  <1>5. CASE pc[r] # "next"
    <2>1. ctx' = [ctx EXCEPT ![r] = Rows(ctx[r], {}, {})]
      BY <1>5, Zenon DEF Skip, Rows
    <2>2. Rows(ctx[r], {}, {}) \in Context /\ Rows(ctx[r], {}, {}).start <= now
      BY <1>3, RowsTypes
    <2> QED
      BY <1>1, <1>2, <2>1, <2>2, MoveStep
  <1> QED
    BY <1>4, <1>5

\* pg-boss gives the active job up; the runs go on.
LEMMA ExpireStep ==
  ASSUME IInv, Expire
  PROVE  IInv'
  <1>1. TypeOK /\ now \in Nat
    BY TickDay DEF IInv, TypeOK
  <1>2. {[j EXCEPT !.tries = @ + 1] : j \in {k \in active : k.tries < RetryLimit}} \subseteq Job
    BY <1>1, RetriedTypes DEF TypeOK
  <1>3. TypeOK'
    BY <1>1, <1>2 DEF Expire, TypeOK, clock, messages, history
  <1>4. Grows
    BY <1>1 DEF Expire, Grows, IInv, BriefsInv, clock, messages, history
  <1> QED
    BY <1>3, <1>4, Quiet DEF Expire

\* The worker dies.
LEMMA CrashStep ==
  ASSUME IInv, Crash
  PROVE  IInv'
  <1>1. TypeOK /\ now \in Nat
    BY TickDay DEF IInv, TypeOK
  <1>2. TypeOK'
    BY <1>1, EmptyTypes DEF Crash, TypeOK, Steps, clock, messages, queue, history
  <1>3. Grows
    BY <1>1 DEF Crash, Grows, IInv, BriefsInv, clock, messages, history
  <1>4. \A r \in Runs : pc'[r] = "idle" /\ ctx'[r].start <= now'
    BY <1>1, EmptyTypes DEF Crash, clock
  <1> QED
    BY <1>2, <1>3, <1>4, Quiet

\* The schedule, the clock, the mail and its extraction.
LEMMA OutsideStep ==
  ASSUME IInv, Schedule \/ Advance \/ \E m \in Messages : Occur(m) \/ Extract(m)
  PROVE  IInv'
  <1>1. TypeOK /\ now \in Tick /\ now \in Nat /\ DayOf(now) \in Day
    BY TickDay DEF IInv, TypeOK
  <1>2. CASE Schedule
    <2>1. [day |-> DayOf(now), tries |-> 0] \in Job
      BY <1>1, BriefAssumption DEF Job
    <2>2. TypeOK'
      BY <1>1, <1>2, <2>1 DEF Schedule, TypeOK, messages, run, history
    <2>3. Grows
      BY <1>1, <1>2 DEF Schedule, Grows, IInv, BriefsInv, messages, history
    <2> QED
      BY <1>2, <2>2, <2>3, Quiet DEF Schedule, run
  <1>3. CASE Advance
    <2>1. TypeOK'
      BY <1>1, <1>3 DEF Advance, TypeOK, messages, queue, run, history
    <2>2. Grows
      BY <1>1, <1>3 DEF Advance, Grows, IInv, BriefsInv, messages, history
    <2> QED
      BY <1>3, <2>1, <2>2, Quiet DEF Advance, run
  <1>4. ASSUME NEW m \in Messages, Occur(m) PROVE IInv'
    <2>1. TypeOK'
      BY <1>1, <1>4 DEF Occur, TypeOK, clock, queue, run, history
    <2>2. m \notin extracted
      BY <1>4 DEF Occur, IInv, BriefsInv
    <2>3. \A n \in extracted : occurred'[n] = occurred[n]
      BY <1>1, <1>4, <2>2 DEF Occur, TypeOK
    <2>4. Grows
      BY <1>1, <1>4, <2>3 DEF Occur, Grows, IInv, BriefsInv, clock, history
    <2> QED
      BY <1>4, <2>1, <2>4, Quiet DEF Occur, run
  <1>5. ASSUME NEW m \in Messages, Extract(m) PROVE IInv'
    <2>1. TypeOK'
      BY <1>1, <1>5 DEF Extract, TypeOK, clock, queue, run, history
    <2>2. Grows
      BY <1>1, <1>5 DEF Extract, Grows, IInv, BriefsInv, clock, history
    <2> QED
      BY <1>5, <2>1, <2>2, Quiet DEF Extract, run
  <1> QED
    BY <1>2, <1>3, <1>4, <1>5

-----------------------------------------------------------------------------
(* Every step, and the theorems.                                           *)

\* At the start nothing is read, nothing told.
LEMMA InitHolds ==
  ASSUME Init
  PROVE  IInv
  <1>1. 0 \in Tick
    BY BriefAssumption, SMT DEF Tick
  <1>2. TypeOK
    BY <1>1, EmptyTypes DEF Init, TypeOK, Steps
  <1>3. \A r \in Runs : pc[r] = "idle" /\ ctx[r].start <= now
    <2>1. now = 0 /\ \A r \in Runs : pc[r] = "idle" /\ ctx[r] = NoContext
      BY DEF Init
    <2>2. \A r \in Runs : ctx[r].start = 0
      BY <2>1, EmptyTypes
    <2>3. 0 <= 0
      OBVIOUS
    <2> QED
      BY <2>1, <2>2, <2>3, Zenon
  <1>4. \A r \in Runs : Looks(r)
    BY <1>3 DEF Looks
  <1>5. \A d \in Day, a \in Audiences : Told(d, a)
    BY DEF Init, Told
  <1>6. \A m \in extracted : occurred[m] # Never
    BY DEF Init
  <1> QED
    BY <1>2, <1>4, <1>5, <1>6 DEF IInv, BriefsInv

\* The invariant is inductive.
LEMMA Inductive ==
  IInv /\ [Next]_vars => IInv'
  <1> SUFFICES ASSUME IInv, [Next]_vars
               PROVE  IInv'
    OBVIOUS
  <1>1. CASE UNCHANGED vars
    <2>1. TypeOK' /\ now \in Nat
      BY <1>1, TickDay DEF IInv, TypeOK, vars, clock, messages, queue, run, history
    <2>2. Grows
      BY <1>1, <2>1 DEF Grows, IInv, BriefsInv, vars, clock, messages, history
    <2> QED
      BY <1>1, <2>1, <2>2, Quiet DEF vars, run
  <1>2. ASSUME NEW r \in Runs, Start(r) \/ Step(r) PROVE IInv'
    BY <1>2, StartStep, FinishStep, ResolveStep, ReadRowsStep, SaveStep, SkipStep DEF Step
  <1> QED
    BY <1>1, <1>2, OutsideStep, ExpireStep, CrashStep DEF Next

\* Every reachable state satisfies it.
LEMMA Invariance ==
  Spec => []IInv
  BY InitHolds, Inductive, PTL DEF Spec

\* Every variable keeps the type its table or queue has.
THEOREM TypeCorrect ==
  Spec => []TypeOK
  <1>1. IInv => TypeOK
    BY DEF IInv
  <1> QED
    BY <1>1, Invariance, PTL

\* No message is in two briefs of a person: a brief begins where that of the day
\* before was saved, which is after that one ended, and the window of any other
\* day lies on other days altogether.
THEOREM NothingTwice ==
  Spec => []NoEventTwice
  <1>1. IInv => NoEventTwice
    <2> SUFFICES ASSUME IInv, NEW a \in Audiences, NEW d \in Day, NEW e \in Day, d < e,
                        <<d, a>> \notin overtaken,
                        NEW m \in briefs[<<d, a>>].items, m \in briefs[<<e, a>>].items
                 PROVE  FALSE
      BY DEF NoEventTwice
    <2> DEFINE first  == briefs[<<d, a>>]
               second == briefs[<<e, a>>]
    <2>1. first # NoBrief /\ second # NoBrief
      BY DEF NoBrief
    <2>2. Told(d, a) /\ Told(e, a) /\ TypeOK
      BY DEF IInv, BriefsInv
    <2>3. /\ first.to \in Tick /\ first.at \in Tick /\ second.to \in Tick
          /\ m \in Messages
      BY <2>1, <2>2, BriefTypes
    <2>4. /\ d \in Nat /\ e \in Nat /\ e > 0 /\ occurred[m] \in Int
          /\ first.to \in Nat /\ first.at \in Nat /\ DayLength \in Nat
      BY <2>2, <2>3, TickDay, BriefAssumption DEF TypeOK, Day, Tick, Never
    <2>5. DayLength * d \in Nat /\ DayLength * e \in Nat
      BY <2>4
    <2>6. /\ DayOf(first.to) = d /\ first.to <= first.at /\ occurred[m] < first.to
          /\ DayLength * e - DayLength <= occurred[m]
      BY <2>1, <2>2 DEF Told
    <2>7. CASE e = d + 1
      <3>1. e - 1 = d
        BY <2>4, <2>7
      <3>2. second.items = {n \in second.known : InWindow(n, first.at, second.to)}
        BY <2>1, <2>2, <2>4, <3>1 DEF Told, Stands
      <3>3. first.at <= occurred[m]
        BY <3>2 DEF InWindow
      <3> HIDE DEF first, second
      <3> QED
        BY <2>4, <2>6, <3>3
    <2>8. CASE d + 1 < e
      <3>1. DayLength * d + DayLength <= DayLength * e - DayLength
        BY <2>4, <2>8, DaysApart
      <3>2. first.to < DayLength * d + DayLength
        BY <2>4, <2>6, DayBounds
      <3> HIDE DEF first, second
      <3> QED
        BY <2>4, <2>5, <2>6, <3>1, <3>2
    <2> QED
      BY <2>4, <2>7, <2>8
  <1> QED
    BY <1>1, Invariance, PTL

\* A run saved over an earlier one's brief drops nothing of it that it reads: the
\* brief of the day before stands for both, so both windows begin where it was
\* saved, and the later run's ends no earlier.
THEOREM NothingDropped ==
  Spec => RerunKeeps
  <1>1. IInv /\ IInv' /\ [Next]_vars =>
          [\A d \in Day \ {0}, a \in Audiences : Keeps(d, a)]_vars
    <2> SUFFICES ASSUME IInv, IInv', [Next]_vars, NEW a \in Audiences, NEW d \in Day \ {0},
                        NEW m \in briefs[<<d, a>>].items, m \in briefs'[<<d, a>>].known,
                        briefs[<<d - 1, a>>] # NoBrief,
                        briefs[<<d - 1, a>>].at < briefs[<<d, a>>].to,
                        briefs[<<d, a>>].to <= briefs'[<<d, a>>].to
                 PROVE  m \in briefs'[<<d, a>>].items
      BY DEF Keeps
    <2> DEFINE yesterday == briefs[<<d - 1, a>>]
               first     == briefs[<<d, a>>]
               rerun     == briefs'[<<d, a>>]
    <2>1. CASE briefs' = briefs
      BY <2>1
    <2>2. ASSUME NEW r \in Runs, Save(r), first # rerun
          PROVE  m \in rerun.items
      <3>1. /\ d \in Nat /\ d > 0 /\ d - 1 \in Day /\ d # d - 1
            /\ Date(r) \in Day /\ ctx[r].audience \in Audiences
        BY BriefAssumption, StartBounds DEF Day
      <3>2. /\ <<Date(r), ctx[r].audience>> = <<d, a>>
            /\ briefs'[<<d - 1, a>>] = yesterday /\ rerun # NoBrief
        <4>1. \A k \in Day \X Audiences :
                k # <<Date(r), ctx[r].audience>> => briefs'[k] = briefs[k]
          BY <2>2, <3>1 DEF Save, IInv, TypeOK
        <4>2. <<Date(r), ctx[r].audience>> = <<d, a>>
          BY <2>2, <4>1
        <4>3. rerun # NoBrief
          BY DEF NoBrief
        <4> QED
          BY <3>1, <4>1, <4>2, <4>3
      <3>3. first # NoBrief
        BY DEF NoBrief
      <3>4. /\ yesterday.at \in Nat /\ first.to \in Nat /\ rerun.to \in Nat
            /\ m \in Messages /\ occurred[m] \in Int
        <4>1. /\ yesterday.at \in Tick /\ first.to \in Tick /\ m \in Messages
              /\ rerun.to \in Tick
          <5>1. briefs' \in [Day \X Audiences -> Brief \cup {NoBrief}]
            BY DEF IInv, TypeOK
          <5> QED
            BY <3>1, <3>2, <3>3, <5>1, BriefTypes DEF IInv, Brief
        <4> QED
          BY <4>1, TickDay DEF IInv, TypeOK, Tick, Never
      <3>5. first.items = {n \in first.known : InWindow(n, yesterday.at, first.to)}
        BY <3>1, <3>3 DEF IInv, BriefsInv, Told, Stands
      <3>6. rerun.items = {n \in rerun.known :
                             yesterday.at <= occurred'[n] /\ occurred'[n] < rerun.to}
        <4>1. Told(d, a)'
          BY DEF IInv, BriefsInv
        <4>2. yesterday.at < rerun.to
          BY <3>4
        <4> QED
          BY <3>1, <3>2, <4>1, <4>2 DEF Told, Stands, InWindow
      <3>7. occurred'[m] = occurred[m]
        BY <2>2 DEF Save, messages
      <3>8. yesterday.at <= occurred[m] /\ occurred[m] < first.to
        BY <3>5 DEF InWindow
      <3> QED
        BY <3>4, <3>6, <3>7, <3>8
    <2>3. briefs' = briefs \/ \E r \in Runs : Save(r)
      BY DEF Next, Step, Start, Finish, ResolveWindow, ReadRows, Skip, Expire, Crash,
             Schedule, Advance, Occur, Extract, vars
    <2> QED
      BY <2>1, <2>2, <2>3
  <1> QED
    BY <1>1, Invariance, PTL DEF Spec, RerunKeeps
=============================================================================
