----------------------------- MODULE ViewerProofs -----------------------------
(***************************************************************************)
(* Proofs about Viewer for any number of recordings and tabs, any reports, *)
(* any window sizes and any interleaving of the analyser, the server and   *)
(* the pages.                                                              *)
(***************************************************************************)
EXTENDS Viewer, SequenceTheorems, FiniteSetTheorems, NaturalsInduction, TLAPS

OnDiskOnce == Contents \cup {Torn}

\* The shape of the state, as far as the arguments need it.
Shape ==
    /\ versions \in [Recordings -> Seq(OnDiskOnce)]
    /\ tab = [t \in Tabs |-> tab[t]]
    /\ \A t \in Tabs : /\ DOMAIN tab[t] = DOMAIN Blank
                       /\ tab[t] = [f \in DOMAIN Blank |-> tab[t][f]]
    /\ DOMAIN cli = DOMAIN NoRun
    /\ cli.pc = "write" => cli.report \in OnDiskOnce
    /\ win = [t \in Tabs |-> win[t]]
    /\ timer \in [Tabs -> BOOLEAN]

\* The fields of a page.
LEMMA BlankFields ==
    DOMAIN Blank = {"page", "rec", "pc", "todo", "rows", "body", "asked", "ver", "fail", "size"}
BY DEF Blank

LEMMA InitShape == Init => Shape
<1> SUFFICES ASSUME Init PROVE Shape
  OBVIOUS
<1>1. \A c \in Contents : c \in OnDiskOnce
  BY DEF OnDiskOnce
<1>2. \A c \in Contents : <<c>> \in Seq(OnDiskOnce)
  BY <1>1
<1>3. <<>> \in Seq(OnDiskOnce)
  BY EmptySeq
<1>4. versions \in [Recordings -> Seq(OnDiskOnce)]
  <2>1. {<<>>} \cup {<<c>> : c \in Contents} \subseteq Seq(OnDiskOnce)
    BY <1>2, <1>3
  <2>2. versions \in [Recordings -> {<<>>} \cup {<<c>> : c \in Contents}]
    BY DEF Init
  <2> QED BY <2>1, <2>2
<1>5. \A t \in Tabs : tab[t] = Blank
  BY DEF Init
<1>6. Blank = [f \in DOMAIN Blank |-> Blank[f]]
  BY DEF Blank
<1>7. DOMAIN cli = DOMAIN NoRun /\ cli.pc = "off"
  BY DEF Init, NoRun
<1> QED BY <1>4, <1>5, <1>6, <1>7 DEF Init, Shape

\* The content a page was sent was on disk after the page asked for it.
FromDisk(t) ==
    \E v \in Greatest(1, tab[t].asked)..Len(versions[tab[t].rec]) :
        versions[tab[t].rec][v] = tab[t].body

\* What is true of a tab, whatever the other tabs and the analyser do.
TabOK(t) ==
    /\ \A id \in DOMAIN tab[t].size : tab[t].size[id] # win[t] => timer[t]
    /\ ReportPage(t) => /\ tab[t].rec \in Recordings
                        /\ tab[t].asked \in 0..Len(versions[tab[t].rec])
    /\ ReportPage(t) /\ (tab[t].pc = "sent" \/ (tab[t].pc = "done" /\ tab[t].fail = "none")) => FromDisk(t)
    /\ Shown(t) => Whole(tab[t].body)

AllTabsOK == Shape /\ \A t \in Tabs : TabOK(t)

\* The versions of a report are never rewritten.
Grown(r) ==
    /\ versions'[r] \in Seq(OnDiskOnce)
    /\ Len(versions[r]) \in Nat /\ Len(versions'[r]) \in Nat
    /\ Len(versions[r]) <= Len(versions'[r])
    /\ \A v \in 1..Len(versions[r]) : versions'[r][v] = versions[r][v]

LEMMA AppendGrows ==
    ASSUME Shape, NEW r \in Recordings, NEW c \in OnDiskOnce,
           versions' = [versions EXCEPT ![r] = Append(@, c)]
    PROVE  versions' \in [Recordings -> Seq(OnDiskOnce)] /\ \A q \in Recordings : Grown(q)
<1>1. versions \in [Recordings -> Seq(OnDiskOnce)]
  BY DEF Shape
<1>2. \A q \in Recordings : versions[q] \in Seq(OnDiskOnce) /\ Len(versions[q]) \in Nat
  BY <1>1, LenProperties
<1>3. /\ Append(versions[r], c) \in Seq(OnDiskOnce)
      /\ Len(Append(versions[r], c)) = Len(versions[r]) + 1
      /\ \A v \in 1..Len(versions[r]) : Append(versions[r], c)[v] = versions[r][v]
  BY <1>2, AppendProperties
<1>4. versions' \in [Recordings -> Seq(OnDiskOnce)]
  BY <1>1, <1>3
<1>5. versions'[r] = Append(versions[r], c) /\ \A q \in Recordings \ {r} : versions'[q] = versions[q]
  BY <1>1
<1>6. Grown(r)
  BY <1>2, <1>3, <1>5 DEF Grown
<1>7. \A q \in Recordings \ {r} : Grown(q)
  BY <1>2, <1>5 DEF Grown
<1> QED BY <1>4, <1>6, <1>7

LEMMA SameGrows ==
    ASSUME Shape, UNCHANGED versions
    PROVE  versions' \in [Recordings -> Seq(OnDiskOnce)] /\ \A q \in Recordings : Grown(q)
<1>1. \A q \in Recordings : versions[q] \in Seq(OnDiskOnce) /\ Len(versions[q]) \in Nat
  BY LenProperties DEF Shape
<1> QED BY <1>1 DEF Grown, Shape

\* A tab nothing happened to stays as it should be while the reports change.
LEMMA TabUntouched ==
    ASSUME NEW t \in Tabs, TabOK(t), \A q \in Recordings : Grown(q),
           tab'[t] = tab[t], win'[t] = win[t], timer'[t] = timer[t]
    PROVE  TabOK(t)'
<1>1. ReportPage(t)' = ReportPage(t) /\ Shown(t)' = Shown(t)
  BY DEF ReportPage, Shown
<1>2. ASSUME ReportPage(t), FromDisk(t)
      PROVE  FromDisk(t)'
  <2> DEFINE r == tab[t].rec
             n == Len(versions[r])
             m == Len(versions'[r])
             low == Greatest(1, tab[t].asked)
  <2>1. r \in Recordings /\ tab[t].asked \in 0..n
    BY <1>2 DEF TabOK
  <2>2. /\ n \in Nat /\ m \in Nat /\ n <= m
        /\ \A v \in 1..n : versions'[r][v] = versions[r][v]
    BY <2>1 DEF Grown
  <2>3. PICK v \in low..n : versions[r][v] = tab[t].body
    BY <1>2 DEF FromDisk
  <2>4. low \in Nat /\ low >= 1
    BY <2>1, <2>2 DEF Greatest
  <2> HIDE DEF low, n, m
  <2>5. v \in 1..n /\ v \in low..m
    BY <2>2, <2>3, <2>4
  <2>6. versions'[r][v] = tab[t].body
    BY <2>2, <2>3, <2>5
  <2> QED BY <2>5, <2>6 DEF FromDisk, low, m
<1>3. ReportPage(t) => tab'[t].asked \in 0..Len(versions'[tab'[t].rec])
  <2> SUFFICES ASSUME ReportPage(t) PROVE tab[t].asked \in 0..Len(versions'[tab[t].rec])
    OBVIOUS
  <2>1. tab[t].rec \in Recordings /\ tab[t].asked \in 0..Len(versions[tab[t].rec])
    BY DEF TabOK
  <2> QED BY <2>1 DEF Grown
<1> QED
  BY <1>1, <1>2, <1>3 DEF TabOK

LEMMA AnalyserKeeps ==
    ASSUME AllTabsOK, Analyser
    PROVE  AllTabsOK'
<1>1. UNCHANGED tabVars
  BY DEF Analyser, Analyse, Skip, CollectRaises, OpenReport, CloseReport, WriteRaises, Return, Kill
<1>2. versions' \in [Recordings -> Seq(OnDiskOnce)] /\ \A q \in Recordings : Grown(q)
  <2>1. \/ UNCHANGED versions
        \/ \E r \in Recordings : versions' = [versions EXCEPT ![r] = Append(@, Torn)]
        \/ \E r \in Recordings : cli.pc = "write" /\ versions' = [versions EXCEPT ![r] = Append(@, cli.report)]
    BY DEF Analyser, Analyse, Skip, CollectRaises, OpenReport, CloseReport, WriteRaises, Return, Kill, Writing
  <2>2. Torn \in OnDiskOnce
    BY DEF OnDiskOnce
  <2>3. cli.pc = "write" => cli.report \in OnDiskOnce
    BY DEF AllTabsOK, Shape
  <2> QED BY <2>1, <2>2, <2>3, AppendGrows, SameGrows DEF AllTabsOK
<1>3. DOMAIN cli' = DOMAIN NoRun /\ (cli'.pc = "write" => cli'.report \in OnDiskOnce)
  <2>1. \A c \in Reports : c \in OnDiskOnce
    BY DEF OnDiskOnce, Contents
  <2>2. DOMAIN NoRun = {"pc", "mode", "force", "todo", "report", "failed"}
    BY DEF NoRun
  <2>3. DOMAIN cli = DOMAIN NoRun
    BY DEF AllTabsOK, Shape
  <2>4. CASE \E mode \in {"single", "batch"}, recs \in SUBSET Recordings, force \in BOOLEAN : Analyse(mode, recs, force)
    BY <2>4 DEF Analyse, NoRun
  <2>5. CASE \E r \in Recordings : Skip(r) \/ CollectRaises(r) \/ CloseReport(r) \/ WriteRaises(r)
    BY <2>2, <2>3, <2>5 DEF Skip, CollectRaises, CloseReport, WriteRaises, Now
  <2>6. CASE \E r \in Recordings, rep \in Reports : OpenReport(r, rep)
    BY <2>1, <2>2, <2>3, <2>6 DEF OpenReport
  <2>7. CASE Return \/ Kill
    BY <2>7 DEF Return, Kill, NoRun
  <2> QED BY <2>4, <2>5, <2>6, <2>7 DEF Analyser
<1>5. Shape'
  BY <1>1, <1>2, <1>3 DEF AllTabsOK, Shape, tabVars
<1>4. \A t \in Tabs : TabOK(t)'
  BY <1>1, <1>2, TabUntouched DEF AllTabsOK, tabVars
<1> QED BY <1>4, <1>5 DEF AllTabsOK

\* A step of one tab keeps the state in shape, provided the tab's page does.
LEMMA TabStepKeeps ==
    ASSUME AllTabsOK, NEW t \in Tabs, UNCHANGED cliVars,
           NEW page, tab' = [tab EXCEPT ![t] = page],
           DOMAIN page = DOMAIN Blank, page = [f \in DOMAIN Blank |-> page[f]],
           \E w : win' = [win EXCEPT ![t] = w],
           \E b \in BOOLEAN : timer' = [timer EXCEPT ![t] = b],
           TabOK(t)'
    PROVE  AllTabsOK'
<1>1. tab'[t] = page /\ \A u \in Tabs \ {t} : tab'[u] = tab[u] /\ win'[u] = win[u] /\ timer'[u] = timer[u]
  BY DEF AllTabsOK, Shape
<1>2. Shape'
  BY <1>1 DEF AllTabsOK, Shape, cliVars
<1>3. \A q \in Recordings : Grown(q)
  BY SameGrows DEF AllTabsOK, cliVars
<1>4. \A u \in Tabs \ {t} : TabOK(u)'
  BY <1>1, <1>3, TabUntouched DEF AllTabsOK
<1> QED BY <1>2, <1>4 DEF AllTabsOK

LEMMA OpenKeeps ==
    ASSUME AllTabsOK, NEW t \in Tabs, NEW page \in {"index", "detail", "safety"}, NEW r \in Recordings,
           Open(t, page, r)
    PROVE  AllTabsOK'
<1> DEFINE new == IF page = "index" THEN [Blank EXCEPT !.page = page, !.pc = "asked", !.todo = Recordings]
                  ELSE [Blank EXCEPT !.page = page, !.pc = "asked", !.rec = r, !.rows = tab[t].rows,
                                     !.asked = Len(versions[r])]
<1>1. /\ tab' = [tab EXCEPT ![t] = new] /\ UNCHANGED <<cliVars, win>>
      /\ timer' = [timer EXCEPT ![t] = FALSE]
  BY DEF Open
<1>2. DOMAIN new = DOMAIN Blank /\ new = [f \in DOMAIN Blank |-> new[f]]
  BY DEF Blank
<1>3. /\ new.page = page /\ new.pc = "asked" /\ new.size = <<>>
      /\ page # "index" => new.rec = r /\ new.asked = Len(versions[r])
  BY DEF Blank
<1> HIDE DEF new
<1>4. tab'[t] = new /\ versions' = versions /\ Len(versions[r]) \in Nat
  <2>1. versions[r] \in Seq(OnDiskOnce)
    BY DEF AllTabsOK, Shape
  <2> QED BY <1>1, <2>1, LenProperties DEF AllTabsOK, Shape, cliVars
<1>5. TabOK(t)'
  <2>1. DOMAIN new.size = {}
    BY <1>3
  <2> QED BY <1>3, <1>4, <2>1 DEF TabOK, ReportPage, Shown
<1>6. win' = [win EXCEPT ![t] = win[t]]
  BY <1>1 DEF AllTabsOK, Shape
<1> QED BY <1>1, <1>2, <1>5, <1>6, TabStepKeeps

\* A page that ends, or gains rows, while what it was sent and drew stays.
LEMMA PageMovesOn ==
    ASSUME AllTabsOK, NEW t \in Tabs, UNCHANGED <<cliVars, win, timer>>,
           NEW page, tab' = [tab EXCEPT ![t] = page],
           DOMAIN page = DOMAIN Blank, page = [f \in DOMAIN Blank |-> page[f]],
           page.page = tab[t].page, page.rec = tab[t].rec, page.asked = tab[t].asked,
           page.size = tab[t].size,
           \/ page.page = "index"
           \/ page.pc = "done" /\ page.fail # "none"
           \/ page.pc = "asked"
    PROVE  AllTabsOK'
<1>1. tab'[t] = page /\ versions' = versions /\ win' = win /\ timer' = timer
  BY DEF AllTabsOK, Shape, cliVars
<1>2. TabOK(t)
  BY DEF AllTabsOK
<1>3. TabOK(t)'
  BY <1>1, <1>2 DEF TabOK, ReportPage, Shown
<1>4. win' = [win EXCEPT ![t] = win[t]] /\ timer' = [timer EXCEPT ![t] = timer[t]] /\ timer[t] \in BOOLEAN
  BY <1>1 DEF AllTabsOK, Shape
<1> QED BY <1>3, <1>4, TabStepKeeps

LEMMA PageEndsKeeps ==
    ASSUME AllTabsOK, NEW t \in Tabs,
           \/ NetFail(t) \/ NotFound(t) \/ ParseFails(t) \/ RenderIndex(t)
           \/ \E r \in Recordings : ScanReport(t, r)
    PROVE  AllTabsOK'
<1>1. DOMAIN tab[t] = DOMAIN Blank /\ tab[t] = [f \in DOMAIN Blank |-> tab[t][f]]
  BY DEF AllTabsOK, Shape
<1>2. ASSUME NEW why \in {"net", "http", "parse"}, Fail(t, why), UNCHANGED <<cliVars, win, timer>>
      PROVE  AllTabsOK'
  <2> DEFINE new == [tab[t] EXCEPT !.pc = "done", !.fail = why, !.body = None]
  <2>1. tab' = [tab EXCEPT ![t] = new]
    BY <1>1, <1>2 DEF Fail, AllTabsOK, Shape
  <2>2. /\ DOMAIN new = DOMAIN Blank /\ new = [f \in DOMAIN Blank |-> new[f]]
        /\ new.page = tab[t].page /\ new.rec = tab[t].rec /\ new.asked = tab[t].asked
        /\ new.size = tab[t].size /\ new.pc = "done" /\ new.fail # "none"
    BY <1>1, <1>2, BlankFields
  <2> HIDE DEF new
  <2> QED BY <1>2, <2>1, <2>2, PageMovesOn
<1>3. CASE RenderIndex(t)
  <2> DEFINE new == [tab[t] EXCEPT !.pc = "done"]
  <2>1. tab' = [tab EXCEPT ![t] = new] /\ UNCHANGED <<cliVars, win, timer>> /\ tab[t].page = "index"
    BY <1>1, <1>3 DEF RenderIndex, AllTabsOK, Shape
  <2>2. /\ DOMAIN new = DOMAIN Blank /\ new = [f \in DOMAIN Blank |-> new[f]]
        /\ new.page = tab[t].page /\ new.rec = tab[t].rec /\ new.asked = tab[t].asked
        /\ new.size = tab[t].size
    BY <1>1, BlankFields
  <2> HIDE DEF new
  <2> QED BY <2>1, <2>2, PageMovesOn
<1>4. ASSUME NEW r \in Recordings, ScanReport(t, r)
      PROVE  AllTabsOK'
  <2> DEFINE rows == IF OnDisk(r) THEN Append(tab[t].rows, Row(r)) ELSE tab[t].rows
             new == [tab[t] EXCEPT !.todo = @ \ {r}, !.rows = rows]
  <2>1. tab' = [tab EXCEPT ![t] = new] /\ UNCHANGED <<cliVars, win, timer>> /\ tab[t].page = "index"
    <3>1. tab' = [tab EXCEPT ![t].todo = @ \ {r},
                             ![t].rows = IF OnDisk(r) THEN Append(@, Row(r)) ELSE @]
      BY <1>4 DEF ScanReport
    <3> QED BY <1>1, <1>4, <3>1, BlankFields DEF ScanReport, AllTabsOK, Shape
  <2>2. /\ DOMAIN new = DOMAIN Blank /\ new = [f \in DOMAIN Blank |-> new[f]]
        /\ new.page = tab[t].page /\ new.rec = tab[t].rec /\ new.asked = tab[t].asked
        /\ new.size = tab[t].size
    <3> HIDE DEF rows
    <3> QED BY <1>1, BlankFields
  <2> HIDE DEF new
  <2> QED BY <2>1, <2>2, PageMovesOn
<1> QED
  BY <1>2, <1>3, <1>4 DEF NetFail, NotFound, ParseFails

\* What the server sends is the newest version, which is not older than the one
\* there was when the page asked.
LEMMA SendKeeps ==
    ASSUME AllTabsOK, NEW t \in Tabs, Send(t)
    PROVE  AllTabsOK'
<1> DEFINE r == tab[t].rec
           n == Len(versions[r])
           new == [tab[t] EXCEPT !.pc = "sent", !.ver = n, !.body = Content(r)]
<1>1. DOMAIN tab[t] = DOMAIN Blank /\ tab[t] = [f \in DOMAIN Blank |-> tab[t][f]] /\ TabOK(t)
  BY DEF AllTabsOK, Shape
<1>2. /\ tab' = [tab EXCEPT ![t] = new] /\ UNCHANGED <<cliVars, win, timer>>
      /\ ReportPage(t) /\ OnDisk(r)
  BY <1>1 DEF Send, AllTabsOK, Shape
<1>3. /\ DOMAIN new = DOMAIN Blank /\ new = [f \in DOMAIN Blank |-> new[f]]
      /\ new.page = tab[t].page /\ new.rec = r /\ new.asked = tab[t].asked
      /\ new.size = tab[t].size /\ new.pc = "sent" /\ new.body = Content(r)
  BY <1>1, BlankFields
<1>4. r \in Recordings /\ tab[t].asked \in 0..n
  BY <1>1, <1>2 DEF TabOK
<1>5. n \in Nat /\ n > 0
  BY <1>2, <1>4, LenProperties DEF AllTabsOK, Shape, OnDisk
<1>6. Content(r) = versions[r][n]
  BY DEF Content, Last
<1> HIDE DEF new
<1>7. tab'[t] = new /\ versions' = versions /\ win' = win /\ timer' = timer
  BY <1>2 DEF AllTabsOK, Shape, cliVars
<1>8. FromDisk(t)'
  <2>1. n \in Greatest(1, tab[t].asked)..n
    BY <1>4, <1>5 DEF Greatest
  <2> QED BY <1>3, <1>6, <1>7, <2>1 DEF FromDisk
<1>9. TabOK(t)'
  BY <1>1, <1>3, <1>4, <1>7, <1>8 DEF TabOK, ReportPage, Shown
<1>10. win' = [win EXCEPT ![t] = win[t]] /\ timer' = [timer EXCEPT ![t] = timer[t]] /\ timer[t] \in BOOLEAN
  BY <1>7 DEF AllTabsOK, Shape
<1> QED BY <1>2, <1>3, <1>9, <1>10, TabStepKeeps

LEMMA RenderKeeps ==
    ASSUME AllTabsOK, NEW t \in Tabs, Render(t)
    PROVE  AllTabsOK'
<1> DEFINE sizes == [id \in Charts(Panels(tab[t].page, tab[t].body)) |-> win[t]]
           new == [tab[t] EXCEPT !.pc = "done", !.size = sizes]
<1>1. DOMAIN tab[t] = DOMAIN Blank /\ tab[t] = [f \in DOMAIN Blank |-> tab[t][f]] /\ TabOK(t)
  BY DEF AllTabsOK, Shape
<1>2. \A id \in DOMAIN sizes : sizes[id] = win[t]
  OBVIOUS
<1> HIDE DEF sizes
<1>3. /\ tab' = [tab EXCEPT ![t] = new] /\ UNCHANGED <<cliVars, win, timer>>
      /\ ReportPage(t) /\ tab[t].pc = "sent" /\ Whole(tab[t].body)
  BY <1>1 DEF Render, AllTabsOK, Shape, sizes
<1>4. /\ DOMAIN new = DOMAIN Blank /\ new = [f \in DOMAIN Blank |-> new[f]]
      /\ new.page = tab[t].page /\ new.rec = tab[t].rec /\ new.asked = tab[t].asked
      /\ new.size = sizes /\ new.body = tab[t].body
  BY <1>1, BlankFields
<1> HIDE DEF new
<1>5. tab'[t] = new /\ versions' = versions /\ win' = win /\ timer' = timer
  BY <1>3 DEF AllTabsOK, Shape, cliVars
<1>6. FromDisk(t)'
  BY <1>1, <1>3, <1>4, <1>5 DEF TabOK, FromDisk
<1>7. TabOK(t)'
  BY <1>1, <1>2, <1>3, <1>4, <1>5, <1>6 DEF TabOK, ReportPage, Shown
<1>8. win' = [win EXCEPT ![t] = win[t]] /\ timer' = [timer EXCEPT ![t] = timer[t]] /\ timer[t] \in BOOLEAN
  BY <1>5 DEF AllTabsOK, Shape
<1> QED BY <1>3, <1>4, <1>7, <1>8, TabStepKeeps

\* A resize event arms the timer, and the timer brings every chart to the size the
\* window has then.
LEMMA ResizeKeeps ==
    ASSUME AllTabsOK, NEW t \in Tabs, (\E w \in WinSizes : Resize(t, w)) \/ ResizeTimer(t)
    PROVE  AllTabsOK'
<1>1. DOMAIN tab[t] = DOMAIN Blank /\ tab[t] = [f \in DOMAIN Blank |-> tab[t][f]] /\ TabOK(t)
  BY DEF AllTabsOK, Shape
<1>2. ASSUME NEW w \in WinSizes, Resize(t, w)
      PROVE  AllTabsOK'
  <2>1. tab' = [tab EXCEPT ![t] = tab[t]] /\ timer' = [timer EXCEPT ![t] = TRUE]
        /\ win' = [win EXCEPT ![t] = w] /\ UNCHANGED cliVars
    BY <1>2 DEF Resize, AllTabsOK, Shape
  <2>2. tab'[t] = tab[t] /\ timer'[t] /\ versions' = versions
    BY <2>1 DEF AllTabsOK, Shape, cliVars
  <2>3. TabOK(t)'
    BY <1>1, <2>2 DEF TabOK, ReportPage, Shown, FromDisk
  <2> QED BY <1>1, <2>1, <2>3, TabStepKeeps
<1>3. CASE ResizeTimer(t)
  <2> DEFINE sizes == [id \in DOMAIN tab[t].size |-> IF id \in Resized(t) THEN win[t] ELSE tab[t].size[id]]
             new == [tab[t] EXCEPT !.size = sizes]
  <2>1. \A id \in DOMAIN sizes : sizes[id] = win[t]
    BY DEF Resized
  <2> HIDE DEF sizes
  <2>2. /\ tab' = [tab EXCEPT ![t] = new] /\ UNCHANGED <<cliVars, win>>
        /\ timer' = [timer EXCEPT ![t] = FALSE]
    BY <1>1, <1>3 DEF ResizeTimer, AllTabsOK, Shape, sizes
  <2>3. /\ DOMAIN new = DOMAIN Blank /\ new = [f \in DOMAIN Blank |-> new[f]]
        /\ new.page = tab[t].page /\ new.rec = tab[t].rec /\ new.asked = tab[t].asked
        /\ new.size = sizes /\ new.body = tab[t].body /\ new.pc = tab[t].pc /\ new.fail = tab[t].fail
    BY <1>1, BlankFields
  <2> HIDE DEF new
  <2>4. tab'[t] = new /\ versions' = versions /\ win' = win
    BY <2>2 DEF AllTabsOK, Shape, cliVars
  <2>5. TabOK(t)'
    BY <1>1, <2>1, <2>3, <2>4 DEF TabOK, ReportPage, Shown, FromDisk
  <2>6. win' = [win EXCEPT ![t] = win[t]]
    BY <2>4 DEF AllTabsOK, Shape
  <2> QED BY <2>2, <2>3, <2>5, <2>6, TabStepKeeps
<1> QED BY <1>2, <1>3

LEMMA InitTabs == Init => AllTabsOK
<1> SUFFICES ASSUME Init, NEW t \in Tabs
             PROVE  TabOK(t)
  BY InitShape DEF AllTabsOK
<1>1. tab[t] = Blank /\ Blank.page = "none" /\ DOMAIN Blank.size = {}
  BY DEF Init, Blank
<1> QED BY <1>1 DEF TabOK, ReportPage, Shown

LEMMA StepKeepsTabs == AllTabsOK /\ [Next]_vars => AllTabsOK'
<1> SUFFICES ASSUME AllTabsOK, [Next]_vars PROVE AllTabsOK'
  OBVIOUS
<1>1. CASE Analyser
  BY <1>1, AnalyserKeeps
<1>2. ASSUME NEW t \in Tabs,
             \/ \E page \in {"index", "detail", "safety"}, r \in Recordings : Open(t, page, r)
             \/ PageStep(t) \/ NetFail(t)
             \/ \E w \in WinSizes : Resize(t, w)
             \/ ResizeTimer(t)
      PROVE  AllTabsOK'
  BY <1>2, OpenKeeps, PageEndsKeeps, SendKeeps, RenderKeeps, ResizeKeeps DEF PageStep
<1>3. CASE UNCHANGED vars
  <2>1. UNCHANGED versions /\ UNCHANGED tab /\ UNCHANGED win /\ UNCHANGED timer /\ UNCHANGED cli
    BY <1>3 DEF vars, cliVars, tabVars
  <2>2. \A q \in Recordings : Grown(q)
    BY <2>1, SameGrows DEF AllTabsOK
  <2>3. \A t \in Tabs : TabOK(t)'
    BY <2>1, <2>2, TabUntouched DEF AllTabsOK
  <2> QED BY <2>1, <2>3 DEF AllTabsOK, Shape
<1> QED BY <1>1, <1>2, <1>3 DEF Next

\* A chart that does not have the size of its window has a resize coming, in every
\* tab and whenever it was drawn, for any number of tabs and sizes.
THEOREM ChartsFollowWindow == Spec => []StaleSizePending
<1>1. AllTabsOK => StaleSizePending
  BY DEF AllTabsOK, TabOK, StaleSizePending
<1> QED BY <1>1, InitTabs, StepKeepsTabs, PTL DEF Spec

\* No page shows a report that was not complete on disk at some moment since the
\* page asked for it, however often and wherever the analyser is cut off.
THEOREM NothingTornShown == Spec => []ShownWasOnDisk
<1>1. AllTabsOK => ShownWasOnDisk
  BY DEF AllTabsOK, TabOK, ShownWasOnDisk, FromDisk, Shown
<1> QED BY <1>1, InitTabs, StepKeepsTabs, PTL DEF Spec

-----------------------------------------------------------------------------
(* A batch that returned 0.                                                *)

GoodOnDisk(r) == OnDisk(r) /\ Readable(Content(r))

\* What a batch is through with is good, unless it counts as failed; the exit code
\* of a run is not there before its end, and nothing is written after it.
BatchInv ==
    /\ Shape /\ BatchZeroIsComplete
    /\ cli.todo \subseteq Recordings
    /\ cli.pc = "write" => cli.report \in Reports
    /\ cli.pc # "off" => exit.mode = "none"
    /\ cli.pc # "off" /\ cli.mode = "batch" /\ ~cli.failed =>
         \A r \in Recordings \ cli.todo : GoodOnDisk(r)

\* The last version is the one appended; the other recordings are as they were.
LEMMA AppendIsContent ==
    ASSUME Shape, NEW r \in Recordings, NEW c \in OnDiskOnce,
           versions' = [versions EXCEPT ![r] = Append(@, c)]
    PROVE  /\ OnDisk(r)' /\ Content(r)' = c
           /\ \A q \in Recordings \ {r} : GoodOnDisk(q)' = GoodOnDisk(q)
<1>1. versions[r] \in Seq(OnDiskOnce) /\ versions \in [Recordings -> Seq(OnDiskOnce)]
  BY DEF Shape
<1>2. /\ Len(versions[r]) \in Nat
      /\ Len(Append(versions[r], c)) = Len(versions[r]) + 1
      /\ Append(versions[r], c)[Len(versions[r]) + 1] = c
  BY <1>1, AppendProperties
<1>3. versions'[r] = Append(versions[r], c) /\ \A q \in Recordings \ {r} : versions'[q] = versions[q]
  BY <1>1
<1> QED BY <1>2, <1>3 DEF OnDisk, Content, Last, GoodOnDisk

LEMMA ReportsReadable == \A c \in Reports : c \in OnDiskOnce /\ Readable(c)
<1>1. \A c \in Reports : c \in Contents /\ c.schema = 7 /\ Whole(c)
  BY ViewerAssumption DEF Contents
<1> QED BY <1>1 DEF OnDiskOnce, Readable, SCHEMA_OK

LEMMA StepKeepsBatch ==
    ASSUME BatchInv, Shape', [Next]_vars
    PROVE  BatchInv'
<1>0. /\ DOMAIN cli = {"pc", "mode", "force", "todo", "report", "failed"}
      /\ \A r \in Recordings : r \in cli.todo => cli.todo \ {r} \subseteq Recordings
  BY DEF BatchInv, Shape, NoRun
<1>1. ASSUME NEW mode, NEW recs \in SUBSET Recordings, NEW force, Analyse(mode, recs, force)
      PROVE  BatchInv'
  <2>1. /\ cli'.pc = "next" /\ cli'.todo = recs /\ cli'.mode = mode /\ exit'.mode = "none"
        /\ mode = "batch" => recs = Recordings
    BY <1>1 DEF Analyse, NoRun
  <2> QED BY <2>1 DEF BatchInv, BatchZeroIsComplete
<1>2. ASSUME NEW r \in Recordings, Skip(r)
      PROVE  BatchInv'
  <2>1. /\ cli.pc = "next" /\ cli'.pc = "next" /\ cli'.mode = cli.mode /\ cli'.todo = cli.todo \ {r}
        /\ cli'.failed = SkipFails(r) /\ versions' = versions /\ exit' = exit /\ OnDisk(r)
    BY <1>0, <1>2 DEF Skip, Now
  <2>2. cli.mode = "batch" /\ ~SkipFails(r) => ~cli.failed /\ GoodOnDisk(r)
    BY <2>1 DEF SkipFails, GoodOnDisk
  <2>3. \A q \in Recordings : GoodOnDisk(q)' = GoodOnDisk(q)
    BY <2>1 DEF GoodOnDisk, OnDisk, Content
  <2>4. cli'.mode = "batch" /\ ~cli'.failed => \A q \in Recordings \ cli'.todo : GoodOnDisk(q)'
    BY <2>1, <2>2, <2>3 DEF BatchInv
  <2> QED BY <1>0, <2>1, <2>4 DEF BatchInv, BatchZeroIsComplete
<1>3. ASSUME NEW r \in Recordings, CollectRaises(r) \/ WriteRaises(r)
      PROVE  BatchInv'
  <2>1. /\ cli.pc # "off" /\ cli'.pc = "next" /\ cli'.todo = cli.todo \ {r} /\ cli'.failed
        /\ exit' = exit
    BY <1>0, <1>3 DEF CollectRaises, WriteRaises, Now, Writing
  <2> QED BY <1>0, <2>1 DEF BatchInv, BatchZeroIsComplete
<1>4. ASSUME NEW r \in Recordings, NEW rep \in Reports, OpenReport(r, rep)
      PROVE  BatchInv'
  <2>1. /\ cli.pc = "next" /\ r \in cli.todo /\ exit' = exit
        /\ cli'.pc = "write" /\ cli'.report = rep
        /\ cli'.todo = cli.todo /\ cli'.mode = cli.mode /\ cli'.failed = cli.failed
    BY <1>0, <1>4 DEF OpenReport, Now
  <2>2. \A q \in Recordings \ {r} : GoodOnDisk(q)' = GoodOnDisk(q)
    BY <1>4, AppendIsContent DEF OpenReport, BatchInv, OnDiskOnce
  <2>3. cli'.mode = "batch" /\ ~cli'.failed => \A q \in Recordings \ cli'.todo : GoodOnDisk(q)'
    BY <2>1, <2>2 DEF BatchInv
  <2> QED BY <2>1, <2>3 DEF BatchInv, BatchZeroIsComplete
<1>5. ASSUME NEW r \in Recordings, CloseReport(r)
      PROVE  BatchInv'
  <2>1. /\ cli.pc = "write" /\ exit' = exit /\ cli'.pc = "next"
        /\ cli'.todo = cli.todo \ {r} /\ cli'.mode = cli.mode /\ cli'.failed = cli.failed
    BY <1>0, <1>5 DEF CloseReport, Writing
  <2>2. cli.report \in OnDiskOnce /\ Readable(cli.report)
    BY <2>1, ReportsReadable DEF BatchInv
  <2>3. GoodOnDisk(r)' /\ \A q \in Recordings \ {r} : GoodOnDisk(q)' = GoodOnDisk(q)
    <3>1. versions' = [versions EXCEPT ![r] = Append(@, cli.report)]
      BY <1>5 DEF CloseReport
    <3>2. OnDisk(r)' /\ Content(r)' = cli.report
      BY <2>2, <3>1, AppendIsContent DEF BatchInv
    <3>3. \A q \in Recordings \ {r} : GoodOnDisk(q)' = GoodOnDisk(q)
      BY <2>2, <3>1, AppendIsContent DEF BatchInv
    <3> QED BY <2>2, <3>2, <3>3 DEF GoodOnDisk, Readable, Whole
  <2>4. cli'.mode = "batch" /\ ~cli'.failed => \A q \in Recordings \ cli'.todo : GoodOnDisk(q)'
    BY <2>1, <2>3 DEF BatchInv
  <2> QED BY <1>0, <2>1, <2>4 DEF BatchInv, BatchZeroIsComplete
<1>6. CASE Return
  <2>1. /\ cli.pc = "next" /\ cli.todo = {} /\ versions' = versions
        /\ exit'.mode = cli.mode /\ exit'.code = (IF cli.failed THEN 1 ELSE 0)
        /\ cli'.pc = "off" /\ cli'.todo = {}
    BY <1>6 DEF Return, NoRun
  <2>2. \A q \in Recordings : GoodOnDisk(q)' = GoodOnDisk(q)
    BY <2>1 DEF GoodOnDisk, OnDisk, Content
  <2>3. exit'.mode = "batch" /\ exit'.code = 0 => \A q \in Recordings : GoodOnDisk(q)'
    BY <2>1, <2>2 DEF BatchInv
  <2> QED BY <2>1, <2>3 DEF BatchInv, BatchZeroIsComplete, GoodOnDisk
<1>7. CASE Kill
  <2>1. cli.pc # "off" /\ cli'.pc = "off" /\ cli'.todo = {} /\ exit' = exit
    BY <1>7 DEF Kill, NoRun
  <2> QED BY <2>1 DEF BatchInv, BatchZeroIsComplete
<1>8. CASE UNCHANGED cliVars
  BY <1>8 DEF cliVars, BatchInv, BatchZeroIsComplete, GoodOnDisk, OnDisk, Content
<1>9. ASSUME NEW t \in Tabs,
             \/ \E page \in {"index", "detail", "safety"}, r \in Recordings : Open(t, page, r)
             \/ PageStep(t) \/ NetFail(t)
             \/ \E w \in WinSizes : Resize(t, w)
             \/ ResizeTimer(t)
      PROVE  UNCHANGED cliVars
  BY <1>9 DEF Open, PageStep, NetFail, Resize, ResizeTimer, RenderIndex, NotFound, Send,
              ParseFails, Render, ScanReport
<1> QED
  BY <1>1, <1>2, <1>3, <1>4, <1>5, <1>6, <1>7, <1>8, <1>9 DEF Next, Analyser, vars

\* Whatever killed, failed and repeated runs had left on disk: after a batch that
\* returned 0 every recording has a report the viewer opens.
THEOREM BatchesAreComplete == Spec => []BatchZeroIsComplete
<1>1. Init => BatchInv
  BY InitShape DEF Init, NoRun, BatchInv, BatchZeroIsComplete
<1>2. AllTabsOK /\ BatchInv /\ [Next]_vars => BatchInv'
  BY StepKeepsTabs, StepKeepsBatch DEF AllTabsOK
<1>3. BatchInv => BatchZeroIsComplete
  BY DEF BatchInv
<1> QED BY <1>1, <1>2, <1>3, InitTabs, StepKeepsTabs, PTL DEF Spec

-----------------------------------------------------------------------------
(* The rows of the index and the pages they lead to.                       *)

\* The row the index had for version v of report r, and all rows there can be.
RowAt(r, v) ==
    [rec |-> r, ver |-> v, ok |-> Readable(versions[r][v]),
     cells |-> IF Readable(versions[r][v]) THEN Cells(Picked(versions[r][v])) ELSE None]
DiskRows == UNION {{RowAt(r, v) : v \in 1..Len(versions[r])} : r \in Recordings}

\* What a page knows: the version it was sent, or why it has none.
PageOK(t) ==
    LET r == tab[t].rec
        v == tab[t].ver
        known == v \in 1..Len(versions[r])
    IN
    /\ tab[t].rows \in Seq(DiskRows)
    /\ ReportPage(t) =>
         /\ r \in Recordings
         /\ tab[t].pc \in {"asked", "sent"} => tab[t].fail = "none"
         /\ tab[t].pc = "asked" => v = 0
         /\ tab[t].pc \in {"sent", "done"} /\ tab[t].fail = "none" =>
              known /\ versions[r][v] = tab[t].body
         /\ tab[t].pc = "done" =>
              /\ tab[t].fail \in {"none", "net", "http", "parse"}
              /\ tab[t].fail = "none" => Whole(tab[t].body)
              /\ tab[t].fail = "http" => v = 0
              /\ tab[t].fail = "parse" => known /\ ~Whole(versions[r][v])

AllPagesOK == AllTabsOK /\ \A t \in Tabs : PageOK(t)

\* Rows that were once true of the disk stay so: versions are only added.
LEMMA RowsStay ==
    ASSUME \A q \in Recordings : Grown(q), NEW rows \in Seq(DiskRows)
    PROVE  rows \in Seq(DiskRows')
<1>1. ASSUME NEW r \in Recordings, NEW v \in 1..Len(versions[r])
      PROVE  RowAt(r, v) \in DiskRows'
  <2>1. v \in 1..Len(versions'[r]) /\ versions'[r][v] = versions[r][v]
    BY DEF Grown
  <2>2. RowAt(r, v)' = RowAt(r, v)
    BY <2>1 DEF RowAt
  <2>3. RowAt(r, v)' \in {RowAt(r, u)' : u \in 1..Len(versions'[r])}
    BY <2>1
  <2> QED BY <2>2, <2>3 DEF DiskRows
<1>2. DiskRows \subseteq DiskRows'
  BY <1>1 DEF DiskRows
<1>3. Len(rows) \in Nat /\ rows \in [1..Len(rows) -> DiskRows]
  OBVIOUS
<1> HIDE DEF DiskRows
<1> QED BY <1>2, <1>3

LEMMA PageUntouched ==
    ASSUME NEW t \in Tabs, PageOK(t), \A q \in Recordings : Grown(q), tab'[t] = tab[t]
    PROVE  PageOK(t)'
<1>1. tab'[t].rows \in Seq(DiskRows')
  BY RowsStay DEF PageOK
<1>2. ASSUME NEW r \in Recordings, NEW v \in 1..Len(versions[r])
      PROVE  v \in 1..Len(versions'[r]) /\ versions'[r][v] = versions[r][v]
  BY DEF Grown
<1>3. ReportPage(t)' = ReportPage(t)
  BY DEF ReportPage
<1> QED BY <1>1, <1>2, <1>3 DEF PageOK

\* A step of tab t alone: the reports and the other pages are as they were.
TabAlone(t) == UNCHANGED cliVars /\ \A u \in Tabs \ {t} : tab'[u] = tab[u]

LEMMA TabAloneKeeps ==
    ASSUME AllPagesOK, AllTabsOK', NEW t \in Tabs, TabAlone(t), PageOK(t)'
    PROVE  AllPagesOK'
<1>1. \A q \in Recordings : Grown(q)
  BY SameGrows DEF AllPagesOK, AllTabsOK, TabAlone, cliVars
<1>2. \A u \in Tabs \ {t} : PageOK(u)'
  BY <1>1, PageUntouched DEF AllPagesOK, TabAlone
<1> QED BY <1>2 DEF AllPagesOK

LEMMA PageStepKeepsPages ==
    ASSUME AllPagesOK, NEW t \in Tabs,
           \/ \E page \in {"index", "detail", "safety"}, r \in Recordings : Open(t, page, r)
           \/ PageStep(t) \/ NetFail(t)
           \/ \E w \in WinSizes : Resize(t, w)
           \/ ResizeTimer(t)
    PROVE  PageOK(t)' /\ TabAlone(t)
<1> DEFINE old == tab[t]
<1>1. /\ DOMAIN old = DOMAIN Blank /\ old = [f \in DOMAIN Blank |-> old[f]]
      /\ PageOK(t) /\ tab = [u \in Tabs |-> tab[u]]
      /\ \A r \in Recordings : versions[r] \in Seq(OnDiskOnce) /\ Len(versions[r]) \in Nat
  BY LenProperties DEF AllPagesOK, AllTabsOK, Shape
<1>2. old.rows \in Seq(DiskRows) /\ <<>> \in Seq(DiskRows)
  BY <1>1, EmptySeq DEF PageOK
<1>3. ASSUME NEW new, tab' = [tab EXCEPT ![t] = new], UNCHANGED cliVars
      PROVE  /\ TabAlone(t) /\ tab'[t] = new /\ versions' = versions /\ DiskRows' = DiskRows
             /\ ReportPage(t)' = (new.page \in {"detail", "safety"})
  BY <1>1, <1>3 DEF TabAlone, cliVars, DiskRows, RowAt, ReportPage
<1>4. ASSUME NEW page \in {"index", "detail", "safety"}, NEW r \in Recordings, Open(t, page, r)
      PROVE  PageOK(t)' /\ TabAlone(t)
  <2> DEFINE new == IF page = "index" THEN [Blank EXCEPT !.page = page, !.pc = "asked", !.todo = Recordings]
                    ELSE [Blank EXCEPT !.page = page, !.pc = "asked", !.rec = r, !.rows = old.rows,
                                       !.asked = Len(versions[r])]
  <2>1. tab' = [tab EXCEPT ![t] = new] /\ UNCHANGED cliVars
    BY <1>4 DEF Open
  <2>2. /\ new.page = page /\ new.pc = "asked" /\ new.ver = 0 /\ new.fail = "none"
        /\ new.rows = (IF page = "index" THEN <<>> ELSE old.rows)
        /\ page # "index" => new.rec = r
    BY DEF Blank
  <2> HIDE DEF new, old
  <2> QED BY <1>2, <1>3, <2>1, <2>2 DEF PageOK
<1>5. ASSUME NEW why \in {"net", "http", "parse"}, Fail(t, why), UNCHANGED cliVars,
             why = "http" /\ ReportPage(t) => old.pc = "asked",
             why = "parse" /\ ReportPage(t) => old.pc = "sent" /\ ~Whole(old.body)
      PROVE  PageOK(t)' /\ TabAlone(t)
  <2> DEFINE new == [old EXCEPT !.pc = "done", !.fail = why, !.body = None]
  <2>1. tab' = [tab EXCEPT ![t] = new]
    BY <1>1, <1>5 DEF Fail
  <2>2. /\ new.page = old.page /\ new.rec = old.rec /\ new.rows = old.rows /\ new.ver = old.ver
        /\ new.pc = "done" /\ new.fail = why
    BY <1>1, BlankFields
  <2> HIDE DEF new
  <2>3. /\ TabAlone(t) /\ tab'[t] = new /\ versions' = versions /\ DiskRows' = DiskRows
        /\ ReportPage(t)' = ReportPage(t)
    BY <1>3, <1>5, <2>1, <2>2 DEF ReportPage
  <2> QED BY <1>1, <1>5, <2>2, <2>3 DEF PageOK
<1>6. CASE RenderIndex(t)
  <2> DEFINE new == [old EXCEPT !.pc = "done"]
  <2>1. tab' = [tab EXCEPT ![t] = new] /\ UNCHANGED cliVars /\ old.page = "index"
    BY <1>1, <1>6 DEF RenderIndex
  <2>2. new.page = old.page /\ new.rows = old.rows
    BY <1>1, BlankFields
  <2> HIDE DEF new
  <2> QED BY <1>2, <1>3, <2>1, <2>2 DEF PageOK
<1>7. ASSUME NEW r \in Recordings, ScanReport(t, r)
      PROVE  PageOK(t)' /\ TabAlone(t)
  <2> DEFINE rows == IF OnDisk(r) THEN Append(old.rows, Row(r)) ELSE old.rows
             new == [old EXCEPT !.todo = @ \ {r}, !.rows = rows]
  <2>1. OnDisk(r) => Row(r) \in DiskRows
    <3> SUFFICES ASSUME OnDisk(r) PROVE Row(r) \in DiskRows
      OBVIOUS
    <3>1. Len(versions[r]) \in 1..Len(versions[r])
      BY <1>1 DEF OnDisk
    <3>2. Row(r) = RowAt(r, Len(versions[r]))
      BY DEF Row, RowAt, Content, Last
    <3> QED BY <3>1, <3>2 DEF DiskRows
  <2>2. rows \in Seq(DiskRows)
    BY <1>2, <2>1, AppendProperties
  <2>3. tab' = [tab EXCEPT ![t] = new] /\ UNCHANGED cliVars /\ old.page = "index"
    <3>1. tab' = [tab EXCEPT ![t].todo = @ \ {r},
                             ![t].rows = IF OnDisk(r) THEN Append(@, Row(r)) ELSE @]
      BY <1>7 DEF ScanReport
    <3> QED BY <1>1, <1>7, <3>1, BlankFields DEF ScanReport
  <2>4. new.page = old.page /\ new.rows = rows
    <3> HIDE DEF rows
    <3> QED BY <1>1, BlankFields
  <2> HIDE DEF new, rows
  <2> QED BY <1>3, <2>2, <2>3, <2>4 DEF PageOK
<1>8. CASE Send(t)
  <2> DEFINE r == old.rec
             new == [old EXCEPT !.pc = "sent", !.ver = Len(versions[r]), !.body = Content(r)]
  <2>1. /\ tab' = [tab EXCEPT ![t] = new] /\ UNCHANGED cliVars
        /\ ReportPage(t) /\ OnDisk(r) /\ old.pc = "asked"
    BY <1>1, <1>8 DEF Send
  <2>2. /\ new.page = old.page /\ new.rec = r /\ new.rows = old.rows /\ new.fail = old.fail
        /\ new.pc = "sent" /\ new.ver = Len(versions[r]) /\ new.body = versions[r][Len(versions[r])]
    BY <1>1, BlankFields DEF Content, Last
  <2> HIDE DEF new
  <2>3. r \in Recordings /\ old.fail = "none"
    BY <1>1, <2>1 DEF PageOK
  <2>4. Len(versions[r]) \in 1..Len(versions[r])
    BY <1>1, <2>1, <2>3 DEF OnDisk
  <2> QED BY <1>2, <1>3, <2>1, <2>2, <2>3, <2>4 DEF PageOK
<1>9. CASE Render(t)
  <2> DEFINE sizes == [id \in Charts(Panels(tab[t].page, tab[t].body)) |-> win[t]]
             new == [old EXCEPT !.pc = "done", !.size = sizes]
  <2> HIDE DEF sizes
  <2>1. /\ tab' = [tab EXCEPT ![t] = new] /\ UNCHANGED cliVars
        /\ ReportPage(t) /\ old.pc = "sent" /\ Whole(old.body)
    BY <1>1, <1>9 DEF Render, sizes
  <2>2. /\ new.page = old.page /\ new.rec = old.rec /\ new.rows = old.rows /\ new.fail = old.fail
        /\ new.pc = "done" /\ new.ver = old.ver /\ new.body = old.body
    BY <1>1, BlankFields
  <2> HIDE DEF new
  <2> QED BY <1>1, <1>3, <2>1, <2>2 DEF PageOK
<1>10. ASSUME NEW w \in WinSizes, Resize(t, w)
       PROVE  PageOK(t)' /\ TabAlone(t)
  <2>1. tab' = [tab EXCEPT ![t] = old] /\ UNCHANGED cliVars
    BY <1>1, <1>10 DEF Resize
  <2> QED BY <1>1, <1>3, <2>1 DEF PageOK, ReportPage
<1>11. CASE ResizeTimer(t)
  <2> DEFINE sizes == [id \in DOMAIN tab[t].size |-> IF id \in Resized(t) THEN win[t] ELSE tab[t].size[id]]
             new == [old EXCEPT !.size = sizes]
  <2> HIDE DEF sizes
  <2>1. tab' = [tab EXCEPT ![t] = new] /\ UNCHANGED cliVars
    BY <1>1, <1>11 DEF ResizeTimer, sizes
  <2>2. /\ new.page = old.page /\ new.rec = old.rec /\ new.rows = old.rows /\ new.fail = old.fail
        /\ new.pc = old.pc /\ new.ver = old.ver /\ new.body = old.body
    BY <1>1, BlankFields
  <2> HIDE DEF new
  <2>3. /\ TabAlone(t) /\ tab'[t] = new /\ versions' = versions /\ DiskRows' = DiskRows
        /\ ReportPage(t)' = ReportPage(t)
    BY <1>3, <2>1, <2>2 DEF ReportPage
  <2> QED BY <1>1, <2>2, <2>3 DEF PageOK
<1>12. NetFail(t) \/ NotFound(t) \/ ParseFails(t) => PageOK(t)' /\ TabAlone(t)
  BY <1>5 DEF NetFail, NotFound, ParseFails
<1> QED BY <1>4, <1>6, <1>7, <1>8, <1>9, <1>10, <1>11, <1>12 DEF PageStep

LEMMA StepKeepsPages ==
    ASSUME AllPagesOK, [Next]_vars
    PROVE  AllPagesOK'
<1>1. AllTabsOK'
  BY StepKeepsTabs DEF AllPagesOK
<1>2. CASE Analyser \/ UNCHANGED vars
  <2>1. UNCHANGED tab
    BY <1>2 DEF Analyser, Analyse, Skip, CollectRaises, OpenReport, CloseReport, WriteRaises,
                Return, Kill, tabVars, vars
  <2>2. \A q \in Recordings : Grown(q)
    <3>1. \/ UNCHANGED versions
          \/ \E r \in Recordings : versions' = [versions EXCEPT ![r] = Append(@, Torn)]
          \/ \E r \in Recordings : cli.pc = "write" /\ versions' = [versions EXCEPT ![r] = Append(@, cli.report)]
      BY <1>2 DEF Analyser, Analyse, Skip, CollectRaises, OpenReport, CloseReport, WriteRaises,
                  Return, Kill, Writing, vars, cliVars
    <3>2. Torn \in OnDiskOnce
      BY DEF OnDiskOnce
    <3>3. Shape /\ (cli.pc = "write" => cli.report \in OnDiskOnce)
      BY DEF AllPagesOK, AllTabsOK, Shape
    <3> QED BY <3>1, <3>2, <3>3, AppendGrows, SameGrows
  <2> QED BY <1>1, <2>1, <2>2, PageUntouched DEF AllPagesOK
<1>3. ASSUME NEW t \in Tabs,
             \/ \E page \in {"index", "detail", "safety"}, r \in Recordings : Open(t, page, r)
             \/ PageStep(t) \/ NetFail(t)
             \/ \E w \in WinSizes : Resize(t, w)
             \/ ResizeTimer(t)
      PROVE  AllPagesOK'
  BY <1>1, <1>3, PageStepKeepsPages, TabAloneKeeps
<1> QED BY <1>2, <1>3 DEF Next

\* A row the index called good leads to a page that opens and tells the same,
\* whatever other tabs, lost answers and the analyser did in between, as long as
\* the page was sent the version the row was made from.
THEOREM RowsAreTrue == Spec => []RowHolds
<1>1. Init => AllPagesOK
  <2> SUFFICES ASSUME Init PROVE AllPagesOK
    OBVIOUS
  <2>1. \A t \in Tabs : tab[t] = Blank
    BY DEF Init
  <2>2. Blank.page = "none" /\ Blank.rows = <<>> /\ <<>> \in Seq(DiskRows)
    BY EmptySeq DEF Blank
  <2>3. \A t \in Tabs : PageOK(t)
    BY <2>1, <2>2 DEF PageOK, ReportPage
  <2> QED BY <2>3, InitTabs DEF AllPagesOK
<1>2. AllPagesOK => RowHolds
  <2> SUFFICES ASSUME AllPagesOK, NEW t \in Tabs, NEW k \in DOMAIN tab[t].rows,
                      tab[t].rows[k].ok, ReportPage(t), tab[t].pc = "done", tab[t].fail # "net",
                      tab[t].rec = tab[t].rows[k].rec, tab[t].ver = tab[t].rows[k].ver
               PROVE  /\ tab[t].fail = "none" /\ Summary(tab[t].body) = tab[t].rows[k].cells
                      /\ SafetySummary(tab[t].body).duration = tab[t].rows[k].cells.duration
    BY DEF RowHolds
  <2> DEFINE row == tab[t].rows[k]
  <2>1. PageOK(t)
    BY DEF AllPagesOK
  <2>2. row \in DiskRows
    <3>1. tab[t].rows \in Seq(DiskRows)
      BY <2>1 DEF PageOK
    <3> HIDE DEF DiskRows
    <3> QED BY <3>1
  <2>3. PICK r \in Recordings : \E u \in 1..Len(versions[r]) : row = RowAt(r, u)
    BY <2>2 DEF DiskRows
  <2> PICK v \in 1..Len(versions[r]) : row = RowAt(r, v)
    BY <2>3
  <2>4. /\ r = tab[t].rec /\ v = tab[t].ver /\ v # 0 /\ Readable(versions[r][v])
        /\ row.cells = Cells(Picked(versions[r][v]))
    BY DEF RowAt
  <2>5. tab[t].fail = "none" /\ versions[r][v] = tab[t].body
    BY <2>1, <2>4 DEF PageOK, Readable
  <2>6. ASSUME NEW rep
        PROVE  /\ Cells(Picked(rep)) = Summary(rep)
               /\ Cells(Picked(rep)).duration = SafetySummary(rep).duration
    BY DEF Cells, Picked, Summary, SafetySummary
  <2> QED BY <2>4, <2>5, <2>6
<1>3. AllPagesOK /\ [Next]_vars => AllPagesOK'
  BY StepKeepsPages
<1> QED BY <1>1, <1>2, <1>3, PTL DEF Spec

-----------------------------------------------------------------------------
(* What Kept keeps.                                                        *)

\* The numbers are well-founded.
LEMMA LeastIs ==
    ASSUME NEW S \in SUBSET Nat, S # {}
    PROVE  \E x \in S : \A y \in S : x <= y
<1> DEFINE R == {p \in Nat \X Nat : p[1] < p[2]}
<1>1. IsWellFoundedOn(R, Nat)
  BY NatLessThanWellFounded, SMT DEF OpToRel
<1> HIDE DEF R
<1>2. PICK x \in S : \A y \in S : <<y, x>> \notin R
  BY <1>1, WFMin
<1>3. \A y \in S : ~(y < x)
  BY <1>2 DEF R
<1> QED BY <1>3

\* Induction over a set of numbers: its least missing one has no predecessor in it.
LEMMA SetInduction ==
    ASSUME NEW T \in SUBSET Nat, 0 \in T, \A n \in T : n + 1 \in T
    PROVE  T = Nat
<1> DEFINE Rest == Nat \ T
<1>1. ASSUME Rest # {}
      PROVE  FALSE
  <2> HIDE DEF Rest
  <2>1. Rest \subseteq Nat
    BY DEF Rest
  <2>2. PICK x \in Rest : \A y \in Rest : x <= y
    BY <1>1, <2>1, LeastIs
  <2>3. x \in Nat \ {0}
    BY DEF Rest
  <2>4. x - 1 \in Nat /\ ~(x <= x - 1) /\ x = (x - 1) + 1
    BY <2>3
  <2>5. x - 1 \notin T
    BY <2>2, <2>4 DEF Rest
  <2> QED BY <2>2, <2>4, <2>5 DEF Rest
<1> QED BY <1>1

LEMMA MaxIs ==
    ASSUME NEW n \in Nat, NEW S, S \subseteq 1..n, S # {}
    PROVE  Max(S) \in S
<1> DEFINE D == {n - x : x \in S}
<1>1. D \subseteq Nat /\ D # {}
  <2>1. \A x \in S : x \in 1..n
    OBVIOUS
  <2>2. \A x \in 1..n : n - x \in Nat
    OBVIOUS
  <2> QED BY <2>1, <2>2
<1> HIDE DEF D
<1>2. PICK d \in D : \A e \in D : d <= e
  BY <1>1, LeastIs
<1>3. PICK x \in S : d = n - x
  BY <1>2 DEF D
<1>4. \A y \in S : x >= y
  <2> TAKE y \in S
  <2>1. n - y \in D
    BY DEF D
  <2>2. n - x <= n - y
    BY <1>2, <1>3, <2>1
  <2> QED BY <2>2
<1> QED BY <1>4 DEF Max

\* A sequence, of whatever elements.
IsList(s) == s \in Seq(ToSet(s))

LEMMA ListIs ==
    ASSUME NEW s, IsList(s)
    PROVE  /\ Len(s) \in Nat /\ DOMAIN s = 1..Len(s) /\ \A i \in 1..Len(s) : s[i] \in ToSet(s)
           /\ s = [i \in 1..Len(s) |-> s[i]]
<1>1. Len(s) \in Nat /\ s \in [1..Len(s) -> ToSet(s)]
  BY DEF IsList
<1> QED BY <1>1

LEMMA SeqIsList ==
    ASSUME NEW S, NEW s \in Seq(S)
    PROVE  IsList(s)
<1>1. s \in [1..Len(s) -> S] /\ Len(s) \in Nat
  OBVIOUS
<1>2. s \in [1..Len(s) -> ToSet(s)]
  BY <1>1 DEF ToSet
<1> QED BY <1>1, <1>2 DEF IsList

\* The places of keep up to n.
UpTo(keep, n) == {i \in keep : i <= n}

LEMMA UpToNext ==
    ASSUME NEW keep, keep \subseteq Nat \ {0}, IsFiniteSet(keep), NEW n \in Nat, NEW k, k = n + 1
    PROVE  /\ IsFiniteSet(UpTo(keep, n)) /\ Cardinality(UpTo(keep, n)) \in Nat
           /\ k \in keep => Cardinality(UpTo(keep, k)) = Cardinality(UpTo(keep, n)) + 1
           /\ k \notin keep => UpTo(keep, k) = UpTo(keep, n)
<1>1. UpTo(keep, n) \subseteq keep
  BY DEF UpTo
<1>2. IsFiniteSet(UpTo(keep, n)) /\ Cardinality(UpTo(keep, n)) \in Nat
  BY <1>1, FS_Subset, FS_CardinalityType
<1>3. ASSUME k \in keep
      PROVE  Cardinality(UpTo(keep, k)) = Cardinality(UpTo(keep, n)) + 1
  <2>1. UpTo(keep, k) = UpTo(keep, n) \cup {k} /\ k \notin UpTo(keep, n)
    <3>1. \A i \in keep : (i <= k <=> i <= n \/ i = k) /\ ~(k <= n)
      OBVIOUS
    <3> QED BY <1>3, <3>1 DEF UpTo
  <2> QED BY <1>2, <2>1, FS_AddElement
<1>4. ASSUME k \notin keep
      PROVE  UpTo(keep, k) = UpTo(keep, n)
  <2>1. \A i \in keep : i <= k <=> i <= n
    BY <1>4
  <2> QED BY <2>1 DEF UpTo
<1> QED BY <1>2, <1>3, <1>4

LEMMA UpToEnds ==
    ASSUME NEW m \in Nat, NEW keep, keep \subseteq 1..m
    PROVE  UpTo(keep, 0) = {} /\ Cardinality(UpTo(keep, 0)) = 0 /\ UpTo(keep, m) = keep
<1>1. \A i \in keep : ~(i <= 0) /\ i <= m
  OBVIOUS
<1>2. UpTo(keep, 0) = {} /\ UpTo(keep, m) = keep
  BY <1>1 DEF UpTo
<1> QED BY <1>2, FS_EmptySet

\* The recursion of Kept, up to n.
Keeping(f, s, keep, n) ==
    f = [k \in 0..n |-> IF k = 0 THEN <<>>
                        ELSE IF k \in keep THEN Append(f[k - 1], s[k]) ELSE f[k - 1]]

LEMMA KeepingExists ==
    ASSUME NEW s, NEW keep, NEW n \in Nat
    PROVE  \E f : Keeping(f, s, keep, n)
<1> DEFINE T == {m \in Nat : \E f : Keeping(f, s, keep, m)}
<1>1. 0 \in T
  <2> DEFINE f == [k \in 0..0 |-> <<>>]
  <2>1. Keeping(f, s, keep, 0)
    BY DEF Keeping
  <2> HIDE DEF f
  <2> QED BY <2>1
<1>2. ASSUME NEW m \in T
      PROVE  m + 1 \in T
  <2>1. PICK f : Keeping(f, s, keep, m)
    OBVIOUS
  <2> DEFINE last == IF m + 1 \in keep THEN Append(f[m], s[m + 1]) ELSE f[m]
             g == [k \in 0..(m + 1) |-> IF k = m + 1 THEN last ELSE f[k]]
  <2> HIDE DEF last
  <2>2. \A k \in 0..(m + 1) : k \in 0..m \/ k = m + 1
    OBVIOUS
  <2>3. ASSUME NEW k \in 0..(m + 1)
        PROVE  g[k] = IF k = 0 THEN <<>>
                      ELSE IF k \in keep THEN Append(g[k - 1], s[k]) ELSE g[k - 1]
    <3>1. CASE k = m + 1
      <4>1. k # 0 /\ k - 1 = m /\ g[k] = last /\ g[m] = f[m]
        BY <3>1
      <4> QED BY <3>1, <4>1 DEF last
    <3>2. CASE k \in 0..m
      <4>1. g[k] = f[k] /\ (k # 0 => k - 1 \in 0..(m + 1) /\ k - 1 # m + 1)
        BY <3>2
      <4>2. k # 0 => g[k - 1] = f[k - 1]
        BY <4>1
      <4>3. f[k] = IF k = 0 THEN <<>>
                   ELSE IF k \in keep THEN Append(f[k - 1], s[k]) ELSE f[k - 1]
        BY <2>1, <3>2 DEF Keeping
      <4> HIDE DEF g
      <4> QED BY <4>1, <4>2, <4>3
    <3> QED BY <2>2, <3>1, <3>2
  <2>4. g = [k \in 0..(m + 1) |-> g[k]]
    OBVIOUS
  <2> HIDE DEF g
  <2>5. Keeping(g, s, keep, m + 1)
    BY <2>3, <2>4 DEF Keeping
  <2> QED BY <2>5
<1> HIDE DEF T
<1>3. T = Nat
  <2>1. T \in SUBSET Nat
    BY DEF T
  <2> QED BY <1>1, <1>2, <2>1, SetInduction
<1> QED BY <1>3 DEF T

\* g has the elements of s at the places of keep up to n, each at its own place.
HasPlaces(g, s, keep, n) ==
    /\ g \in Seq(ToSet(s)) /\ Len(g) = Cardinality(UpTo(keep, n))
    /\ \A i \in UpTo(keep, n) : Place(i, keep) \in 1..Len(g) /\ g[Place(i, keep)] = s[i]
    /\ \A k \in 1..Len(g) : \E i \in UpTo(keep, n) : Place(i, keep) = k

LEMMA KeptIs ==
    ASSUME NEW s, IsList(s), NEW keep \in SUBSET (1..Len(s))
    PROVE  /\ Kept(s, keep) \in Seq(ToSet(s)) /\ Len(Kept(s, keep)) = Cardinality(keep)
           /\ Cardinality(keep) \in Nat
           /\ \A i \in keep : /\ Place(i, keep) \in 1..Cardinality(keep)
                              /\ Kept(s, keep)[Place(i, keep)] = s[i]
           /\ \A k \in 1..Cardinality(keep) : \E i \in keep : Place(i, keep) = k
<1> PICK m \in Nat : m = Len(s)
  BY ListIs
<1> DEFINE f == CHOOSE f : Keeping(f, s, keep, m)
<1>1. Kept(s, keep) = f[m]
  BY DEF Kept, Keeping
<1>2. Keeping(f, s, keep, m)
  BY KeepingExists
<1> HIDE DEF f
<1>3. \A i \in 1..m : s[i] \in ToSet(s)
  BY ListIs
<1>0. keep \subseteq 1..m /\ keep \subseteq Nat \ {0} /\ IsFiniteSet(keep)
  <2>1. keep \subseteq 1..m /\ keep \subseteq Nat \ {0}
    OBVIOUS
  <2>2. IsFiniteSet(1..m)
    BY FS_Interval
  <2> QED BY <2>1, <2>2, FS_Subset
<1>4. ASSUME NEW n \in Nat, NEW k, k = n + 1
      PROVE  /\ IsFiniteSet(UpTo(keep, n)) /\ Cardinality(UpTo(keep, n)) \in Nat
             /\ k \in keep => Cardinality(UpTo(keep, k)) = Cardinality(UpTo(keep, n)) + 1
             /\ k \notin keep => UpTo(keep, k) = UpTo(keep, n)
  BY <1>0, <1>4, UpToNext
<1>5. UpTo(keep, 0) = {} /\ Cardinality(UpTo(keep, 0)) = 0 /\ UpTo(keep, m) = keep
  BY <1>0, UpToEnds
<1> DEFINE T == {n \in Nat : n <= m => HasPlaces(f[n], s, keep, n)}
<1>6. 0 \in T
  <2>1. f[0] = <<>>
    BY <1>2 DEF Keeping
  <2>2. <<>> \in Seq(ToSet(s)) /\ Len(<<>>) = 0 /\ 1..0 = {}
    OBVIOUS
  <2>3. HasPlaces(<<>>, s, keep, 0)
    BY <1>5, <2>2 DEF HasPlaces
  <2> QED BY <2>1, <2>3
<1>7. ASSUME NEW n \in T
      PROVE  n + 1 \in T
  <2> SUFFICES ASSUME n + 1 <= m
               PROVE  HasPlaces(f[n + 1], s, keep, n + 1)
    OBVIOUS
  <2>1. HasPlaces(f[n], s, keep, n) /\ n \in Nat
    OBVIOUS
  <2>2. f[n + 1] = IF n + 1 \in keep THEN Append(f[n], s[n + 1]) ELSE f[n]
    <3>1. n + 1 \in 0..m /\ n + 1 # 0 /\ (n + 1) - 1 = n
      BY <2>1
    <3> QED BY <1>2, <3>1 DEF Keeping
  <2>3. CASE n + 1 \notin keep
    BY <1>4, <2>1, <2>2, <2>3 DEF HasPlaces
  <2>4. CASE n + 1 \in keep
    <3> PICK g, h : g = f[n] /\ h = f[n + 1]
      OBVIOUS
    <3>1. g \in Seq(ToSet(s)) /\ s[n + 1] \in ToSet(s) /\ h = Append(g, s[n + 1]) /\ Len(g) \in Nat
      BY <1>3, <2>1, <2>2, <2>4 DEF HasPlaces
    <3>2. /\ h \in Seq(ToSet(s)) /\ Len(h) = Len(g) + 1
          /\ \A k \in 1..Len(g) : h[k] = g[k]
          /\ h[Len(g) + 1] = s[n + 1]
      BY <3>1, AppendProperties
    <3>3. Len(g) = Cardinality(UpTo(keep, n)) /\ Len(h) = Cardinality(UpTo(keep, n + 1))
      BY <1>4, <2>1, <2>4, <3>2 DEF HasPlaces
    <3>4. Place(n + 1, keep) = Len(g) + 1
      BY <3>2, <3>3 DEF Place, UpTo
    <3>5. \A i \in UpTo(keep, n + 1) : i \in UpTo(keep, n) \/ i = n + 1
      BY <2>1 DEF UpTo
    <3>6. n + 1 \in UpTo(keep, n + 1) /\ \A i \in UpTo(keep, n) : i \in UpTo(keep, n + 1)
      BY <2>1, <2>4 DEF UpTo
    <3>7. \A i \in UpTo(keep, n) : Place(i, keep) \in 1..Len(g) /\ g[Place(i, keep)] = s[i]
      BY <2>1 DEF HasPlaces
    <3>8. \A i \in UpTo(keep, n + 1) : Place(i, keep) \in 1..Len(h) /\ h[Place(i, keep)] = s[i]
      <4> SUFFICES ASSUME NEW i \in UpTo(keep, n + 1)
                   PROVE  Place(i, keep) \in 1..Len(h) /\ h[Place(i, keep)] = s[i]
        OBVIOUS
      <4>1. CASE i = n + 1
        BY <3>1, <3>2, <3>4, <4>1
      <4>2. CASE i \in UpTo(keep, n)
        <5>1. Place(i, keep) \in 1..Len(g) /\ g[Place(i, keep)] = s[i]
          BY <3>7, <4>2
        <5>2. Place(i, keep) \in 1..Len(h)
          BY <3>1, <3>2, <5>1
        <5> QED BY <3>2, <5>1, <5>2
      <4> QED BY <3>5, <4>1, <4>2
    <3>9. \A k \in 1..Len(h) : \E i \in UpTo(keep, n + 1) : Place(i, keep) = k
      <4> SUFFICES ASSUME NEW k \in 1..Len(h)
                   PROVE  \E i \in UpTo(keep, n + 1) : Place(i, keep) = k
        OBVIOUS
      <4>1. k \in 1..Len(g) \/ k = Len(g) + 1
        BY <3>1, <3>2
      <4>2. CASE k \in 1..Len(g)
        BY <2>1, <3>6, <4>2 DEF HasPlaces
      <4>3. CASE k = Len(g) + 1
        BY <3>4, <3>6, <4>3
      <4> QED BY <4>1, <4>2, <4>3
    <3> QED BY <3>2, <3>3, <3>8, <3>9 DEF HasPlaces
  <2> QED BY <2>3, <2>4
<1> HIDE DEF T
<1>8. T = Nat
  <2>1. T \in SUBSET Nat
    BY DEF T
  <2> QED BY <1>6, <1>7, <2>1, SetInduction
<1>9. HasPlaces(Kept(s, keep), s, keep, m)
  BY <1>1, <1>8 DEF T
<1> QED BY <1>4, <1>5, <1>9 DEF HasPlaces

-----------------------------------------------------------------------------
(* Lines drawn from a list of samples.                                     *)

\* The line has the points pts[i] of the places i in held, in their order.
Draws(line, pts, held) ==
    /\ line \in Seq({pts[i] : i \in held}) /\ Len(line) = Cardinality(held) /\ Cardinality(held) \in Nat
    /\ \A i \in held : Place(i, held) \in 1..Cardinality(held) /\ line[Place(i, held)] = pts[i]
    /\ \A k \in 1..Cardinality(held) : \E i \in held : Place(i, held) = k

\* A line made of a drawn one, point by point.
LEMMA DrawsMap ==
    ASSUME NEW a, NEW b, NEW p, NEW q, NEW held, Draws(a, p, held),
           b = [k \in DOMAIN a |-> b[k]],
           \A i \in held : \A k \in DOMAIN a : k = Place(i, held) => b[k] = q[i]
    PROVE  Draws(b, q, held)
<1> DEFINE Q == {q[i] : i \in held}
<1> PICK n \in Nat : n = Cardinality(held)
  BY DEF Draws
<1>1. DOMAIN a = 1..n
  BY DEF Draws
<1>2. \A i \in held : Place(i, held) \in 1..n /\ b[Place(i, held)] = q[i]
  BY <1>1 DEF Draws
<1>3. \A k \in 1..n : \E i \in held : Place(i, held) = k
  BY DEF Draws
<1>4. \A k \in 1..n : b[k] \in Q
  BY <1>2, <1>3
<1> HIDE DEF Q
<1>5. b \in [1..n -> Q]
  BY <1>1, <1>4
<1>6. b \in Seq(Q) /\ Len(b) = n
  BY <1>5
<1> QED BY <1>2, <1>3, <1>6 DEF Draws, Q

LEMMA KeptDraws ==
    ASSUME NEW s, IsList(s), NEW keep, keep \subseteq DOMAIN s
    PROVE  Draws(Kept(s, keep), s, keep) /\ Kept(s, keep) \in Seq(ToSet(s))
<1>1. keep \in SUBSET (1..Len(s))
  BY ListIs
<1> PICK n \in Nat : n = Cardinality(keep)
  BY <1>1, KeptIs
<1> DEFINE k == Kept(s, keep)
<1>2. /\ k \in Seq(ToSet(s)) /\ Len(k) = n
      /\ \A i \in keep : Place(i, keep) \in 1..n /\ k[Place(i, keep)] = s[i]
      /\ \A j \in 1..n : \E i \in keep : Place(i, keep) = j
  BY <1>1, KeptIs
<1> HIDE DEF k
<1> DEFINE Q == {s[i] : i \in keep}
<1>3. \A j \in 1..n : k[j] \in Q
  BY <1>2
<1> HIDE DEF Q
<1>4. k \in [1..n -> Q]
  BY <1>2, <1>3
<1>5. k \in Seq(Q)
  BY <1>4
<1> QED BY <1>2, <1>5 DEF Draws, Q, k

\* A function of the kept elements.
LEMMA KeptMapDraws ==
    ASSUME NEW s, IsList(s), NEW keep, keep \subseteq DOMAIN s, NEW line, NEW pts,
           line = [k \in DOMAIN Kept(s, keep) |-> line[k]],
           \A i \in keep : \A k \in DOMAIN Kept(s, keep) :
               Kept(s, keep)[k] = s[i] => line[k] = pts[i]
    PROVE  Draws(line, pts, keep)
<1>1. Draws(Kept(s, keep), s, keep)
  BY KeptDraws
<1>2. \A i \in keep : Kept(s, keep)[Place(i, keep)] = s[i]
  BY <1>1 DEF Draws
<1> QED BY <1>1, <1>2, DrawsMap

\* An empty line draws no place.
LEMMA DrawsNone ==
    ASSUME NEW line, NEW pts, NEW held, Draws(line, pts, held)
    PROVE  line = <<>> <=> held = {}
<1> PICK n \in Nat : n = Cardinality(held)
  BY DEF Draws
<1>1. n = 0 \/ 1 \in 1..n
  OBVIOUS
<1>2. line = <<>> <=> n = 0
  BY EmptySeq DEF Draws
<1>3. held = {} => n = 0
  BY <1>1 DEF Draws
<1>4. n = 0 => held = {}
  <2>1. 1..0 = {}
    OBVIOUS
  <2> QED BY <2>1 DEF Draws
<1> QED BY <1>2, <1>3, <1>4

LEMMA GivenPlaces ==
    ASSUME NEW s, NEW key
    PROVE  Given(s, key) \subseteq DOMAIN s
BY DEF Given

LEMMA PickDraws ==
    ASSUME NEW s, IsList(s), NEW key
    PROVE  Draws(SafPick(s, key), [i \in DOMAIN s |-> <<s[i].rel_ms, s[i][key]>>], Given(s, key))
<1> DEFINE keep == Given(s, key)
           kept == Kept(s, keep)
           line == [k \in DOMAIN kept |-> <<kept[k].rel_ms, kept[k][key]>>]
           pts == [i \in DOMAIN s |-> <<s[i].rel_ms, s[i][key]>>]
<1>1. keep \subseteq DOMAIN s
  BY GivenPlaces
<1>2. \A i \in keep : \A k \in DOMAIN kept : kept[k] = s[i] => line[k] = pts[i]
  BY <1>1
<1>3. SafPick(s, key) = line /\ line = [k \in DOMAIN kept |-> line[k]]
  BY DEF SafPick
<1> HIDE DEF line, pts, keep
<1>4. Draws(line, pts, keep)
  BY <1>1, <1>2, <1>3, KeptMapDraws
<1> QED BY <1>3, <1>4 DEF pts, keep

LEMMA FlagDraws ==
    ASSUME NEW s, IsList(s), NEW key
    PROVE  Draws(PickFlag(s, key), [i \in DOMAIN s |-> <<s[i].rel_ms, IF s[i][key] THEN 1 ELSE 0>>],
                 Given(s, key))
<1> DEFINE keep == Given(s, key)
           kept == Kept(s, keep)
           line == [k \in DOMAIN kept |-> <<kept[k].rel_ms, IF kept[k][key] THEN 1 ELSE 0>>]
           pts == [i \in DOMAIN s |-> <<s[i].rel_ms, IF s[i][key] THEN 1 ELSE 0>>]
<1>1. keep \subseteq DOMAIN s
  BY GivenPlaces
<1>2. \A i \in keep : \A k \in DOMAIN kept : kept[k] = s[i] => line[k] = pts[i]
  BY <1>1
<1>3. PickFlag(s, key) = line /\ line = [k \in DOMAIN kept |-> line[k]]
  BY DEF PickFlag
<1> HIDE DEF line, pts, keep
<1>4. Draws(line, pts, keep)
  BY <1>1, <1>2, <1>3, KeptMapDraws
<1> QED BY <1>3, <1>4 DEF pts, keep

LEMMA PlaceInAll ==
    ASSUME NEW n \in Nat, NEW i \in 1..n
    PROVE  Place(i, 1..n) = i
<1>1. {j \in 1..n : j <= i} = 1..i
  OBVIOUS
<1>2. Cardinality(1..i) = i
  BY FS_Interval
<1> QED BY <1>1, <1>2 DEF Place

LEMMA KeptAll ==
    ASSUME NEW s, IsList(s)
    PROVE  Kept(s, DOMAIN s) = s
<1>0. \A m \in Nat : Cardinality(1..m) = m
  BY FS_Interval
<1> PICK n \in Nat : n = Len(s)
  BY ListIs
<1> DEFINE k == Kept(s, DOMAIN s)
<1>1. DOMAIN s = 1..n /\ s = [i \in 1..n |-> s[i]]
  BY ListIs
<1>2. Cardinality(1..n) = n
  BY <1>0
<1>3. Draws(k, s, DOMAIN s)
  BY KeptDraws
<1> HIDE DEF k
<1>4. DOMAIN k = 1..n /\ k = [i \in 1..n |-> k[i]]
  BY <1>1, <1>2, <1>3 DEF Draws
<1>5. \A i \in 1..n : k[i] = s[i]
  <2> TAKE i \in 1..n
  <2>1. Place(i, 1..n) = i
    BY PlaceInAll
  <2> QED BY <1>1, <1>3, <2>1 DEF Draws
<1>6. k = s
  BY <1>1, <1>4, <1>5
<1> QED BY <1>6 DEF k

\* Picking from what was kept for having the value.
LEMMA PickKeptDraws ==
    ASSUME NEW s, IsList(s), NEW key, NEW keep, keep \subseteq Given(s, key)
    PROVE  Draws(SafPick(Kept(s, keep), key), [i \in DOMAIN s |-> <<s[i].rel_ms, s[i][key]>>], keep)
<1> DEFINE kept == Kept(s, keep)
           line == [k \in DOMAIN kept |-> <<kept[k].rel_ms, kept[k][key]>>]
           pts == [i \in DOMAIN s |-> <<s[i].rel_ms, s[i][key]>>]
<1>1. keep \subseteq DOMAIN s
  BY GivenPlaces
<1>2. Draws(kept, s, keep) /\ kept \in Seq(ToSet(s))
  BY <1>1, KeptDraws
<1>3. \A i \in keep : \A k \in DOMAIN kept : kept[k] = s[i] => line[k] = pts[i]
  BY <1>1
<1>4. \A k \in DOMAIN kept : kept[k][key] # None
  <2> HIDE DEF kept
  <2>1. \A k \in DOMAIN kept : \E i \in keep : kept[k] = s[i]
    BY <1>2 DEF Draws
  <2> QED BY <2>1 DEF Given
<1>5. IsList(kept)
  BY <1>2, SeqIsList
<1> HIDE DEF kept
<1>6. Given(kept, key) = DOMAIN kept
  BY <1>4 DEF Given
<1>7. Kept(kept, Given(kept, key)) = kept
  BY <1>5, <1>6, KeptAll
<1>8. SafPick(kept, key) = line /\ line = [k \in DOMAIN kept |-> line[k]]
  BY <1>7 DEF SafPick
<1> HIDE DEF line, pts
<1>9. Draws(line, pts, keep)
  BY <1>1, <1>3, <1>8, KeptMapDraws DEF kept
<1> QED BY <1>8, <1>9 DEF kept, pts

-----------------------------------------------------------------------------
(* What the points of a panel tell.                                        *)

\* The time of a tooltip, to the nearest second.
Near(time, relMs) == (60 * time.m + time.s) * 1000 - relMs \in -499..500

LEMMA SampleTime ==
    ASSUME NEW relMs, relMs \in Int
    PROVE  Near(FmtT(relMs), relMs)
<1> DEFINE s == (relMs + 500) \div 1000
<1>1. s \in Int /\ 1000 * s <= relMs + 500 /\ relMs + 500 < 1000 * s + 1000
  OBVIOUS
<1>2. FmtT(relMs).m = s \div 60 /\ FmtT(relMs).s = s % 60
  BY DEF FmtT
<1> HIDE DEF s
<1>3. 60 * (s \div 60) + (s % 60) = s
  BY <1>1
<1>4. 60 * FmtT(relMs).m + FmtT(relMs).s = s
  BY <1>2, <1>3
<1>5. s * 1000 - relMs \in -499..500
  BY <1>1
<1> QED BY <1>4, <1>5 DEF Near

\* The line a panel has for a field.
LineOf(panel, f) == IF f \in DOMAIN panel.lines THEN panel.lines[f] ELSE <<>>

LEMMA DrawnIs ==
    ASSUME NEW id, NEW f, NEW panel, NEW samples, NEW held, NEW pts,
           held = {i \in DOMAIN samples : Recorded(f, samples[i][f])},
           Draws(LineOf(panel, f), pts, held),
           \A i \in held : /\ samples[i].rel_ms \in Int /\ pts[i][1] = samples[i].rel_ms
                           /\ Named(id, panel, pts[i][2]) = Truth(id, f, samples[i][f])
    PROVE  FieldDrawn(id, f, panel, samples)
<1> DEFINE line == LineOf(panel, f)
<1>1. DOMAIN line = 1..Cardinality(held) /\ Cardinality(held) \in Nat
  BY DEF Draws
<1>2. Len(line) = Cardinality(held)
  <2> HIDE DEF line
  <2> QED BY <1>1
<1>3. ASSUME NEW i \in held
      PROVE  line[Place(i, held)] = pts[i]
  BY DEF Draws
<1>4. FieldDrawn(id, f, panel, samples) =
        (/\ Len(line) = Cardinality(held)
         /\ \A i \in held : /\ line[Place(i, held)][1] = samples[i].rel_ms
                             /\ Named(id, panel, line[Place(i, held)][2]) = Truth(id, f, samples[i][f]))
  BY DEF FieldDrawn, LineOf
<1> HIDE DEF line
<1> QED BY <1>2, <1>3, <1>4

LEMMA PlotIs ==
    ASSUME NEW lines, NEW lo, NEW hi, NEW p, p = Plot(lines, lo, hi)
    PROVE  /\ \/ p = NoData /\ ~p.shown /\ DOMAIN p.lines = {} /\ \A f \in DOMAIN lines : lines[f] = <<>>
              \/ p.shown /\ p.lines = lines /\ p.lo = lo /\ p.hi = hi
           /\ \A f \in DOMAIN lines : LineOf(p, f) = lines[f]
<1>1. CASE \A f \in DOMAIN lines : lines[f] = <<>>
  <2>1. p = NoData
    BY <1>1 DEF Plot
  <2>2. ~p.shown /\ DOMAIN p.lines = {}
    BY <2>1 DEF NoData
  <2> QED BY <1>1, <2>1, <2>2 DEF LineOf
<1>2. CASE ~(\A f \in DOMAIN lines : lines[f] = <<>>)
  <2>1. p.shown /\ p.lines = lines /\ p.lo = lo /\ p.hi = hi
    BY <1>2 DEF Plot, Chart
  <2> QED BY <2>1 DEF LineOf
<1> QED BY <1>1, <1>2

LEMMA TimedIs ==
    ASSUME NEW s, TimedList(s)
    PROVE  IsList(s) /\ \A i \in DOMAIN s : s[i] \in ToSet(s) /\ s[i].rel_ms \in Int
BY ListIs DEF TimedList, IsList

\* A field drawn as it is.
LEMMA PlainDrawn ==
    ASSUME NEW id, id \notin {"winddir", "drc", "hms", "stick"},
           NEW f, f \notin {"is_fixed", "down_work", "down_distance_mm", "up_distance_mm"},
           NEW samples, TimedList(samples), NEW panel, LineOf(panel, f) = SafPick(samples, f)
    PROVE  FieldDrawn(id, f, panel, samples)
<1> DEFINE held == {i \in DOMAIN samples : Recorded(f, samples[i][f])}
           pts == [i \in DOMAIN samples |-> <<samples[i].rel_ms, samples[i][f]>>]
<1>1. held = Given(samples, f) /\ held \subseteq DOMAIN samples
  BY DEF Given, Recorded
<1>2. Draws(LineOf(panel, f), pts, held)
  <2>1. Draws(SafPick(samples, f), pts, Given(samples, f))
    BY TimedIs, PickDraws
  <2> HIDE DEF pts, held
  <2> QED BY <1>1, <2>1
<1>3. ASSUME NEW i \in held
      PROVE  /\ samples[i].rel_ms \in Int /\ pts[i][1] = samples[i].rel_ms
             /\ Named(id, panel, pts[i][2]) = Truth(id, f, samples[i][f])
  <2>1. i \in DOMAIN samples /\ pts[i] = <<samples[i].rel_ms, samples[i][f]>>
    BY <1>1
  <2>2. Truth(id, f, samples[i][f]) = samples[i][f]
    BY DEF Truth
  <2>3. Named(id, panel, pts[i][2]) = samples[i][f]
    BY <2>1 DEF Named
  <2> QED BY <2>1, <2>2, <2>3, TimedIs
<1> HIDE DEF pts
<1> QED BY <1>2, <1>3, DrawnIs

\* A flag drawn as 1 or 0.
LEMMA FlagDrawn ==
    ASSUME NEW id, id \notin {"winddir", "drc", "hms", "stick"}, NEW f, f \in {"is_fixed", "down_work"},
           NEW samples, TimedList(samples), NEW panel, LineOf(panel, f) = PickFlag(samples, f)
    PROVE  FieldDrawn(id, f, panel, samples)
<1> DEFINE held == {i \in DOMAIN samples : Recorded(f, samples[i][f])}
           pts == [i \in DOMAIN samples |-> <<samples[i].rel_ms, IF samples[i][f] THEN 1 ELSE 0>>]
<1>1. held = Given(samples, f) /\ held \subseteq DOMAIN samples
  BY DEF Given, Recorded
<1>2. Draws(LineOf(panel, f), pts, held)
  <2>1. Draws(PickFlag(samples, f), pts, Given(samples, f))
    BY TimedIs, FlagDraws
  <2> HIDE DEF pts, held
  <2> QED BY <1>1, <2>1
<1>3. ASSUME NEW i \in held
      PROVE  /\ samples[i].rel_ms \in Int /\ pts[i][1] = samples[i].rel_ms
             /\ Named(id, panel, pts[i][2]) = Truth(id, f, samples[i][f])
  <2>1. i \in DOMAIN samples /\ pts[i] = <<samples[i].rel_ms, IF samples[i][f] THEN 1 ELSE 0>>
    BY <1>1
  <2>2. Truth(id, f, samples[i][f]) = IF samples[i][f] THEN 1 ELSE 0
    BY DEF Truth
  <2>3. Named(id, panel, pts[i][2]) = IF samples[i][f] THEN 1 ELSE 0
    BY <2>1 DEF Named
  <2> QED BY <2>1, <2>2, <2>3, TimedIs
<1> HIDE DEF pts
<1> QED BY <1>2, <1>3, DrawnIs

\* A distance, drawn where it is below its limit.
LEMMA DistanceDrawn ==
    ASSUME NEW id, id \in {"downdist", "around"}, NEW f, f \in {"down_distance_mm", "up_distance_mm"},
           NEW samples, TimedList(samples), NEW panel, NEW keep,
           keep = {i \in DOMAIN samples : Recorded(f, samples[i][f])},
           LineOf(panel, f) = SafPick(Kept(samples, keep), f)
    PROVE  FieldDrawn(id, f, panel, samples)
<1> DEFINE pts == [i \in DOMAIN samples |-> <<samples[i].rel_ms, samples[i][f]>>]
<1>1. keep \subseteq Given(samples, f) /\ keep \subseteq DOMAIN samples
  BY DEF Given, Recorded
<1>2. Draws(LineOf(panel, f), pts, keep)
  BY <1>1, TimedIs, PickKeptDraws
<1>3. ASSUME NEW i \in keep
      PROVE  /\ samples[i].rel_ms \in Int /\ pts[i][1] = samples[i].rel_ms
             /\ Named(id, panel, pts[i][2]) = Truth(id, f, samples[i][f])
  <2>1. i \in DOMAIN samples /\ pts[i] = <<samples[i].rel_ms, samples[i][f]>>
    BY <1>1
  <2>2. Truth(id, f, samples[i][f]) = samples[i][f]
    BY DEF Truth
  <2>3. Named(id, panel, pts[i][2]) = samples[i][f]
    BY <2>1 DEF Named
  <2> QED BY <2>1, <2>2, <2>3, TimedIs
<1> HIDE DEF pts
<1> QED BY <1>2, <1>3, DrawnIs

LEMMA WindDirDrawn ==
    ASSUME NEW samples, TimedList(samples)
    PROVE  FieldDrawn("winddir", "wind_direction", DrawWindDir(samples), samples)
<1> DEFINE id == "winddir"
           f == "wind_direction"
           panel == DrawWindDir(samples)
           held == {i \in DOMAIN samples : Recorded(f, samples[i][f])}
           pts == [i \in DOMAIN samples |-> <<samples[i].rel_ms, samples[i][f]>>]
<1>1. held = Given(samples, f) /\ held \subseteq DOMAIN samples
  BY DEF Given, Recorded
<1>2. LineOf(panel, f) = SafPick(samples, f)
  <2> DEFINE lines == [wind_direction |-> SafPick(samples, "wind_direction")]
  <2>1. f \in DOMAIN lines /\ lines[f] = SafPick(samples, f) /\ panel = Plot(lines, 1, 8)
    BY DEF DrawWindDir
  <2> HIDE DEF lines, panel
  <2> QED BY <2>1, PlotIs
<1> HIDE DEF panel
<1>3. Draws(LineOf(panel, f), pts, held)
  <2>1. Draws(SafPick(samples, f), pts, Given(samples, f))
    BY TimedIs, PickDraws
  <2> HIDE DEF pts, held
  <2> QED BY <1>1, <1>2, <2>1
<1>4. ASSUME NEW i \in held
      PROVE  /\ samples[i].rel_ms \in Int /\ pts[i][1] = samples[i].rel_ms
             /\ Named(id, panel, pts[i][2]) = Truth(id, f, samples[i][f])
  <2>1. i \in DOMAIN samples /\ pts[i] = <<samples[i].rel_ms, samples[i][f]>>
    BY <1>1
  <2>2. Truth(id, f, samples[i][f]) = WIND_DIR_CN[samples[i][f]]
    BY DEF Truth, WIND_DIR_CN
  <2>3. Named(id, panel, pts[i][2]) = WIND_DIR_CN[samples[i][f]]
    BY <2>1 DEF Named
  <2> QED BY <2>1, <2>2, <2>3, TimedIs
<1> HIDE DEF pts
<1>5. FieldDrawn(id, f, panel, samples)
  BY <1>3, <1>4, DrawnIs
<1> QED BY <1>5 DEF panel

LEMMA StickTravelIs ==
    ASSUME NEW v, v \in Int
    PROVE  /\ StickTravel(v) = IF v \notin 364..1684 THEN IF v < 364 THEN -660 ELSE 660 ELSE v - 1024
           /\ StickTravel(v) \in -660..660
<1> PICK w \in Int : w = v
  OBVIOUS
<1>1. CASE w < 364
  BY <1>1 DEF StickTravel, Greatest, Least
<1>2. CASE w > 1684
  BY <1>2 DEF StickTravel, Greatest, Least
<1>3. CASE w \in 364..1684
  BY <1>3 DEF StickTravel, Greatest, Least
<1> QED BY <1>1, <1>2, <1>3

LEMMA StickDrawn ==
    ASSUME NEW samples, TimedList(samples), NEW key, key \in {"roll", "pitch", "yaw", "throttle"},
           \A i \in DOMAIN samples : Maybe(samples[i][key], Int)
    PROVE  /\ FieldDrawn("stick", key, SafStick(samples), samples)
           /\ \A pt \in ToSet(LineOf(SafStick(samples), key)) : pt[2] \in -660..660
<1> DEFINE panel == SafStick(samples)
           picked == SafPick(samples, key)
           line == [i \in DOMAIN picked |-> <<picked[i][1], StickTravel(picked[i][2])>>]
           held == {i \in DOMAIN samples : Recorded(key, samples[i][key])}
           raw == [i \in DOMAIN samples |-> <<samples[i].rel_ms, samples[i][key]>>]
           pts == [i \in DOMAIN samples |-> <<samples[i].rel_ms, StickTravel(samples[i][key])>>]
<1>1. held = Given(samples, key) /\ held \subseteq DOMAIN samples
  BY DEF Given, Recorded
<1>2. Draws(picked, raw, held)
  <2>1. Draws(picked, raw, Given(samples, key))
    BY TimedIs, PickDraws
  <2> HIDE DEF held, raw, picked
  <2> QED BY <1>1, <2>1
<1>3. Draws(line, pts, held)
  <2>1. \A i \in held : \A k \in DOMAIN picked : k = Place(i, held) => line[k] = pts[i]
    <3> SUFFICES ASSUME NEW i \in held, NEW k \in DOMAIN picked, k = Place(i, held)
                 PROVE  line[k] = pts[i]
      OBVIOUS
    <3>1. picked[k] = raw[i]
      <4> HIDE DEF picked, raw, held
      <4> QED BY <1>2 DEF Draws
    <3>2. i \in DOMAIN samples
      BY <1>1
    <3> HIDE DEF picked, held
    <3> QED BY <3>1, <3>2
  <2>2. line = [k \in DOMAIN picked |-> line[k]]
    OBVIOUS
  <2> HIDE DEF picked, held, raw, line, pts
  <2> QED BY <1>2, <2>1, <2>2, DrawsMap
<1>4. LineOf(panel, key) = line
  <2> DEFINE norm(k) == LET p == SafPick(samples, k)
                        IN  [i \in DOMAIN p |-> <<p[i][1], StickTravel(p[i][2])>>]
             lines == [k \in {"roll", "pitch", "yaw", "throttle"} |-> norm(k)]
  <2>1. key \in DOMAIN lines /\ lines[key] = line /\ panel = Plot(lines, -660, 660)
    BY DEF SafStick
  <2> HIDE DEF lines, panel, line
  <2> QED BY <2>1, PlotIs
<1> HIDE DEF panel, line
<1>5. ASSUME NEW i \in held
      PROVE  /\ samples[i].rel_ms \in Int /\ pts[i][1] = samples[i].rel_ms
             /\ Named("stick", panel, pts[i][2]) = Truth("stick", key, samples[i][key])
             /\ pts[i][2] \in -660..660
  <2>1. i \in DOMAIN samples /\ pts[i] = <<samples[i].rel_ms, StickTravel(samples[i][key])>>
    BY <1>1
  <2> PICK v : v = samples[i][key]
    OBVIOUS
  <2>2. v \in Int
    BY <2>1 DEF Recorded, Maybe
  <2>3. Truth("stick", key, v) = StickTravel(v) /\ StickTravel(v) \in -660..660
    <3>1. Truth("stick", key, v) = IF v \notin 364..1684 THEN IF v < 364 THEN -660 ELSE 660 ELSE v - 1024
      BY DEF Truth
    <3> QED BY <2>2, <3>1, StickTravelIs
  <2>4. Named("stick", panel, pts[i][2]) = StickTravel(v)
    BY <2>1 DEF Named
  <2> QED BY <2>1, <2>3, <2>4, TimedIs
<1>6. Draws(LineOf(panel, key), pts, held)
  BY <1>3, <1>4
<1> HIDE DEF pts
<1>7. FieldDrawn("stick", key, panel, samples)
  BY <1>5, <1>6, DrawnIs
<1>8. \A pt \in ToSet(LineOf(panel, key)) : \E i \in held : pt = pts[i]
  <2> HIDE DEF held
  <2> QED BY <1>6 DEF Draws, ToSet
<1> QED BY <1>5, <1>7, <1>8 DEF panel

-----------------------------------------------------------------------------
(* The labels of the state panel.                                          *)

LabelIndex(labels, state) == SelectLastInSeq(labels, LAMBDA l : l = state) - 1

\* Every state that was picked has a label, and its index finds it.
LEMMA LabelFound ==
    ASSUME NEW pts, IsList(pts), NEW i \in DOMAIN pts
    PROVE  LET labels == Labels(pts)
               k == LabelIndex(labels, pts[i][2])
           IN  Len(labels) \in Nat /\ k \in 0..(Len(labels) - 1) /\ labels[k + 1] = pts[i][2]
<1> DEFINE v == pts[i][2]
           firsts == {j \in DOMAIN pts : \A h \in 1..(j - 1) : pts[h][2] # pts[j][2]}
           kept == Kept(pts, firsts)
           labels == [k \in DOMAIN kept |-> kept[k][2]]
           having == {j \in DOMAIN pts : pts[j][2] = v}
           at == {k \in 1..Len(labels) : labels[k] = v}
<1>1. DOMAIN pts = 1..Len(pts) /\ Len(pts) \in Nat
  BY ListIs
<1>2. PICK j \in having : \A h \in having : j <= h
  <2>1. having \subseteq Nat /\ i \in having
    BY <1>1
  <2> HIDE DEF having
  <2> QED BY <2>1, LeastIs
<1>3. j \in firsts
  <2>1. j \in DOMAIN pts /\ pts[j][2] = v /\ j \in 1..Len(pts)
    BY <1>1
  <2>2. ASSUME NEW h \in 1..(j - 1)
        PROVE  pts[h][2] # v
    <3>1. h \in DOMAIN pts /\ ~(j <= h)
      BY <1>1, <2>1
    <3> QED BY <1>2, <3>1
  <2> QED BY <2>1, <2>2
<1>4. Draws(kept, pts, firsts)
  <2>1. firsts \subseteq DOMAIN pts
    OBVIOUS
  <2> HIDE DEF firsts
  <2> QED BY <2>1, KeptDraws
<1> HIDE DEF firsts, kept
<1> PICK n \in Nat : n = Cardinality(firsts)
  BY <1>4 DEF Draws
<1>5. DOMAIN kept = 1..n /\ Len(labels) = n
  BY <1>4 DEF Draws
<1>6. Place(j, firsts) \in at
  <2>1. Place(j, firsts) \in 1..n /\ kept[Place(j, firsts)] = pts[j]
    BY <1>3, <1>4 DEF Draws
  <2>2. pts[j][2] = v
    OBVIOUS
  <2> QED BY <1>5, <2>1, <2>2
<1>7. at \subseteq 1..n
  BY <1>5
<1>8. Max(at) \in at
  <2> HIDE DEF at
  <2> QED BY <1>6, <1>7, MaxIs
<1>9. LabelIndex(labels, v) = Max(at) - 1
  <2> HIDE DEF labels, v
  <2> QED BY <1>6 DEF LabelIndex, SelectLastInSeq
<1>10. Labels(pts) = labels
  BY DEF Labels, kept, firsts
<1>11. /\ n \in Nat /\ Max(at) - 1 \in 0..(n - 1) /\ (Max(at) - 1) + 1 = Max(at)
       /\ labels[Max(at)] = v
  <2>1. Max(at) \in 1..n /\ labels[Max(at)] = v
    BY <1>5, <1>8
  <2> HIDE DEF at, labels
  <2> QED BY <2>1
<1> HIDE DEF at, labels
<1> QED BY <1>5, <1>9, <1>10, <1>11

LEMMA DrcDrawn ==
    ASSUME NEW samples, TimedList(samples), NEW panel, panel = SafDrc(samples)
    PROVE  /\ FieldDrawn("drc", "drc_state", panel, samples)
           /\ panel.shown => /\ panel.lo = 0 /\ DOMAIN panel.lines = {"drc_state"} /\ panel.hi \in Nat
                             /\ \A pt \in ToSet(panel.lines["drc_state"]) : pt[2] \in 0..panel.hi
           /\ ~panel.shown => DOMAIN panel.lines = {}
<1> DEFINE key == "drc_state"
           picked == SafPick(samples, key)
           labels == Labels(picked)
           index(state) == LabelIndex(labels, state)
           line == [i \in DOMAIN picked |-> <<picked[i][1], index(picked[i][2])>>]
           held == {i \in DOMAIN samples : Recorded(key, samples[i][key])}
           raw == [i \in DOMAIN samples |-> <<samples[i].rel_ms, samples[i][key]>>]
           pts == [i \in DOMAIN samples |-> <<samples[i].rel_ms, index(samples[i][key])>>]
<1>1. held = Given(samples, key) /\ held \subseteq DOMAIN samples
  BY DEF Given, Recorded
<1>2. Draws(picked, raw, held)
  <2>1. Draws(picked, raw, Given(samples, key))
    BY TimedIs, PickDraws
  <2> HIDE DEF held, raw, picked
  <2> QED BY <1>1, <2>1
<1>3. Draws(line, pts, held)
  <2>1. \A i \in held : \A k \in DOMAIN picked : k = Place(i, held) => line[k] = pts[i]
    <3> SUFFICES ASSUME NEW i \in held, NEW k \in DOMAIN picked, k = Place(i, held)
                 PROVE  line[k] = pts[i]
      OBVIOUS
    <3>1. picked[k] = raw[i]
      <4> HIDE DEF picked, raw, held
      <4> QED BY <1>2 DEF Draws
    <3>2. i \in DOMAIN samples
      BY <1>1
    <3> HIDE DEF picked, held, labels, index
    <3> QED BY <3>1, <3>2
  <2>2. line = [k \in DOMAIN picked |-> line[k]]
    OBVIOUS
  <2> HIDE DEF picked, held, raw, line, pts
  <2> QED BY <1>2, <2>1, <2>2, DrawsMap
<1>4. IsList(picked)
  <2> HIDE DEF picked, raw, held
  <2> QED BY <1>2, SeqIsList DEF Draws
<1>5. ASSUME NEW i \in held
      PROVE  /\ samples[i].rel_ms \in Int /\ pts[i][1] = samples[i].rel_ms
             /\ pts[i][2] \in 0..(Len(labels) - 1) /\ Len(labels) \in Nat
             /\ labels[pts[i][2] + 1] = samples[i][key]
  <2>1. i \in DOMAIN samples
    BY <1>1
  <2>2. PICK k \in DOMAIN picked : picked[k] = raw[i]
    <3> HIDE DEF picked, raw, held
    <3> QED BY <1>2 DEF Draws
  <2>3. picked[k][2] = samples[i][key]
    <3> HIDE DEF picked, held
    <3> QED BY <2>1, <2>2
  <2> HIDE DEF picked, held
  <2>4. /\ Len(labels) \in Nat /\ index(samples[i][key]) \in 0..(Len(labels) - 1)
        /\ labels[index(samples[i][key]) + 1] = samples[i][key]
    BY <1>4, <2>3, LabelFound
  <2> HIDE DEF labels, index
  <2>5. pts[i] = <<samples[i].rel_ms, index(samples[i][key])>>
    BY <2>1
  <2> QED BY <2>1, <2>4, <2>5, TimedIs
<1>6. picked = <<>> <=> held = {}
  <2> HIDE DEF picked, raw, held
  <2> QED BY <1>2, DrawsNone
<1>7. line = <<>> <=> held = {}
  <2> HIDE DEF line, pts, held
  <2> QED BY <1>3, DrawsNone
<1>8. CASE picked = <<>>
  <2>1. panel = NoData /\ DOMAIN panel.lines = {} /\ ~panel.shown
    <3>1. panel = NoData
      BY <1>8 DEF SafDrc
    <3> QED BY <3>1 DEF NoData
  <2>2. LineOf(panel, key) = line
    BY <1>6, <1>7, <1>8, <2>1 DEF LineOf
  <2> HIDE DEF line, pts
  <2>3. FieldDrawn("drc", key, panel, samples)
    BY <1>3, <1>6, <1>8, <2>2, DrawnIs
  <2> QED BY <2>1, <2>3
<1>9. CASE picked # <<>>
  <2>1. panel = [Chart([drc_state |-> line], 0, Greatest(1, Len(labels) - 1)) EXCEPT !.labels = labels]
    BY <1>9 DEF SafDrc, LabelIndex
  <2> HIDE DEF line, labels
  <2>2. /\ panel.shown /\ panel.lines = [drc_state |-> line] /\ panel.labels = labels
        /\ panel.lo = 0 /\ panel.hi = Greatest(1, Len(labels) - 1)
    BY <2>1 DEF Chart
  <2>3. LineOf(panel, key) = line
    BY <2>2 DEF LineOf
  <2>4. \A i \in held : Named("drc", panel, pts[i][2]) = Truth("drc", key, samples[i][key])
    BY <1>5, <2>2 DEF Named, Truth
  <2>5. FieldDrawn("drc", key, panel, samples)
    <3> HIDE DEF pts
    <3> QED BY <1>3, <1>5, <2>3, <2>4, DrawnIs
  <2>6. \A pt \in ToSet(line) : \E i \in held : pt = pts[i]
    <3> HIDE DEF pts, held
    <3> QED BY <1>3 DEF Draws, ToSet
  <2>7. ASSUME NEW pt \in ToSet(line)
        PROVE  panel.hi \in Nat /\ pt[2] \in 0..panel.hi
    <3>1. PICK n \in Nat : n = Len(labels)
      BY <1>5, <2>6, <2>7
    <3>2. pt[2] \in 0..(n - 1)
      BY <1>5, <2>6, <3>1
    <3>3. panel.hi = Greatest(1, n - 1)
      BY <2>2, <3>1
    <3> QED BY <3>2, <3>3 DEF Greatest
  <2>8. \E pt : pt \in ToSet(line)
    <3>1. PICK i \in held : TRUE
      BY <1>6, <1>9
    <3> HIDE DEF pts, held
    <3> QED BY <1>3 DEF Draws, ToSet
  <2> QED BY <2>2, <2>5, <2>7, <2>8
<1> QED BY <1>8, <1>9

LEMMA HeightDrawn ==
    ASSUME NEW samples, TimedList(samples), NEW transfers
    PROVE  FieldDrawn("height", "height_m", SafHeight(samples, transfers), samples)
<1> DEFINE panel == SafHeight(samples, transfers)
           picked == SafPick(samples, "height_m")
<1>1. LineOf(panel, "height_m") = picked
  <2>1. CASE picked = <<>>
    <3>1. panel = NoData
      BY <2>1 DEF SafHeight
    <3>2. DOMAIN panel.lines = {}
      BY <3>1 DEF NoData
    <3> QED BY <2>1, <3>2 DEF LineOf
  <2>2. CASE picked # <<>>
    <3>1. panel.lines = [height_m |-> picked]
      <4>1. \E m : panel = [Chart([height_m |-> picked], None, None) EXCEPT !.marks = m]
        BY <2>2 DEF SafHeight
      <4> HIDE DEF picked
      <4> QED BY <4>1 DEF Chart
    <3> HIDE DEF picked
    <3> QED BY <3>1 DEF LineOf
  <2> QED BY <2>1, <2>2
<1> QED BY <1>1, PlainDrawn

\* The text of an event is the one it should have.
LEMMA TextIs ==
    ASSUME NEW e
    PROVE  TextTold(e, HmsText(e.device, e.code))
<1> DEFINE pre == IF e.device = "dock" THEN "dock_tip" ELSE "fpv_tip"
           hex == e.code.hex
           official == {key \in HMS_TEXT : key[1] = pre /\ key[2] = hex}
           text == HmsText(e.device, e.code)
<1>1. text = IF <<pre, hex>> \in HMS_TEXT THEN <<pre, hex>>
             ELSE IF <<pre, hex, "in_the_sky">> \in HMS_TEXT THEN <<pre, hex, "in_the_sky">>
             ELSE IF hex \in HMS_TEXT_EXTRA THEN <<hex>>
             ELSE None
  BY DEF HmsText
<1>2. official # {} => <<pre, hex>> \in HMS_TEXT \/ <<pre, hex, "in_the_sky">> \in HMS_TEXT
  <2> HIDE DEF pre, hex
  <2> QED BY TextsAssumption
<1>3. /\ <<pre, hex>> \in HMS_TEXT => <<pre, hex>> \in official
      /\ <<pre, hex, "in_the_sky">> \in HMS_TEXT => <<pre, hex, "in_the_sky">> \in official
  <2> HIDE DEF pre, hex
  <2> QED OBVIOUS
<1>4. TextTold(e, text) = IF official # {} THEN text \in official
                          ELSE text = IF hex \in HMS_TEXT_EXTRA THEN <<hex>> ELSE None
  BY DEF TextTold
<1> HIDE DEF text, official, hex, pre
<1>5. TextTold(e, text)
  BY <1>1, <1>2, <1>3, <1>4
<1> QED BY <1>5 DEF text

\* What a tooltip tells of an event of level lv.
EventTold(tip, e, lv) ==
    /\ tip.level = <<"notice", "reminder", "warning">>[lv + 1]
    /\ tip.device = "dock" <=> e.device = "dock"
    /\ tip.code = e.code /\ tip.module = e.module
    /\ TextTold(e, tip.text)
    /\ Near(tip.time, e.rel_ms)

LEMMA HmsAreTold ==
    ASSUME NEW hms, TimedList(hms)
    PROVE  HmsTold(SafHms(hms), hms)
<1> DEFINE panel == SafHms(hms)
<1> SUFFICES ASSUME NEW lv \in 0..2
             PROVE  LET held == {i \in DOMAIN hms : hms[i].level = lv}
                        line == IF panel.shown THEN panel.lines[lv] ELSE <<>>
                    IN  /\ Len(line) = Cardinality(held)
                        /\ \A i \in held : EventTold(HmsTip(line[Place(i, held)]), hms[i], lv)
  BY DEF HmsTold, EventTold, Near
<1> DEFINE held == {i \in DOMAIN hms : hms[i].level = lv}
           kept == Kept(hms, held)
           drawn == [k \in DOMAIN kept |-> <<kept[k].rel_ms, lv, kept[k].code, kept[k].module, kept[k].device>>]
           pts == [i \in DOMAIN hms |-> <<hms[i].rel_ms, lv, hms[i].code, hms[i].module, hms[i].device>>]
           line == IF panel.shown THEN panel.lines[lv] ELSE <<>>
<1>1. held \subseteq DOMAIN hms /\ IsList(hms)
  BY TimedIs
<1>2. Draws(drawn, pts, held)
  <2>1. \A i \in held : \A k \in DOMAIN kept : kept[k] = hms[i] => drawn[k] = pts[i]
    <3> HIDE DEF kept
    <3> QED BY <1>1
  <2>2. drawn = [k \in DOMAIN kept |-> drawn[k]]
    OBVIOUS
  <2> HIDE DEF drawn, pts, held
  <2> QED BY <1>1, <2>1, <2>2, KeptMapDraws
<1>3. line = drawn
  <2>1. CASE hms = <<>>
    <3>1. ~panel.shown
      BY <2>1 DEF SafHms, NoData
    <3>2. held = {}
      BY <2>1
    <3>3. drawn = <<>>
      <4> HIDE DEF drawn, pts, held
      <4> QED BY <1>2, <3>2, DrawsNone
    <3> QED BY <3>1, <3>3
  <2>2. CASE hms # <<>>
    <3> DEFINE at(l) == LET k == Kept(hms, {i \in DOMAIN hms : hms[i].level = l})
                        IN  [i \in DOMAIN k |-> <<k[i].rel_ms, l, k[i].code, k[i].module, k[i].device>>]
    <3>1. panel = Chart([l \in 0..2 |-> at(l)], 0, 2)
      BY <2>2 DEF SafHms
    <3>2. at(lv) = drawn
      OBVIOUS
    <3> HIDE DEF at, drawn, panel
    <3> QED BY <3>1, <3>2 DEF Chart
  <2> QED BY <2>1, <2>2
<1> HIDE DEF drawn, line, panel
<1> PICK n \in Nat : n = Cardinality(held)
  BY <1>2 DEF Draws
<1>4. DOMAIN line = 1..n /\ Len(line) = n
  BY <1>2, <1>3 DEF Draws
<1>5. ASSUME NEW i \in held
      PROVE  EventTold(HmsTip(line[Place(i, held)]), hms[i], lv)
  <2>1. line[Place(i, held)] = pts[i]
    <3> HIDE DEF pts, held
    <3> QED BY <1>2, <1>3 DEF Draws
  <2>2. pts[i] = <<hms[i].rel_ms, lv, hms[i].code, hms[i].module, hms[i].device>>
        /\ hms[i].rel_ms \in Int
    BY TimedIs
  <2>3. /\ TextTold(hms[i], HmsText(hms[i].device, hms[i].code))
        /\ Near(FmtT(hms[i].rel_ms), hms[i].rel_ms)
    BY <2>2, TextIs, SampleTime
  <2> DEFINE tip == HmsTip(pts[i])
  <2> HIDE DEF pts, held
  <2>4. /\ tip.time = FmtT(hms[i].rel_ms) /\ tip.level = LV[lv + 1]
        /\ tip.device = (IF hms[i].device = "dock" THEN "dock" ELSE "drone")
        /\ tip.code = hms[i].code /\ tip.module = hms[i].module
        /\ tip.text = HmsText(hms[i].device, hms[i].code)
    BY <2>2 DEF HmsTip
  <2> HIDE DEF tip
  <2>5. EventTold(tip, hms[i], lv)
    BY <2>3, <2>4 DEF EventTold, LV
  <2> QED BY <2>1, <2>5 DEF tip
<1> HIDE DEF held
<1> QED BY <1>4, <1>5 DEF held, line, panel

\* What the points of a panel tell is what the report says.
PanelDrawn(id, panel, page, rep) ==
    /\ \A f \in Fields[id] : FieldDrawn(id, f, panel, Samples(id, page, rep))
    /\ id = "hms" => HmsTold(panel, rep.hms)

LEMMA DetailDrawn ==
    ASSUME NEW rep, Collected(rep), NEW panels, panels = DetailPanels(rep), NEW id \in DOMAIN panels
    PROVE  PanelDrawn(id, panels[id], "detail", rep)
<1> DEFINE s == rep.battery
<1>1. TimedList(s) /\ Samples(id, "detail", rep) = s
  BY DEF Collected, Samples
<1>2. id \in {"battery", "speed", "windspeed", "winddir"}
  BY DEF DetailPanels
<1>3. CASE id = "battery"
  <2>1. Fields[id] = {"percent"} /\ panels[id] = DrawBattery(s)
    BY <1>3 DEF Fields, DetailPanels
  <2>2. LineOf(DrawBattery(s), "percent") = SafPick(s, "percent")
    BY PlotIs DEF DrawBattery
  <2>3. FieldDrawn(id, "percent", panels[id], s)
    BY <1>1, <1>3, <2>1, <2>2, PlainDrawn
  <2> QED BY <1>1, <1>3, <2>1, <2>3 DEF PanelDrawn
<1>4. CASE id = "speed"
  <2>1. Fields[id] = {"horizontal_speed_ms", "vertical_speed_ms"} /\ panels[id] = DrawSpeed(s)
    BY <1>4 DEF Fields, DetailPanels
  <2>2. \A f \in Fields[id] : LineOf(DrawSpeed(s), f) = SafPick(s, f)
    BY <2>1, PlotIs DEF DrawSpeed
  <2>3. \A f \in Fields[id] : FieldDrawn(id, f, panels[id], s)
    BY <1>1, <1>4, <2>1, <2>2, PlainDrawn
  <2> QED BY <1>1, <1>4, <2>3 DEF PanelDrawn
<1>5. CASE id = "windspeed"
  <2>1. Fields[id] = {"wind_ms"} /\ panels[id] = DrawWindSpeed(s)
    BY <1>5 DEF Fields, DetailPanels
  <2>2. LineOf(DrawWindSpeed(s), "wind_ms") = SafPick(s, "wind_ms")
    BY PlotIs DEF DrawWindSpeed
  <2>3. FieldDrawn(id, "wind_ms", panels[id], s)
    BY <1>1, <1>5, <2>1, <2>2, PlainDrawn
  <2> QED BY <1>1, <1>5, <2>1, <2>3 DEF PanelDrawn
<1>6. CASE id = "winddir"
  <2>1. Fields[id] = {"wind_direction"} /\ panels[id] = DrawWindDir(s)
    BY <1>6 DEF Fields, DetailPanels
  <2> QED BY <1>1, <1>6, <2>1, WindDirDrawn DEF PanelDrawn
<1> QED BY <1>2, <1>3, <1>4, <1>5, <1>6

LEMMA RtkDrawn ==
    ASSUME NEW s, TimedList(s), NEW f \in {"gps_number", "rtk_number", "is_fixed"}
    PROVE  FieldDrawn("rtk", f, SafRtk(s), s)
<1>1. /\ f = "is_fixed" => LineOf(SafRtk(s), f) = PickFlag(s, f)
      /\ f # "is_fixed" => LineOf(SafRtk(s), f) = SafPick(s, f)
  BY PlotIs DEF SafRtk
<1>2. CASE f = "is_fixed"
  BY <1>1, <1>2, FlagDrawn
<1>3. CASE f # "is_fixed"
  BY <1>1, <1>3, PlainDrawn
<1> QED BY <1>2, <1>3

LEMMA DistancesDrawn ==
    ASSUME NEW s, TimedList(s), \A i \in DOMAIN s : Maybe(s[i].up_distance_mm, Int)
    PROVE  /\ FieldDrawn("downdist", "down_distance_mm", SafDownDist(s), s)
           /\ FieldDrawn("downstate", "down_work", SafDownState(s), s)
           /\ FieldDrawn("around", "up_distance_mm", SafAround(s), s)
<1>1. FieldDrawn("downdist", "down_distance_mm", SafDownDist(s), s)
  <2> DEFINE keep == {i \in DOMAIN s : Recorded("down_distance_mm", s[i]["down_distance_mm"])}
             valid == Kept(s, keep)
  <2>1. keep = {i \in Given(s, "down_distance_mm") : s[i].down_distance_mm < HSI_NA}
    BY DEF Recorded, Given, HSI_NA
  <2>2. LineOf(SafDownDist(s), "down_distance_mm") = SafPick(valid, "down_distance_mm")
    <3> DEFINE both == Kept(valid, Given(valid, "elevation_mm"))
               lines == [down_distance_mm |-> SafPick(valid, "down_distance_mm"),
                         diff |-> [i \in DOMAIN both |->
                           <<both[i].rel_ms, both[i].down_distance_mm - both[i].elevation_mm>>]]
    <3>1. SafDownDist(s) = Plot(lines, None, None)
      BY <2>1 DEF SafDownDist
    <3>2. "down_distance_mm" \in DOMAIN lines /\ lines["down_distance_mm"] = SafPick(valid, "down_distance_mm")
      OBVIOUS
    <3> HIDE DEF lines, valid
    <3> QED BY <3>1, <3>2, PlotIs
  <2> HIDE DEF keep
  <2> QED BY <2>2, DistanceDrawn DEF keep
<1>2. FieldDrawn("downstate", "down_work", SafDownState(s), s)
  <2>1. LineOf(SafDownState(s), "down_work") = PickFlag(s, "down_work")
    BY PlotIs DEF SafDownState
  <2> QED BY <2>1, FlagDrawn
<1>3. FieldDrawn("around", "up_distance_mm", SafAround(s), s)
  <2> DEFINE keep == {i \in DOMAIN s : Recorded("up_distance_mm", s[i]["up_distance_mm"])}
             above == Kept(s, keep)
  <2>1. keep = {i \in DOMAIN s : ~DistanceInvalid(s[i].up_distance_mm)}
    <3>1. \A i \in DOMAIN s : s[i].up_distance_mm # None =>
            (s[i].up_distance_mm < 60000 <=> ~(s[i].up_distance_mm >= HSI_NA))
      BY DEF Maybe, HSI_NA
    <3> QED BY <3>1 DEF Recorded, DistanceInvalid
  <2>2. LineOf(SafAround(s), "up_distance_mm") = SafPick(above, "up_distance_mm")
    <3> DEFINE round == Kept(s, Given(s, "around_distances_mm"))
               lines == [up_distance_mm |-> SafPick(above, "up_distance_mm"),
                         around |-> [i \in DOMAIN round |->
                             <<round[i].rel_ms, Min(ToSet(round[i].around_distances_mm))>>]]
    <3>1. SafAround(s) = Plot(lines, 0, None)
      BY <2>1 DEF SafAround
    <3>2. "up_distance_mm" \in DOMAIN lines /\ lines["up_distance_mm"] = SafPick(above, "up_distance_mm")
      OBVIOUS
    <3> HIDE DEF lines, above
    <3> QED BY <3>1, <3>2, PlotIs
  <2> HIDE DEF keep
  <2> QED BY <2>2, DistanceDrawn DEF keep
<1> QED BY <1>1, <1>2, <1>3

LEMMA SafetyDrawn ==
    ASSUME NEW rep, Collected(rep), NEW panels, panels = SafetyPanels(rep), NEW id \in DOMAIN panels
    PROVE  PanelDrawn(id, panels[id], "safety", rep)
<1>1. /\ TimedList(rep.flight) /\ TimedList(rep.hsi) /\ TimedList(rep.stick)
      /\ TimedList(rep.link) /\ TimedList(rep.hms)
  BY DEF Collected
<1>2. id \in {"height", "downdist", "speed", "attitude", "stick", "rtk", "drc", "downstate", "around",
              "drift", "link", "hms", "oa"}
  BY DEF SafetyPanels
<1>3. CASE id = "height"
  <2>1. /\ Fields[id] = {"height_m"} /\ panels[id] = SafHeight(rep.flight, rep.transfers)
        /\ Samples(id, "safety", rep) = rep.flight
    BY <1>3 DEF Fields, SafetyPanels, Samples
  <2> QED BY <1>1, <1>3, <2>1, HeightDrawn DEF PanelDrawn
<1>4. CASE id \in {"downdist", "downstate", "around"}
  <2>1. \A i \in DOMAIN rep.hsi : Maybe(rep.hsi[i].up_distance_mm, Int)
    BY <1>1, TimedIs DEF Collected
  <2>2. Samples(id, "safety", rep) = rep.hsi
    BY <1>4 DEF Samples
  <2>3. /\ id = "downdist" => Fields[id] = {"down_distance_mm"} /\ panels[id] = SafDownDist(rep.hsi)
        /\ id = "downstate" => Fields[id] = {"down_work"} /\ panels[id] = SafDownState(rep.hsi)
        /\ id = "around" => Fields[id] = {"up_distance_mm"} /\ panels[id] = SafAround(rep.hsi)
    BY DEF Fields, SafetyPanels
  <2>4. /\ FieldDrawn("downdist", "down_distance_mm", SafDownDist(rep.hsi), rep.hsi)
        /\ FieldDrawn("downstate", "down_work", SafDownState(rep.hsi), rep.hsi)
        /\ FieldDrawn("around", "up_distance_mm", SafAround(rep.hsi), rep.hsi)
    BY <1>1, <2>1, DistancesDrawn
  <2> QED BY <1>4, <2>2, <2>3, <2>4 DEF PanelDrawn
<1>5. CASE id = "speed"
  <2>1. /\ Fields[id] = {"horizontal_speed_ms", "vertical_speed_ms"} /\ panels[id] = SafSpeed(rep.flight)
        /\ Samples(id, "safety", rep) = rep.flight
    BY <1>5 DEF Fields, SafetyPanels, Samples
  <2>2. \A f \in Fields[id] : LineOf(SafSpeed(rep.flight), f) = SafPick(rep.flight, f)
    BY <2>1, PlotIs DEF SafSpeed
  <2>3. \A f \in Fields[id] : FieldDrawn(id, f, panels[id], rep.flight)
    BY <1>1, <1>5, <2>1, <2>2, PlainDrawn
  <2> QED BY <1>5, <2>1, <2>3 DEF PanelDrawn
<1>6. CASE id = "attitude"
  <2>1. /\ Fields[id] = {"attitude_pitch", "attitude_roll", "attitude_head"}
        /\ panels[id] = SafAttitude(rep.flight) /\ Samples(id, "safety", rep) = rep.flight
    BY <1>6 DEF Fields, SafetyPanels, Samples
  <2>2. \A f \in Fields[id] : LineOf(SafAttitude(rep.flight), f) = SafPick(rep.flight, f)
    BY <2>1, PlotIs DEF SafAttitude
  <2>3. \A f \in Fields[id] : FieldDrawn(id, f, panels[id], rep.flight)
    BY <1>1, <1>6, <2>1, <2>2, PlainDrawn
  <2> QED BY <1>6, <2>1, <2>3 DEF PanelDrawn
<1>7. CASE id = "stick"
  <2>1. /\ Fields[id] = {"roll", "pitch", "yaw", "throttle"} /\ panels[id] = SafStick(rep.stick)
        /\ Samples(id, "safety", rep) = rep.stick
    BY <1>7 DEF Fields, SafetyPanels, Samples
  <2>2. \A i \in DOMAIN rep.stick : \A key \in {"roll", "pitch", "yaw", "throttle"} :
            Maybe(rep.stick[i][key], Int)
    BY <1>1, TimedIs DEF Collected
  <2>3. \A f \in Fields[id] : FieldDrawn(id, f, panels[id], rep.stick)
    BY <1>1, <1>7, <2>1, <2>2, StickDrawn
  <2> QED BY <1>7, <2>1, <2>3 DEF PanelDrawn
<1>8. CASE id = "rtk"
  <2>1. /\ Fields[id] = {"gps_number", "rtk_number", "is_fixed"} /\ panels[id] = SafRtk(rep.flight)
        /\ Samples(id, "safety", rep) = rep.flight
    BY <1>8 DEF Fields, SafetyPanels, Samples
  <2> QED BY <1>1, <1>8, <2>1, RtkDrawn DEF PanelDrawn
<1>9. CASE id = "drc"
  <2>1. /\ Fields[id] = {"drc_state"} /\ panels[id] = SafDrc(rep.flight)
        /\ Samples(id, "safety", rep) = rep.flight
    BY <1>9 DEF Fields, SafetyPanels, Samples
  <2> QED BY <1>1, <1>9, <2>1, DrcDrawn DEF PanelDrawn
<1>10. CASE id = "drift"
  <2>1. Fields[id] = {}
    BY <1>10 DEF Fields
  <2> QED BY <1>10, <2>1 DEF PanelDrawn
<1>11. CASE id = "link"
  <2>1. /\ Fields[id] = {"sdr_quality", "fourg_quality"} /\ panels[id] = SafLink(rep.link)
        /\ Samples(id, "safety", rep) = rep.link
    BY <1>11 DEF Fields, SafetyPanels, Samples
  <2>2. \A f \in Fields[id] : LineOf(SafLink(rep.link), f) = SafPick(rep.link, f)
    BY <2>1, PlotIs DEF SafLink
  <2>3. \A f \in Fields[id] : FieldDrawn(id, f, panels[id], rep.link)
    BY <1>1, <1>11, <2>1, <2>2, PlainDrawn
  <2> QED BY <1>11, <2>1, <2>3 DEF PanelDrawn
<1>12. CASE id = "hms"
  <2>1. Fields[id] = {} /\ panels[id] = SafHms(rep.hms)
    BY <1>12 DEF Fields, SafetyPanels
  <2> QED BY <1>1, <1>12, <2>1, HmsAreTold DEF PanelDrawn
<1>13. CASE id = "oa"
  <2>1. /\ Fields[id] = {"oa_down", "oa_horizon", "oa_up"} /\ panels[id] = SafOa(rep.flight)
        /\ Samples(id, "safety", rep) = rep.flight
    BY <1>13 DEF Fields, SafetyPanels, Samples
  <2>2. \A f \in Fields[id] : LineOf(SafOa(rep.flight), f) = SafPick(rep.flight, f)
    BY <2>1, PlotIs DEF SafOa
  <2>3. \A f \in Fields[id] : FieldDrawn(id, f, panels[id], rep.flight)
    BY <1>1, <1>13, <2>1, <2>2, PlainDrawn
  <2> QED BY <1>13, <2>1, <2>3 DEF PanelDrawn
<1> QED BY <1>2, <1>3, <1>4, <1>5, <1>6, <1>7, <1>8, <1>9, <1>10, <1>11, <1>12, <1>13

-----------------------------------------------------------------------------
(* What panels of the same samples have in common.                         *)

\* The points of a line are those of the places it draws.
LEMMA DrawsPoints ==
    ASSUME NEW line, NEW pts, NEW held, Draws(line, pts, held)
    PROVE  ToSet(line) = {pts[i] : i \in held}
<1>1. DOMAIN line = 1..Cardinality(held)
  BY DEF Draws
<1>2. ASSUME NEW k \in DOMAIN line
      PROVE  line[k] \in {pts[i] : i \in held}
  BY <1>1 DEF Draws
<1>3. ASSUME NEW i \in held
      PROVE  \E k \in DOMAIN line : line[k] = pts[i]
  BY <1>1 DEF Draws
<1> QED BY <1>2, <1>3 DEF ToSet

\* The times of points made of the elements of a list.
LEMMA TimesOf ==
    ASSUME NEW a, NEW b, DOMAIN b = DOMAIN a, \A k \in DOMAIN a : b[k][1] = a[k].rel_ms
    PROVE  {pt[1] : pt \in ToSet(b)} = {a[k].rel_ms : k \in DOMAIN a}
<1>1. ToSet(b) = {b[k] : k \in DOMAIN a}
  BY DEF ToSet
<1>2. \A k \in DOMAIN a : b[k] \in ToSet(b)
  BY <1>1
<1>3. \A pt \in ToSet(b) : \E k \in DOMAIN a : pt = b[k]
  BY <1>1
<1> QED BY <1>2, <1>3

LEMMA TimesAre ==
    ASSUME NEW lines, NEW f \in DOMAIN lines, NEW lo, NEW hi, NEW p, p = Plot(lines, lo, hi)
    PROVE  Times(p, f) = {pt[1] : pt \in ToSet(lines[f])}
<1>1. CASE p.shown
  <2>1. p.lines = lines
    BY <1>1, PlotIs
  <2> QED BY <1>1, <2>1 DEF Times
<1>2. CASE ~p.shown
  <2>1. lines[f] = <<>>
    BY <1>2, PlotIs
  <2>2. ToSet(<<>>) = {}
    BY DEF ToSet
  <2> QED BY <1>2, <2>1, <2>2 DEF Times
<1> QED BY <1>1, <1>2

LEMMA DownPanelsAgree ==
    ASSUME NEW s, TimedList(s), \A i \in DOMAIN s : Maybe(s[i].down_distance_mm, Int),
           NEW dist, dist = SafDownDist(s), NEW state, state = SafDownState(s)
    PROVE  /\ Times(dist, "down_distance_mm") =
                (IF state.shown THEN {pt[1] : pt \in {q \in ToSet(state.lines.na) : q[2] = 0}} ELSE {})
           /\ Times(dist, "diff") \subseteq Times(dist, "down_distance_mm")
<1> DEFINE key == "down_distance_mm"
           keep == {i \in Given(s, key) : s[i].down_distance_mm < HSI_NA}
           valid == Kept(s, keep)
           both == Kept(valid, Given(valid, "elevation_mm"))
           down == SafPick(valid, key)
           diff == [i \in DOMAIN both |->
                      <<both[i].rel_ms, both[i].down_distance_mm - both[i].elevation_mm>>]
           dlines == [down_distance_mm |-> down, diff |-> diff]
           na == [i \in DOMAIN s |-> <<s[i].rel_ms, IF DistanceInvalid(s[i].down_distance_mm) THEN 1 ELSE 0>>]
           slines == [down_work |-> PickFlag(s, "down_work"), na |-> na]
           pts == [i \in DOMAIN s |-> <<s[i].rel_ms, s[i][key]>>]
           when == {s[i].rel_ms : i \in keep}
<1>1. keep \subseteq DOMAIN s /\ keep \subseteq Given(s, key) /\ IsList(s)
  BY TimedIs DEF Given
<1>2. Times(dist, key) = when
  <2>1. dist = Plot(dlines, None, None)
    BY DEF SafDownDist
  <2>2. key \in DOMAIN dlines /\ dlines[key] = down
    OBVIOUS
  <2>3. Times(dist, key) = {pt[1] : pt \in ToSet(down)}
    <3> HIDE DEF dlines, down
    <3> QED BY <2>1, <2>2, TimesAre
  <2>4. Draws(down, pts, keep)
    <3> HIDE DEF keep
    <3> QED BY <1>1, PickKeptDraws
  <2>5. ToSet(down) = {pts[i] : i \in keep}
    <3> HIDE DEF down, pts, keep
    <3> QED BY <2>4, DrawsPoints
  <2>6. \A i \in keep : pts[i][1] = s[i].rel_ms
    BY <1>1
  <2> HIDE DEF down, pts, keep
  <2> QED BY <2>3, <2>5, <2>6
<1>3. Times(dist, "diff") \subseteq when
  <2>1. dist = Plot(dlines, None, None)
    BY DEF SafDownDist
  <2>2. "diff" \in DOMAIN dlines /\ dlines["diff"] = diff
    OBVIOUS
  <2>3. Times(dist, "diff") = {pt[1] : pt \in ToSet(diff)}
    <3> HIDE DEF dlines, diff
    <3> QED BY <2>1, <2>2, TimesAre
  <2>4. ToSet(valid) = {s[i] : i \in keep} /\ IsList(valid)
    <3>1. Draws(valid, s, keep)
      <4> HIDE DEF keep
      <4> QED BY <1>1, KeptDraws
    <3> HIDE DEF valid, keep
    <3> QED BY <3>1, DrawsPoints, SeqIsList DEF Draws
  <2>5. \A k \in DOMAIN both : both[k] \in ToSet(valid)
    <3>1. both \in Seq(ToSet(valid))
      <4> HIDE DEF valid
      <4> QED BY <2>4, GivenPlaces, KeptDraws
    <3> HIDE DEF both, valid
    <3> QED BY <3>1
  <2>6. ASSUME NEW pt \in ToSet(diff)
        PROVE  pt[1] \in when
    <3>1. PICK k \in DOMAIN both : pt[1] = both[k].rel_ms
      <4> HIDE DEF both
      <4> QED BY DEF ToSet
    <3>2. PICK i \in keep : both[k] = s[i]
      <4> HIDE DEF both, valid, keep
      <4> QED BY <2>4, <2>5
    <3> HIDE DEF both, keep
    <3> QED BY <3>1, <3>2
  <2> HIDE DEF diff, when
  <2> QED BY <2>3, <2>6
<1>4. \A i \in DOMAIN s : i \in keep <=> ~DistanceInvalid(s[i].down_distance_mm)
  <2>1. \A i \in DOMAIN s : s[i].down_distance_mm # None =>
          (s[i].down_distance_mm < HSI_NA <=> ~(s[i].down_distance_mm >= HSI_NA))
    BY DEF Maybe, HSI_NA
  <2> QED BY <2>1 DEF Given, DistanceInvalid
<1>5. state = Plot(slines, 0, 1)
  BY DEF SafDownState
<1>6. "na" \in DOMAIN slines /\ slines["na"] = na
  OBVIOUS
<1> HIDE DEF keep, slines
<1>7. CASE state.shown
  <2>1. state.lines.na = na
    <3>1. state.lines = slines
      BY <1>5, <1>7, PlotIs
    <3> QED BY <1>6, <3>1
  <2>2. ASSUME NEW x \in when
        PROVE  \E q \in ToSet(na) : q[2] = 0 /\ x = q[1]
    <3>1. PICK i \in keep : x = s[i].rel_ms
      OBVIOUS
    <3>2. na[i] = <<s[i].rel_ms, 0>> /\ na[i] \in ToSet(na)
      BY <1>1, <1>4, <3>1 DEF ToSet
    <3> HIDE DEF na
    <3> QED BY <3>1, <3>2
  <2>3. ASSUME NEW q \in ToSet(na), q[2] = 0
        PROVE  q[1] \in when
    <3>1. PICK i \in DOMAIN s : q = na[i]
      BY DEF ToSet
    <3>2. ~DistanceInvalid(s[i].down_distance_mm) /\ q[1] = s[i].rel_ms
      BY <2>3, <3>1
    <3> HIDE DEF na
    <3> QED BY <1>4, <3>2
  <2> HIDE DEF na, when
  <2>4. when = {pt[1] : pt \in {q \in ToSet(na) : q[2] = 0}}
    BY <2>2, <2>3
  <2> QED BY <1>2, <1>3, <1>7, <2>1, <2>4
<1>8. CASE ~state.shown
  <2>1. na = <<>>
    <3> HIDE DEF na
    <3> QED BY <1>5, <1>6, <1>8, PlotIs
  <2>2. DOMAIN s = {}
    <3>1. DOMAIN na = DOMAIN s
      OBVIOUS
    <3> HIDE DEF na
    <3> QED BY <2>1, <3>1
  <2>3. when = {}
    BY <1>1, <2>2
  <2> HIDE DEF when
  <2> QED BY <1>2, <1>3, <1>8, <2>3
<1> QED BY <1>7, <1>8

LEMMA DriftLinesAgree ==
    ASSUME NEW s, TimedList(s), NEW p, p = SafDrift(s),
           \A i \in DOMAIN s : Maybe(s[i].latitude, Int) /\ Maybe(s[i].longitude, Int)
    PROVE  /\ Times(p, "east") = Times(p, "north")
           /\ p.shown => p.lines.east[1][2] = 0 /\ p.lines.north[1][2] = 0
<1> DEFINE keep == Given(s, "latitude") \cap Given(s, "longitude")
           fixes == Kept(s, keep)
           east == [i \in DOMAIN fixes |-> <<fixes[i].rel_ms, fixes[i]["longitude"] - fixes[1]["longitude"]>>]
           north == [i \in DOMAIN fixes |-> <<fixes[i].rel_ms, fixes[i]["latitude"] - fixes[1]["latitude"]>>]
           lines == [east |-> east, north |-> north]
<1>1. keep \subseteq DOMAIN s /\ IsList(s)
  BY TimedIs DEF Given
<1>2. Draws(fixes, s, keep)
  <2> HIDE DEF keep
  <2> QED BY <1>1, KeptDraws
<1>3. p = Plot(lines, None, None)
  BY DEF SafDrift
<1>4. "east" \in DOMAIN lines /\ lines["east"] = east /\ "north" \in DOMAIN lines /\ lines["north"] = north
  OBVIOUS
<1>5. \A k \in DOMAIN fixes : fixes[k].latitude \in Int /\ fixes[k].longitude \in Int
  <2>1. \A i \in keep : s[i].latitude \in Int /\ s[i].longitude \in Int
    BY DEF Given, Maybe
  <2>2. \A k \in DOMAIN fixes : \E i \in keep : fixes[k] = s[i]
    <3> HIDE DEF fixes, keep
    <3> QED BY <1>2 DEF Draws
  <2> HIDE DEF fixes, keep
  <2> QED BY <2>1, <2>2
<1> HIDE DEF fixes
<1>6. {pt[1] : pt \in ToSet(east)} = {fixes[k].rel_ms : k \in DOMAIN fixes}
  <2>1. DOMAIN east = DOMAIN fixes /\ \A k \in DOMAIN fixes : east[k][1] = fixes[k].rel_ms
    OBVIOUS
  <2> HIDE DEF east
  <2> QED BY <2>1, TimesOf
<1>7. {pt[1] : pt \in ToSet(north)} = {fixes[k].rel_ms : k \in DOMAIN fixes}
  <2>1. DOMAIN north = DOMAIN fixes /\ \A k \in DOMAIN fixes : north[k][1] = fixes[k].rel_ms
    OBVIOUS
  <2> HIDE DEF north
  <2> QED BY <2>1, TimesOf
<1>8. Times(p, "east") = {pt[1] : pt \in ToSet(east)} /\ Times(p, "north") = {pt[1] : pt \in ToSet(north)}
  <2> HIDE DEF lines, east, north
  <2> QED BY <1>3, <1>4, TimesAre
<1>9. ASSUME p.shown
      PROVE  p.lines.east[1][2] = 0 /\ p.lines.north[1][2] = 0
  <2>1. p.lines = lines
    <3> HIDE DEF lines, east, north
    <3> QED BY <1>3, <1>9, PlotIs
  <2>2. fixes # <<>>
    <3> SUFFICES ASSUME fixes = <<>> PROVE FALSE
      OBVIOUS
    <3>1. DOMAIN fixes = {}
      OBVIOUS
    <3>2. east = <<>> /\ north = <<>>
      BY <3>1
    <3>3. \A f \in DOMAIN lines : lines[f] = <<>>
      BY <3>2
    <3>4. p = NoData
      <4> HIDE DEF lines, east, north
      <4> QED BY <1>3, <3>3 DEF Plot
    <3> QED BY <1>9, <3>4 DEF NoData
  <2>3. 1 \in DOMAIN fixes
    <3>1. keep # {}
      <4> HIDE DEF keep
      <4> QED BY <1>2, <2>2, DrawsNone
    <3> HIDE DEF keep
    <3> QED BY <1>2, <3>1 DEF Draws
  <2>4. east[1][2] = 0 /\ north[1][2] = 0
    BY <1>5, <2>3
  <2> HIDE DEF east, north
  <2> QED BY <2>1, <2>4
<1> HIDE DEF east, north, lines
<1> QED BY <1>6, <1>7, <1>8, <1>9

-----------------------------------------------------------------------------
(* The ends of the axes.                                                   *)

OnAxis(panel) ==
    \A f \in DOMAIN panel.lines : \A pt \in ToSet(panel.lines[f]) :
      /\ panel.lo # None => pt[2] >= panel.lo
      /\ panel.hi # None => pt[2] <= panel.hi

LEMMA PlotOnAxis ==
    ASSUME NEW lines, NEW lo, NEW hi, NEW p, p = Plot(lines, lo, hi),
           \A f \in DOMAIN lines : \A pt \in ToSet(lines[f]) :
             (lo # None => pt[2] >= lo) /\ (hi # None => pt[2] <= hi)
    PROVE  OnAxis(p)
BY PlotIs DEF OnAxis

LEMMA PlotIsFree ==
    ASSUME NEW lines, NEW p, p = Plot(lines, None, None)
    PROVE  OnAxis(p)
BY PlotOnAxis

LEMMA PickedIn ==
    ASSUME NEW s, TimedList(s), NEW key, NEW S, \A x \in ToSet(s) : Maybe(x[key], S)
    PROVE  \A pt \in ToSet(SafPick(s, key)) : pt[2] \in S
<1> DEFINE pts == [i \in DOMAIN s |-> <<s[i].rel_ms, s[i][key]>>]
<1>1. Draws(SafPick(s, key), pts, Given(s, key))
  BY TimedIs, PickDraws
<1>2. ToSet(SafPick(s, key)) = {pts[i] : i \in Given(s, key)}
  <2> HIDE DEF pts
  <2> QED BY <1>1, DrawsPoints
<1>3. \A i \in Given(s, key) : pts[i][2] \in S
  <2>1. \A i \in Given(s, key) : i \in DOMAIN s /\ s[i][key] # None
    BY DEF Given
  <2>2. \A i \in DOMAIN s : Maybe(s[i][key], S)
    BY TimedIs
  <2> QED BY <2>1, <2>2 DEF Maybe
<1> HIDE DEF pts
<1> QED BY <1>2, <1>3

LEMMA FlagIn ==
    ASSUME NEW s, TimedList(s), NEW key
    PROVE  \A pt \in ToSet(PickFlag(s, key)) : pt[2] \in 0..1
<1> DEFINE pts == [i \in DOMAIN s |-> <<s[i].rel_ms, IF s[i][key] THEN 1 ELSE 0>>]
<1>1. Draws(PickFlag(s, key), pts, Given(s, key))
  BY TimedIs, FlagDraws
<1>2. ToSet(PickFlag(s, key)) = {pts[i] : i \in Given(s, key)}
  <2> HIDE DEF pts
  <2> QED BY <1>1, DrawsPoints
<1>3. \A i \in Given(s, key) : pts[i][2] \in 0..1
  BY DEF Given
<1> HIDE DEF pts
<1> QED BY <1>2, <1>3

LEMMA DetailOnAxis ==
    ASSUME NEW rep, Collected(rep), DeviceInRange(rep), NEW panels, panels = DetailPanels(rep),
           NEW id \in DOMAIN panels
    PROVE  OnAxis(panels[id])
<1> DEFINE s == rep.battery
<1>1. /\ TimedList(s)
      /\ \A x \in ToSet(s) : Maybe(x["percent"], 0..100) /\ Maybe(x["wind_direction"], 1..8)
                             /\ Maybe(x["wind_ms"], Nat)
  BY DEF Collected, DeviceInRange, Maybe
<1>2. /\ panels["battery"] = DrawBattery(s) /\ panels["speed"] = DrawSpeed(s)
      /\ panels["windspeed"] = DrawWindSpeed(s) /\ panels["winddir"] = DrawWindDir(s)
      /\ DOMAIN panels = {"battery", "speed", "windspeed", "winddir"}
  BY DEF DetailPanels
<1> HIDE DEF s
<1>3. OnAxis(DrawBattery(s))
  <2>1. \A pt \in ToSet(SafPick(s, "percent")) : pt[2] \in 0..100
    BY <1>1, PickedIn
  <2>2. \A pt \in ToSet(SafPick(s, "percent")) : pt[2] >= 0 /\ pt[2] <= 100
    BY <2>1
  <2> QED BY <2>2, PlotOnAxis DEF DrawBattery
<1>4. OnAxis(DrawSpeed(s))
  BY PlotIsFree DEF DrawSpeed
<1>5. OnAxis(DrawWindSpeed(s))
  <2>1. \A pt \in ToSet(SafPick(s, "wind_ms")) : pt[2] \in Nat
    BY <1>1, PickedIn
  <2>2. \A pt \in ToSet(SafPick(s, "wind_ms")) : pt[2] >= 0
    BY <2>1
  <2> QED BY <2>2, PlotOnAxis DEF DrawWindSpeed
<1>6. OnAxis(DrawWindDir(s))
  <2>1. \A pt \in ToSet(SafPick(s, "wind_direction")) : pt[2] \in 1..8
    BY <1>1, PickedIn
  <2>2. \A pt \in ToSet(SafPick(s, "wind_direction")) : pt[2] >= 1 /\ pt[2] <= 8
    BY <2>1
  <2> QED BY <2>2, PlotOnAxis DEF DrawWindDir
<1> QED BY <1>2, <1>3, <1>4, <1>5, <1>6

LEMMA MinIs ==
    ASSUME NEW S \in SUBSET Nat, S # {}
    PROVE  Min(S) \in S
<1>1. PICK x \in S : \A y \in S : x <= y
  BY LeastIs
<1> QED BY <1>1 DEF Min

LEMMA AroundOnAxis ==
    ASSUME NEW s, TimedList(s),
           \A x \in ToSet(s) : /\ Maybe(x.up_distance_mm, Nat)
                               /\ Maybe(x.around_distances_mm, Seq(Int) \ {<<>>})
                               /\ Maybe(x.around_distances_mm, Seq(Nat))
    PROVE  OnAxis(SafAround(s))
<1> DEFINE keep == {i \in DOMAIN s : ~DistanceInvalid(s[i].up_distance_mm)}
           held == Given(s, "around_distances_mm")
           above == Kept(s, keep)
           round == Kept(s, held)
           up == SafPick(above, "up_distance_mm")
           around == [i \in DOMAIN round |-> <<round[i].rel_ms, Min(ToSet(round[i].around_distances_mm))>>]
           lines == [up_distance_mm |-> up, around |-> around]
           upPts == [i \in DOMAIN s |-> <<s[i].rel_ms, s[i]["up_distance_mm"]>>]
<1>1. IsList(s) /\ keep \subseteq DOMAIN s /\ held \subseteq DOMAIN s /\ keep \subseteq Given(s, "up_distance_mm")
  BY TimedIs DEF Given, DistanceInvalid
<1>2. \A pt \in ToSet(up) : pt[2] >= 0
  <2>1. Draws(up, upPts, keep)
    <3> HIDE DEF keep
    <3> QED BY <1>1, PickKeptDraws
  <2>2. ToSet(up) = {upPts[i] : i \in keep}
    <3> HIDE DEF up, upPts, keep
    <3> QED BY <2>1, DrawsPoints
  <2>3. ASSUME NEW i \in keep
        PROVE  upPts[i][2] >= 0
    <3>1. i \in DOMAIN s /\ s[i]["up_distance_mm"] # None
      BY DEF DistanceInvalid
    <3>2. Maybe(s[i].up_distance_mm, Nat)
      BY <3>1, TimedIs
    <3>3. s[i]["up_distance_mm"] \in Nat
      BY <3>1, <3>2 DEF Maybe
    <3> HIDE DEF keep
    <3> QED BY <3>1, <3>3
  <2> HIDE DEF up, upPts, keep
  <2> QED BY <2>2, <2>3
<1>3. \A pt \in ToSet(around) : pt[2] >= 0
  <2>1. Draws(round, s, held)
    <3> HIDE DEF held
    <3> QED BY <1>1, KeptDraws
  <2>2. \A k \in DOMAIN round : \E i \in held : round[k] = s[i]
    <3> HIDE DEF round, held
    <3> QED BY <2>1 DEF Draws
  <2>3. ASSUME NEW i \in held
        PROVE  Min(ToSet(s[i].around_distances_mm)) >= 0
    <3> PICK d : d = s[i].around_distances_mm
      OBVIOUS
    <3>1. i \in DOMAIN s /\ d # None
      BY DEF Given
    <3>2. d \in Seq(Int) \ {<<>>} /\ d \in Seq(Nat)
      BY <3>1, TimedIs DEF Maybe
    <3>3. ToSet(d) \in SUBSET Nat
      BY <3>2 DEF ToSet
    <3>4. ToSet(d) # {}
      <4>1. d \in Seq(Nat) /\ d # <<>>
        BY <3>2
      <4>2. 1 \in DOMAIN d
        BY <4>1
      <4> QED BY <4>2 DEF ToSet
    <3>5. Min(ToSet(d)) \in ToSet(d)
      BY <3>3, <3>4, MinIs
    <3> QED BY <3>3, <3>5
  <2>4. ASSUME NEW pt \in ToSet(around)
        PROVE  pt[2] >= 0
    <3>1. PICK k \in DOMAIN round : pt[2] = Min(ToSet(round[k].around_distances_mm))
      <4>1. \A k \in DOMAIN around : k \in DOMAIN round /\ around[k][2] = Min(ToSet(round[k].around_distances_mm))
        OBVIOUS
      <4> HIDE DEF around, round
      <4>2. PICK k \in DOMAIN around : pt = around[k]
        BY <2>4 DEF ToSet
      <4> QED BY <4>1, <4>2
    <3> HIDE DEF round, held
    <3> QED BY <2>2, <2>3, <3>1
  <2> QED BY <2>4
<1>4. SafAround(s) = Plot(lines, 0, None)
  BY DEF SafAround
<1>5. \A f \in DOMAIN lines : lines[f] = up \/ lines[f] = around
  OBVIOUS
<1> HIDE DEF lines, up, around
<1> QED BY <1>2, <1>3, <1>4, <1>5, PlotOnAxis

LEMMA SafetyOnAxis ==
    ASSUME NEW rep, Collected(rep), DeviceInRange(rep), NEW panels, panels = SafetyPanels(rep),
           NEW id \in DOMAIN panels
    PROVE  OnAxis(panels[id])
<1> DEFINE fs == rep.flight
           hsi == rep.hsi
           stick == rep.stick
           link == rep.link
<1>1. TimedList(fs) /\ TimedList(hsi) /\ TimedList(stick) /\ TimedList(link)
  BY DEF Collected
<1>2. /\ panels["height"] = SafHeight(fs, rep.transfers) /\ panels["downdist"] = SafDownDist(hsi)
      /\ panels["speed"] = SafSpeed(fs) /\ panels["attitude"] = SafAttitude(fs)
      /\ panels["stick"] = SafStick(stick) /\ panels["rtk"] = SafRtk(fs) /\ panels["drc"] = SafDrc(fs)
      /\ panels["downstate"] = SafDownState(hsi) /\ panels["around"] = SafAround(hsi)
      /\ panels["drift"] = SafDrift(fs) /\ panels["link"] = SafLink(link)
      /\ panels["hms"] = SafHms(rep.hms) /\ panels["oa"] = SafOa(fs)
      /\ DOMAIN panels = {"height", "downdist", "speed", "attitude", "stick", "rtk", "drc", "downstate",
                          "around", "drift", "link", "hms", "oa"}
  BY DEF SafetyPanels
<1>3. OnAxis(SafHeight(fs, rep.transfers))
  <2>1. \/ SafHeight(fs, rep.transfers) = NoData
        \/ \E m : SafHeight(fs, rep.transfers) =
                    [Chart([height_m |-> SafPick(fs, "height_m")], None, None) EXCEPT !.marks = m]
    BY DEF SafHeight
  <2>2. SafHeight(fs, rep.transfers).lo = None /\ SafHeight(fs, rep.transfers).hi = None
    <3> HIDE DEF fs
    <3>1. NoData.lo = None /\ NoData.hi = None
      BY DEF NoData
    <3> DEFINE c == Chart([height_m |-> SafPick(fs, "height_m")], None, None)
    <3>2. \A m : [c EXCEPT !.marks = m].lo = None /\ [c EXCEPT !.marks = m].hi = None
      BY DEF Chart
    <3> HIDE DEF c
    <3> QED BY <2>1, <3>1, <3>2 DEF c
  <2> QED BY <2>2 DEF OnAxis
<1>4. OnAxis(SafDownDist(hsi)) /\ OnAxis(SafSpeed(fs)) /\ OnAxis(SafAttitude(fs)) /\ OnAxis(SafRtk(fs))
      /\ OnAxis(SafDrift(fs))
  BY PlotIsFree DEF SafDownDist, SafSpeed, SafAttitude, SafRtk, SafDrift
<1>5. OnAxis(SafStick(stick))
  <2>1. \A i \in DOMAIN stick : \A key \in {"roll", "pitch", "yaw", "throttle"} : Maybe(stick[i][key], Int)
    BY <1>1, TimedIs DEF Collected
  <2>2. \A key \in {"roll", "pitch", "yaw", "throttle"} :
            \A pt \in ToSet(LineOf(SafStick(stick), key)) : pt[2] \in -660..660
    BY <1>1, <2>1, StickDrawn
  <2>3. \A key \in {"roll", "pitch", "yaw", "throttle"} :
            \A pt \in ToSet(LineOf(SafStick(stick), key)) : pt[2] >= -660 /\ pt[2] <= 660
    <3> HIDE DEF stick
    <3> SUFFICES ASSUME NEW key \in {"roll", "pitch", "yaw", "throttle"},
                        NEW pt \in ToSet(LineOf(SafStick(stick), key))
                 PROVE  pt[2] >= -660 /\ pt[2] <= 660
      OBVIOUS
    <3>1. pt[2] \in -660..660
      BY <2>2
    <3> QED BY <3>1
  <2> DEFINE norm(k) == LET p == SafPick(stick, k)
                        IN  [i \in DOMAIN p |-> <<p[i][1], StickTravel(p[i][2])>>]
             lines == [k \in {"roll", "pitch", "yaw", "throttle"} |-> norm(k)]
  <2>4. SafStick(stick) = Plot(lines, -660, 660) /\ DOMAIN lines = {"roll", "pitch", "yaw", "throttle"}
    BY DEF SafStick
  <2> HIDE DEF lines, stick
  <2>5. \A f \in DOMAIN lines : LineOf(SafStick(stick), f) = lines[f]
    BY <2>4, PlotIs
  <2> QED BY <2>3, <2>4, <2>5, PlotOnAxis
<1>6. OnAxis(SafDrc(fs))
  <2> PICK p : p = SafDrc(fs)
    OBVIOUS
  <2>1. /\ p.shown => /\ p.lo = 0 /\ DOMAIN p.lines = {"drc_state"} /\ p.hi \in Nat
                      /\ \A pt \in ToSet(p.lines["drc_state"]) : pt[2] \in 0..p.hi
        /\ ~p.shown => DOMAIN p.lines = {}
    BY <1>1, DrcDrawn
  <2>2. CASE p.shown
    <3>1. \A pt \in ToSet(p.lines["drc_state"]) : pt[2] >= p.lo /\ pt[2] <= p.hi
      BY <2>1, <2>2
    <3> QED BY <2>1, <2>2, <3>1 DEF OnAxis
  <2>3. CASE ~p.shown
    BY <2>1, <2>3 DEF OnAxis
  <2> QED BY <2>2, <2>3
<1>7. OnAxis(SafDownState(hsi))
  <2> DEFINE na == [i \in DOMAIN hsi |->
                      <<hsi[i].rel_ms, IF DistanceInvalid(hsi[i].down_distance_mm) THEN 1 ELSE 0>>]
             lines == [down_work |-> PickFlag(hsi, "down_work"), na |-> na]
  <2>1. \A pt \in ToSet(PickFlag(hsi, "down_work")) : pt[2] >= 0 /\ pt[2] <= 1
    <3>1. \A pt \in ToSet(PickFlag(hsi, "down_work")) : pt[2] \in 0..1
      BY <1>1, FlagIn
    <3> QED BY <3>1
  <2>2. \A pt \in ToSet(na) : pt[2] >= 0 /\ pt[2] <= 1
    <3>1. \A i \in DOMAIN na : na[i][2] >= 0 /\ na[i][2] <= 1
      OBVIOUS
    <3> HIDE DEF na
    <3> QED BY <3>1 DEF ToSet
  <2>3. SafDownState(hsi) = Plot(lines, 0, 1)
    BY DEF SafDownState
  <2>4. \A f \in DOMAIN lines : lines[f] = PickFlag(hsi, "down_work") \/ lines[f] = na
    OBVIOUS
  <2> HIDE DEF lines, na
  <2> QED BY <2>1, <2>2, <2>3, <2>4, PlotOnAxis
<1>8. OnAxis(SafAround(hsi))
  <2>1. \A x \in ToSet(hsi) : /\ Maybe(x.up_distance_mm, Nat)
                              /\ Maybe(x.around_distances_mm, Seq(Int) \ {<<>>})
                              /\ Maybe(x.around_distances_mm, Seq(Nat))
    BY DEF Collected, DeviceInRange
  <2> QED BY <1>1, <2>1, AroundOnAxis
<1>9. OnAxis(SafLink(link))
  <2>1. \A x \in ToSet(link) : Maybe(x["sdr_quality"], 0..5) /\ Maybe(x["fourg_quality"], 0..5)
    BY DEF DeviceInRange
  <2>2. /\ \A pt \in ToSet(SafPick(link, "sdr_quality")) : pt[2] \in 0..5
        /\ \A pt \in ToSet(SafPick(link, "fourg_quality")) : pt[2] \in 0..5
    BY <1>1, <2>1, PickedIn
  <2>3. /\ \A pt \in ToSet(SafPick(link, "sdr_quality")) : pt[2] >= 0 /\ pt[2] <= 5
        /\ \A pt \in ToSet(SafPick(link, "fourg_quality")) : pt[2] >= 0 /\ pt[2] <= 5
    BY <2>2
  <2> QED BY <2>3, PlotOnAxis DEF SafLink
<1>10. OnAxis(SafHms(rep.hms))
  <2> DEFINE at(lv) == LET kept == Kept(rep.hms, {i \in DOMAIN rep.hms : rep.hms[i].level = lv})
                       IN  [i \in DOMAIN kept |-> <<kept[i].rel_ms, lv, kept[i].code, kept[i].module, kept[i].device>>]
             lines == [lv \in 0..2 |-> at(lv)]
  <2>1. SafHms(rep.hms) = NoData \/ SafHms(rep.hms) = Chart(lines, 0, 2)
    BY DEF SafHms
  <2>2. \A lv \in 0..2 : \A pt \in ToSet(lines[lv]) : pt[2] = lv
    <3>1. \A lv \in 0..2 : \A k \in DOMAIN lines[lv] : lines[lv][k][2] = lv
      OBVIOUS
    <3> HIDE DEF lines
    <3> QED BY <3>1 DEF ToSet
  <2>3. \A lv \in 0..2 : lv >= 0 /\ lv <= 2
    OBVIOUS
  <2>4. DOMAIN lines = 0..2
    OBVIOUS
  <2> HIDE DEF lines
  <2>5. OnAxis(NoData)
    BY DEF OnAxis, NoData
  <2>6. OnAxis(Chart(lines, 0, 2))
    BY <2>2, <2>3, <2>4 DEF OnAxis, Chart
  <2> QED BY <2>1, <2>5, <2>6
<1>11. OnAxis(SafOa(fs))
  <2>1. \A key \in {"oa_down", "oa_horizon", "oa_up"} : \A x \in ToSet(fs) : Maybe(x[key], 0..1)
    BY DEF DeviceInRange
  <2>2. \A key \in {"oa_down", "oa_horizon", "oa_up"} : \A pt \in ToSet(SafPick(fs, key)) : pt[2] \in 0..1
    BY <1>1, <2>1, PickedIn
  <2>3. \A key \in {"oa_down", "oa_horizon", "oa_up"} :
            \A pt \in ToSet(SafPick(fs, key)) : pt[2] >= 0 /\ pt[2] <= 1
    BY <2>2
  <2> DEFINE lines == [key \in {"oa_down", "oa_horizon", "oa_up"} |-> SafPick(fs, key)]
  <2>4. /\ SafOa(fs) = Plot(lines, 0, 1) /\ DOMAIN lines = {"oa_down", "oa_horizon", "oa_up"}
        /\ \A f \in DOMAIN lines : lines[f] = SafPick(fs, f)
    BY DEF SafOa
  <2> HIDE DEF lines, fs
  <2> QED BY <2>3, <2>4, PlotOnAxis
<1> QED BY <1>2, <1>3, <1>4, <1>5, <1>6, <1>7, <1>8, <1>9, <1>10, <1>11

-----------------------------------------------------------------------------
(* What a page shows is a report that was written whole.                   *)

LEMMA ShownIsReport ==
    ASSUME AllTabsOK, NEW t \in Tabs, Shown(t)
    PROVE  tab[t].body \in Contents
<1> DEFINE r == tab[t].rec
<1>1. r \in Recordings /\ tab[t].asked \in 0..Len(versions[r]) /\ FromDisk(t) /\ Whole(tab[t].body)
  BY DEF AllTabsOK, TabOK, Shown
<1>2. versions[r] \in Seq(OnDiskOnce) /\ Len(versions[r]) \in Nat
  BY <1>1, LenProperties DEF AllTabsOK, Shape
<1>3. PICK v \in Greatest(1, tab[t].asked)..Len(versions[r]) : versions[r][v] = tab[t].body
  BY <1>1 DEF FromDisk
<1>4. v \in 1..Len(versions[r])
  <2>1. tab[t].asked \in Nat
    BY <1>1, <1>2
  <2>2. Greatest(1, tab[t].asked) \in Nat /\ Greatest(1, tab[t].asked) >= 1
    BY <2>1 DEF Greatest
  <2> QED BY <1>2, <2>2
<1>5. tab[t].body \in OnDiskOnce
  BY <1>2, <1>3, <1>4
<1> QED BY <1>1, <1>5 DEF OnDiskOnce, Whole

\* The panels of a page are those of its kind, or none.
LEMMA PanelsAre ==
    ASSUME NEW t \in Tabs, Shown(t)
    PROVE  \/ tab[t].page = "detail" /\ PanelsOf(t) = DetailPanels(tab[t].body)
           \/ /\ tab[t].page = "safety" /\ ~Warned(tab[t].body)
              /\ PanelsOf(t) = SafetyPanels(tab[t].body)
           \/ tab[t].page = "safety" /\ Warned(tab[t].body) /\ DOMAIN PanelsOf(t) = {}
BY DEF Shown, ReportPage, PanelsOf, Panels

\* Whatever a report of the collector holds, the points of a page's charts tell it
\* all and nothing else: each recorded value once, in its order and at its time, wind
\* directions and states by name, and the tooltips of the HMS panel each event, with
\* an official text where there is one.
THEOREM PointsAreTrue == Spec => []PointsTellReport
<1>1. AllTabsOK => PointsTellReport
  <2> SUFFICES ASSUME AllTabsOK, NEW t \in Tabs, Shown(t), NEW id \in DOMAIN PanelsOf(t)
               PROVE  PanelDrawn(id, PanelsOf(t)[id], tab[t].page, tab[t].body)
    BY DEF PointsTellReport, PanelDrawn
  <2>1. Collected(tab[t].body)
    BY ShownIsReport, CollectorAssumption
  <2> QED BY <2>1, PanelsAre, DetailDrawn, SafetyDrawn
<1> QED BY <1>1, InitTabs, StepKeepsTabs, PTL DEF Spec

\* Panels that judge the same samples by conditions of their own agree, for every
\* report: none shows a distance the other calls invalid.
THEOREM PanelsDoAgree == Spec => []PanelsAgree
<1>1. AllTabsOK => PanelsAgree
  <2> SUFFICES ASSUME AllTabsOK, NEW t \in Tabs, Shown(t), tab[t].page = "safety", ~Warned(tab[t].body),
                      NEW p, p = PanelsOf(t)
               PROVE  /\ Times(p.downdist, "down_distance_mm") =
                           (IF p.downstate.shown
                            THEN {pt[1] : pt \in {q \in ToSet(p.downstate.lines.na) : q[2] = 0}} ELSE {})
                      /\ Times(p.downdist, "diff") \subseteq Times(p.downdist, "down_distance_mm")
                      /\ Times(p.drift, "east") = Times(p.drift, "north")
                      /\ p.drift.shown => p.drift.lines.east[1][2] = 0 /\ p.drift.lines.north[1][2] = 0
    BY DEF PanelsAgree
  <2> DEFINE rep == tab[t].body
  <2>1. Collected(rep)
    BY ShownIsReport, CollectorAssumption
  <2>2. /\ TimedList(rep.hsi) /\ \A i \in DOMAIN rep.hsi : Maybe(rep.hsi[i].down_distance_mm, Int)
        /\ TimedList(rep.flight)
        /\ \A i \in DOMAIN rep.flight : Maybe(rep.flight[i].latitude, Int) /\ Maybe(rep.flight[i].longitude, Int)
    BY <2>1, TimedIs DEF Collected
  <2>3. p = SafetyPanels(rep)
    BY PanelsAre
  <2>4. p.downdist = SafDownDist(rep.hsi) /\ p.downstate = SafDownState(rep.hsi) /\ p.drift = SafDrift(rep.flight)
    BY <2>3 DEF SafetyPanels
  <2> HIDE DEF rep
  <2> QED BY <2>2, <2>4, DownPanelsAgree, DriftLinesAgree
<1> QED BY <1>1, InitTabs, StepKeepsTabs, PTL DEF Spec

\* No point is drawn outside the fixed ends of its axis, whatever report is shown,
\* as long as the device keeps the ranges the collector does not check.
THEOREM PointsStayOnAxis ==
    ASSUME DevicePromise
    PROVE  Spec => []PointsOnAxis
<1>1. AllTabsOK => PointsOnAxis
  <2> SUFFICES ASSUME AllTabsOK, NEW t \in Tabs, Shown(t), NEW id \in DOMAIN PanelsOf(t)
               PROVE  OnAxis(PanelsOf(t)[id])
    BY DEF PointsOnAxis, OnAxis
  <2>1. Collected(tab[t].body) /\ DeviceInRange(tab[t].body)
    BY ShownIsReport, CollectorAssumption DEF DevicePromise
  <2> QED BY <2>1, PanelsAre, DetailOnAxis, SafetyOnAxis
<1> QED BY <1>1, InitTabs, StepKeepsTabs, PTL DEF Spec
=============================================================================
