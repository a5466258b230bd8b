---------------------------- MODULE PagesProofs ----------------------------
(***************************************************************************)
(* Proofs about Pages without the video thread, for any number of frames.  *)
(* The two threads then alternate (Alternate), and so do update_start()    *)
(* and update_stop() (Bracketed).  The page to draw is the one after the   *)
(* page asked for, that is at most one after the page on the screen        *)
(* (Placed); and each clear adds a blank page behind it (Wiped).           *)
(***************************************************************************)
EXTENDS Pages, TLAPS

\* The emulation clears the screen when no frame is being drawn.
Alternate ==
    /\ mpc # "run" => vpc = "idle"
    /\ mpc # "assert" /\ vpc # "assert"
    /\ vpc # "idle" => frame > 0

\* A page is being drawn or cleared exactly where the code does it.
Bracketed == allowed <=> mpc = "clear" \/ vpc \in {"pipeline", "blit", "stop"}

Placed ==
    /\ async <=> pages = 3
    /\ ~async => asked = 0
    /\ asked = 0 => scan = start
    /\ asked = 1 => start \in {scan, After(scan)}
    /\ \/ page = After(start)
       \/ mpc \in {"start", "clear"} /\ page = 0 /\ start = 0 /\ scan = 0 /\ asked = 0

\* The k-th page before the one to draw, and all of them.
Behind(k) == IF page >= k THEN page - k ELSE page + pages - k
Blank == \A p \in 0..pages - 1 : pic[p] = 0

Wiped ==
    mpc \in {"start", "clear"} =>
        /\ left \in 1..Clears(pages)
        /\ \A k \in 1..pages : k <= Clears(pages) - left => pic[Behind(k)] = 0

\* What the pages hold when the screen is not being cleared.
Filled ==
    /\ mpc = "run" /\ last = 0 => Blank
    /\ mpc = "run" /\ vpc = "idle" /\ ~vskip => pic[start] = last
    /\ vpc = "stop" /\ ~vskip => pic[page] = last

Ordered == TypeOK /\ Alternate /\ Bracketed /\ Placed /\ Wiped /\ Filled

\* What a page is after another one, with one, two or three pages.
LEMMA AfterIsAPage ==
  ASSUME pages \in 1..3, NEW p \in 0..pages - 1
  PROVE  /\ After(p) \in 0..pages - 1
         /\ pages > 1 => After(p) # p
         /\ pages = 3 => After(After(p)) # p
  BY DEF After

\* All the pages are behind the one to draw, itself the last.
LEMMA AllBehind ==
  ASSUME NEW n \in 1..3, NEW q \in 0..n - 1, NEW p \in 0..n - 1
  PROVE  \E k \in 1..n : p = IF q >= k THEN q - k ELSE q + n - k
  <1>1. CASE p < q
    <2>1. q - p \in 1..n /\ q >= q - p /\ p = q - (q - p)
      BY <1>1
    <2>2. QED
      BY <2>1
  <1>2. CASE ~(p < q)
    <2>1. q + n - p \in 1..n /\ ~(q >= q + n - p) /\ p = q + n - (q + n - p)
      BY <1>2
    <2>2. QED
      BY <2>1
  <1>3. QED
    BY <1>1, <1>2

LEMMA ClearsOfPages ==
  \A n \in 1..3 : Clears(n) \in 2..3 /\ 0 \in 0..n - 1 /\ \A k \in 1..n : ~(k <= Clears(n) - Clears(n))
  BY DEF Clears

LEMMA PagesOfMode ==
  \A max_buffer, fit, flags : UpdateInit(max_buffer, fit, flags) \in 1..3
  BY DEF UpdateInit

\* update_stop() keeps what is known of the pages, and shows the page drawn.
LEMMA StopPlaces ==
  ASSUME TypeOK, Placed, UpdateStop, UNCHANGED mode
  PROVE  /\ page' \in 0..pages - 1 /\ start' \in 0..pages - 1 /\ scan' \in 0..pages - 1
         /\ asked' \in 0..2
         /\ start' = page /\ page' = After(start')
         /\ ~async' => asked' = 0
         /\ asked' = 0 => scan' = start'
         /\ asked' = 1 => start' \in {scan', After(scan')}
  <1> USE DEF TypeOK, UpdateStop, Display, mode
  <1>1. page \in 0..pages - 1 /\ After(page) \in 0..pages - 1
    BY AfterIsAPage
  <1>2. start' = page /\ page' = After(page)
    OBVIOUS
  <1>3. CASE ~async
    BY <1>1, <1>2, <1>3 DEF Placed
  <1>4. CASE async
    <2>1. scan' = scan /\ asked' # 0 /\ asked' \in 1..2
      BY <1>4
    <2>2. asked' = 1 => scan = start /\ asked = 0
      BY <1>4 DEF Placed
    <2>3. asked' = 1 => page \in {scan, After(scan)}
      BY <2>2 DEF Placed
    <2>4. QED
      BY <1>1, <1>2, <1>4, <2>1, <2>3
  <1>5. QED
    BY <1>3, <1>4

LEMMA OrderedInit == Init => Ordered
  <1> SUFFICES ASSUME Init PROVE Ordered
    OBVIOUS
  <1>1. pages \in 1..3 /\ left = Clears(pages) /\ left \in 1..3
    BY PagesOfMode DEF Init, Clears
  <1>2. 0 \in 0..MaxFrame
    BY BoundAssumption
  <1>3. TypeOK
    <2>1. async \in BOOLEAN
      BY Zenon DEF Init
    <2>2. 0 \in 0..pages - 1
      BY <1>1, ClearsOfPages
    <2>3. /\ page = 0 /\ start = 0 /\ scan = 0 /\ asked = 0 /\ last = 0 /\ frame = 0
          /\ pic = [p \in Page |-> 0] /\ mpc = "start" /\ vpc = "idle"
          /\ allowed \in BOOLEAN /\ pipeline \in BOOLEAN /\ vskip \in BOOLEAN
      BY DEF Init
    <2>4. QED
      BY <1>1, <1>2, <2>1, <2>2, <2>3 DEF TypeOK
  <1>4. Alternate /\ Bracketed /\ Placed /\ Filled
    BY DEF Init, Alternate, Bracketed, Placed, Filled
  <1>5. Wiped
    BY <1>1 DEF Init, Wiped
  <1>6. QED
    BY <1>3, <1>4, <1>5 DEF Ordered

\* The steps that leave the pages alone.
LEMMA QuietSteps ==
  ASSUME Ordered, Smp = FALSE, Retrace \/ Frame \/ MakePipeline \/ Debugger \/ Cocktail
  PROVE  Ordered'
  <1> USE DEF Ordered
  <1>1. CASE Retrace
    <2>1. TypeOK'
      BY <1>1 DEF Retrace, mode, main, video, TypeOK
    <2>2. Placed'
      BY <1>1 DEF Retrace, mode, main, video, Placed, After, TypeOK
    <2>3. Alternate' /\ Bracketed' /\ Wiped' /\ Filled'
      BY <1>1 DEF Retrace, mode, main, video, Alternate, Bracketed, Wiped, Filled, Behind,
                  Blank, Clears
    <2>4. QED
      BY <2>1, <2>2, <2>3
  <1>2. CASE Frame
    <2>1. TypeOK' /\ frame' > 0
      BY <1>2, BoundAssumption DEF Frame, mode, memory, show, main, video, TypeOK
    <2>2. Alternate' /\ Bracketed' /\ Placed' /\ Wiped' /\ Filled'
      BY <1>2, <2>1 DEF Frame, mode, memory, show, main, Alternate, Bracketed, Placed, After,
                        Wiped, Filled, Behind, Blank, Clears
    <2>3. QED
      BY <2>1, <2>2
  <1>3. CASE MakePipeline
    <2>1. TypeOK'
      BY <1>3 DEF MakePipeline, mode, memory, show, main, TypeOK
    <2>2. Alternate' /\ Bracketed' /\ Placed' /\ Wiped' /\ Filled'
      BY <1>3 DEF MakePipeline, mode, memory, show, main, Alternate, Bracketed, Placed, After,
                  Wiped, Filled, Behind, Blank, Clears
    <2>3. QED
      BY <2>1, <2>2
  <1>4. CASE Debugger
    <2>1. left' = Clears(pages) /\ left' \in 1..3 /\ mpc' = "start" /\ vpc = "idle" /\ mpc = "run"
      BY <1>4 DEF Debugger, MainMayRun, Clears, TypeOK
    <2>2. TypeOK'
      BY <1>4, <2>1 DEF Debugger, mode, memory, show, video, TypeOK
    <2>3. Alternate' /\ Bracketed' /\ Placed'
      BY <1>4, <2>1 DEF Debugger, mode, memory, show, video, Alternate, Bracketed, Placed, After
    <2>4. Wiped'
      <3>1. \A k \in 1..pages : ~(k <= Clears(pages) - Clears(pages))
        BY DEF Clears, TypeOK
      <3>2. QED
        BY <1>4, <2>1, <3>1 DEF Debugger, mode, Wiped, Clears, TypeOK
    <2>5. Filled'
      BY <1>4, <2>1 DEF Debugger, video, Filled
    <2>6. QED
      BY <2>2, <2>3, <2>4, <2>5
  <1>5. CASE Cocktail
    <2>1. TypeOK'
      BY <1>5 DEF Cocktail, mode, memory, show, main, video, TypeOK
    <2>2. Alternate' /\ Bracketed' /\ Placed' /\ Wiped' /\ Filled'
      BY <1>5 DEF Cocktail, mode, memory, show, main, video, Alternate, Bracketed, Placed, After,
                  Wiped, Filled, Behind, Blank, Clears
    <2>3. QED
      BY <2>1, <2>2
  <1>6. QED
    BY <1>1, <1>2, <1>3, <1>4, <1>5

\* video_frame_start(), the blit and video_frame_stop().
LEMMA DrawingSteps ==
  ASSUME Ordered, FrameStart \/ Blit \/ FrameStop
  PROVE  Ordered'
  <1> USE DEF Ordered
  <1>1. CASE FrameStart
    <2>1. ~allowed /\ allowed' = TRUE /\ vpc = "start" /\ mpc = "run"
      BY <1>1 DEF FrameStart, Alternate, Bracketed, UpdateStart
    <2>2. vpc' = IF vskip THEN "stop" ELSE "pipeline"
      BY <1>1, <2>1 DEF FrameStart
    <2>3. TypeOK'
      BY <1>1, <2>1, <2>2 DEF FrameStart, mode, show, main, TypeOK
    <2>4. Alternate' /\ Bracketed' /\ Placed' /\ Wiped' /\ Filled'
      BY <1>1, <2>1, <2>2 DEF FrameStart, mode, show, main, Alternate, Bracketed, Placed, After,
                              Wiped, Filled, Behind, Blank, Clears
    <2>5. QED
      BY <2>3, <2>4
  <1>2. CASE Blit
    <2>1. /\ pic' = [pic EXCEPT ![page] = frame] /\ last' = frame /\ frame > 0
          /\ vpc = "blit" /\ vpc' = "stop" /\ mpc = "run" /\ page \in Page /\ frame \in 0..MaxFrame
      BY <1>2 DEF Blit, Alternate, TypeOK, Page
    <2>2. TypeOK'
      BY <1>2, <2>1 DEF Blit, mode, show, main, TypeOK
    <2>3. Alternate' /\ Bracketed' /\ Placed' /\ Wiped'
      BY <1>2, <2>1 DEF Blit, mode, show, main, Alternate, Bracketed, Placed, After, Wiped
    <2>4. Filled'
      BY <1>2, <2>1, BoundAssumption DEF Blit, main, Filled, TypeOK
    <2>5. QED
      BY <2>2, <2>3, <2>4
  <1>3. CASE FrameStop
    <2>1. /\ UpdateStop /\ vpc = "stop" /\ vpc' = "idle" /\ mpc = "run"
          /\ UNCHANGED <<mode, pic, last, frame, pipeline, main, vskip>>
      BY <1>3 DEF FrameStop, Alternate, Bracketed
    <2>2. /\ page' \in 0..pages - 1 /\ start' \in 0..pages - 1 /\ scan' \in 0..pages - 1
          /\ asked' \in 0..2
          /\ start' = page /\ page' = After(start')
          /\ ~async' => asked' = 0
          /\ asked' = 0 => scan' = start'
          /\ asked' = 1 => start' \in {scan', After(scan')}
      BY <2>1, StopPlaces
    <2>3. TypeOK'
      BY <2>1, <2>2 DEF UpdateStop, mode, main, TypeOK
    <2>4. Placed'
      BY <2>1, <2>2 DEF mode, Placed, After
    <2>5. Alternate' /\ Bracketed' /\ Wiped'
      BY <2>1 DEF main, UpdateStop, Alternate, Bracketed, Wiped
    <2>6. Filled'
      BY <2>1, <2>2 DEF mode, main, Filled, Blank
    <2>7. QED
      BY <2>3, <2>4, <2>5, <2>6
  <1>4. QED
    BY <1>1, <1>2, <1>3

\* advance_video_invalidate_screen(): after all its clears each page is behind the
\* one to draw.
LEMMA ClearingSteps ==
  ASSUME Ordered, ClearStart \/ ClearStop
  PROVE  Ordered'
  <1> USE DEF Ordered
  <1>1. CASE ClearStart
    <2>1. ~allowed /\ allowed' = TRUE /\ mpc = "start" /\ mpc' = "clear" /\ vpc = "idle"
      BY <1>1 DEF ClearStart, Alternate, Bracketed, UpdateStart
    <2>2. TypeOK'
      BY <1>1, <2>1 DEF ClearStart, mode, show, video, TypeOK
    <2>3. Alternate' /\ Bracketed' /\ Placed' /\ Wiped' /\ Filled'
      BY <1>1, <2>1 DEF ClearStart, mode, show, video, Alternate, Bracketed, Placed, After,
                        Wiped, Filled, Behind, Blank, Clears
    <2>4. QED
      BY <2>2, <2>3
  <1>2. CASE ClearStop
    <2>1. /\ UpdateStop /\ mpc = "clear" /\ vpc = "idle"
          /\ left' = left - 1 /\ mpc' = IF left = 1 THEN "run" ELSE "start"
          /\ pic' = [pic EXCEPT ![page] = 0] /\ last' = 0
          /\ UNCHANGED <<mode, frame, pipeline, video>>
      BY <1>2 DEF ClearStop, Alternate, Bracketed
    <2>2. /\ page' \in 0..pages - 1 /\ start' \in 0..pages - 1 /\ scan' \in 0..pages - 1
          /\ asked' \in 0..2
          /\ start' = page /\ page' = After(start')
          /\ ~async' => asked' = 0
          /\ asked' = 0 => scan' = start'
          /\ asked' = 1 => start' \in {scan', After(scan')}
      BY <2>1, StopPlaces
    <2>3. left \in 1..Clears(pages) /\ Clears(pages) \in 2..3 /\ 0 \in 0..MaxFrame
      BY <2>1, BoundAssumption DEF Wiped, Clears, TypeOK
    <2>4. TypeOK'
      <3>1. pic' \in [Page -> 0..MaxFrame] /\ last' \in 0..MaxFrame
        BY <2>1, <2>3 DEF TypeOK
      <3>2. left' \in 0..3 /\ mpc' \in {"run", "start"} /\ allowed' = FALSE
        BY <2>1, <2>3 DEF UpdateStop
      <3>3. QED
        BY <2>1, <2>2, <3>1, <3>2 DEF mode, video, TypeOK
    <2>5. Placed'
      BY <2>1, <2>2 DEF mode, Placed, After
    <2>6. Alternate' /\ Bracketed'
      BY <2>1 DEF video, UpdateStop, Alternate, Bracketed
    <2>7. ASSUME NEW k \in 1..pages, k <= Clears(pages) - left'
          PROVE  pic'[Behind(k)'] = 0
      <3>1. pages \in 1..3 /\ page \in 0..pages - 1 /\ pages' = pages /\ page' = After(page)
        BY <2>1, <2>2 DEF TypeOK, mode, UpdateStop, Display
      <3>2. CASE k = 1
        <4>1. Behind(1)' = page
          BY <3>1 DEF Behind, After
        <4>2. QED
          BY <2>1, <3>1, <3>2, <4>1 DEF TypeOK, Page
      <3>3. CASE k # 1
        <4>1. Behind(k)' = Behind(k - 1) /\ Behind(k - 1) \in Page
          BY <3>1, <3>3 DEF Behind, After, Page
        <4>2. pic[Behind(k - 1)] = 0
          BY <2>1, <2>3, <2>7, <3>1, <3>3 DEF Wiped
        <4>3. QED
          BY <2>1, <4>1, <4>2 DEF TypeOK
      <3>4. QED
        BY <3>2, <3>3
    <2>8. Wiped'
      <3>1. pages' = pages /\ Clears(pages)' = Clears(pages)
        BY <2>1 DEF mode, Clears
      <3>2. mpc' = "start" => left' \in 1..Clears(pages)
        BY <2>1, <2>3
      <3>3. QED
        BY <2>1, <2>7, <3>1, <3>2 DEF Wiped
    <2>9. Filled'
      <3>1. CASE left = 1
        <4>1. \A k \in 1..pages : pic'[Behind(k)'] = 0
          BY <2>1, <2>3, <2>7, <3>1 DEF Clears, TypeOK
        <4>2. pages \in 1..3 /\ page' \in 0..pages - 1 /\ pages' = pages
          BY <2>1, <2>2 DEF TypeOK, mode
        <4>3. \A k \in 1..pages :
                 pic'[IF page' >= k THEN page' - k ELSE page' + pages - k] = 0
          BY <4>1, <4>2 DEF Behind
        <4>4. Blank'
          <5> SUFFICES ASSUME NEW p \in 0..pages - 1 PROVE pic'[p] = 0
            BY <4>2 DEF Blank
          <5>1. \E k \in 1..pages : p = IF page' >= k THEN page' - k ELSE page' + pages - k
            BY <4>2, AllBehind
          <5>2. QED
            BY <4>3, <5>1
        <4>5. pic'[start'] = 0
          BY <2>2, <4>2, <4>4 DEF Blank
        <4>6. QED
          BY <2>1, <4>4, <4>5 DEF Filled, video
      <3>2. CASE left # 1
        BY <2>1, <3>2 DEF Filled, video
      <3>3. QED
        BY <3>1, <3>2
    <2>10. QED
      BY <2>4, <2>5, <2>6, <2>8, <2>9
  <1>3. QED
    BY <1>1, <1>2

\* The clears that follow a mode change begin with no page cleared.
LEMMA NewClears ==
  ASSUME mpc' = "start", left' = Clears(pages'), TypeOK', vpc = "idle", UNCHANGED video
  PROVE  Alternate' /\ Wiped' /\ Filled'
  <1>1. pages' \in 1..3
    BY DEF TypeOK
  <1>2. left' \in 1..Clears(pages') /\ \A k \in 1..pages' : ~(k <= Clears(pages') - left')
    BY <1>1, ClearsOfPages
  <1>3. Alternate' /\ Filled'
    BY DEF video, Alternate, Filled
  <1>4. Wiped'
    BY <1>2 DEF Wiped, Clears
  <1>5. QED
    BY <1>3, <1>4

LEMMA ModeSteps ==
  ASSUME Ordered, ModeChange
  PROVE  Ordered'
  <1> USE DEF Ordered
  <1>1. /\ mpc = "run" /\ vpc = "idle" /\ mpc' = "start" /\ left' = Clears(pages')
        /\ UNCHANGED <<pic, last, frame, video>>
    BY DEF ModeChange
  <1>2. CASE UNCHANGED <<mode, page, allowed, show>> /\ pipeline' = FALSE
    <2>1. pages' = pages /\ pages \in 1..3
      BY <1>1, <1>2 DEF mode, TypeOK
    <2>2. left' \in 0..3
      BY <1>1, <2>1, ClearsOfPages
    <2>3. TypeOK'
      BY <1>1, <1>2, <2>1, <2>2 DEF mode, show, video, TypeOK
    <2>4. Bracketed' /\ Placed'
      BY <1>1, <1>2 DEF mode, show, video, Bracketed, Placed, After
    <2>5. QED
      BY <1>1, <2>3, <2>4, NewClears
  <1>3. ASSUME NEW max_buffer, NEW fit, NEW flags, NewMode(max_buffer, fit, flags)
        PROVE  Ordered'
    <2>1. pages' \in 1..3 /\ page' = 0 /\ start' = 0 /\ scan' = 0 /\ asked' = 0
      BY <1>3, PagesOfMode DEF NewMode
    <2>2. allowed' = FALSE /\ pipeline' \in BOOLEAN /\ async' \in BOOLEAN
      BY <1>3, Zenon DEF NewMode
    <2>3. async' <=> pages' = 3
      BY <1>3 DEF NewMode
    <2>4. left' \in 0..3 /\ 0 \in 0..pages' - 1
      <3>1. Clears(pages') \in 2..3 /\ 0 \in 0..pages' - 1
        BY <2>1, ClearsOfPages
      <3>2. QED
        BY <1>1, <3>1
    <2>5. TypeOK'
      <3>1. UNCHANGED <<pic, last, frame, vpc, vskip>> /\ mpc' = "start"
        BY <1>1 DEF video
      <3>2. allowed' \in BOOLEAN
        BY <2>2
      <3>3. /\ pages' \in 1..3 /\ asked' \in 0..2
            /\ \A p \in {page', start', scan'} : p \in 0..pages' - 1
        <4>1. asked' \in 0..2
          BY <2>1
        <4>2. \A p \in {page', start', scan'} : p = 0
          BY <2>1
        <4>3. QED
          BY <2>1, <2>4, <4>1, <4>2
      <3>4. /\ pic' \in [Page -> 0..MaxFrame] /\ last' \in 0..MaxFrame /\ frame' \in 0..MaxFrame
            /\ vskip' \in BOOLEAN /\ vpc' = "idle"
        BY <1>1, <3>1 DEF TypeOK
      <3>5. QED
        BY <2>2, <2>4, <3>1, <3>2, <3>3, <3>4 DEF TypeOK
    <2>6. Bracketed' /\ Placed'
      BY <1>1, <2>1, <2>2, <2>3 DEF video, Bracketed, Placed, After
    <2>7. QED
      BY <1>1, <2>5, <2>6, NewClears
  <1>4. QED
    BY <1>2, <1>3 DEF ModeChange

LEMMA OrderedStep ==
  ASSUME Smp = FALSE, Ordered, [Next]_vars
  PROVE  Ordered'
  <1>1. CASE UNCHANGED vars
    <2>1. TypeOK'
      BY <1>1 DEF vars, mode, memory, show, main, video, Ordered, TypeOK
    <2>2. Alternate' /\ Bracketed' /\ Placed' /\ Wiped' /\ Filled'
      BY <1>1 DEF vars, mode, memory, show, main, video, Ordered, Alternate, Bracketed, Placed,
                  After, Wiped, Filled, Behind, Blank, Clears
    <2>3. QED
      BY <2>1, <2>2 DEF Ordered
  <1>2. QED
    BY <1>1, QuietSteps, DrawingSteps, ClearingSteps, ModeSteps DEF Next

\* Without the video thread a frame is drawn in a hidden page, in any order of
\* frames, skips, clears and modes, unless two pages were asked for since the last
\* retrace (update_start(), update_stop()).
THEOREM DrawingIsHidden ==
  ASSUME Smp = FALSE
  PROVE  Spec => []PageNotScanned
  <1>1. Ordered => PageNotScanned
    <2> SUFFICES ASSUME Ordered, vpc = "blit", pages > 1, asked < 2 PROVE page # scan
      BY DEF PageNotScanned
    <2>1. page = After(start) /\ pages \in 1..3 /\ scan \in 0..pages - 1 /\ asked \in 0..1
      BY DEF Ordered, Placed, Alternate, TypeOK
    <2>2. CASE start = scan
      BY <2>1, <2>2, AfterIsAPage
    <2>3. CASE start # scan
      <3>1. start = After(scan) /\ pages = 3
        BY <2>1, <2>3 DEF Ordered, Placed
      <3>2. QED
        BY <2>1, <3>1, AfterIsAPage
    <2>4. QED
      BY <2>2, <2>3
  <1>2. Ordered /\ [Next]_vars => Ordered'
    BY OrderedStep
  <1>3. QED
    BY <1>1, <1>2, OrderedInit, PTL DEF Spec

\* The last frame, or the blank screen, is the page on the screen.
THEOREM LastFrameIsShown ==
  ASSUME Smp = FALSE
  PROVE  Spec => []LastIsShown
  <1>1. Ordered => LastIsShown
    BY DEF Ordered, Filled, LastIsShown
  <1>2. Ordered /\ [Next]_vars => Ordered'
    BY OrderedStep
  <1>3. QED
    BY <1>1, <1>2, OrderedInit, PTL DEF Spec

\* advance_video_invalidate_screen() leaves nothing in any page.
THEOREM ClearsAllPages ==
  ASSUME Smp = FALSE
  PROVE  Spec => []AllCleared
  <1>1. Ordered => AllCleared
    BY DEF Ordered, Filled, AllCleared, Blank
  <1>2. Ordered /\ [Next]_vars => Ordered'
    BY OrderedStep
  <1>3. QED
    BY <1>1, <1>2, OrderedInit, PTL DEF Spec

\* No assert of update_start() and update_stop() fails.
NoAssert == mpc # "assert" /\ vpc # "assert"

THEOREM AssertsHold ==
  ASSUME Smp = FALSE
  PROVE  Spec => []NoAssert
  <1>1. Ordered => NoAssert
    BY DEF Ordered, Alternate, NoAssert
  <1>2. Ordered /\ [Next]_vars => Ordered'
    BY OrderedStep
  <1>3. QED
    BY <1>1, <1>2, OrderedInit, PTL DEF Spec
=============================================================================
