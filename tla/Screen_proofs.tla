---------------------------- MODULE Screen_proofs ----------------------------
(***************************************************************************)
(* No write of the kernel leaves a page and every terminal's text is its   *)
(* own, less what the flags of Views name, for every number of terminals,  *)
(* every size of the screen, every string and every movement of the mouse. *)
(***************************************************************************)
EXTENDS Screen, Recursion, SequenceTheorems

USE SizeAssumption, ScreenAssumption

-----------------------------------------------------------------------------
(* Places on the screen: lines and columns                                 *)
LEMMA Products ==
  ASSUME NEW a \in Nat, NEW b \in Nat, NEW c \in Nat, a <= b
  PROVE  a * c \in Nat /\ a * c <= b * c
OBVIOUS

LEMMA Lines ==
  ASSUME NEW p \in Offsets
  PROVE  /\ p \div NUM_COLS \in 0..(NUM_ROWS - 1) /\ p % NUM_COLS \in 0..(NUM_COLS - 1)
         /\ p = (p \div NUM_COLS) * NUM_COLS + (p % NUM_COLS)
<1>1. p \in Nat /\ p < NUM_ROWS * NUM_COLS
  BY DEF Offsets
<1>2. p % NUM_COLS \in 0..(NUM_COLS - 1) /\ p \div NUM_COLS \in Nat
      /\ p = (p \div NUM_COLS) * NUM_COLS + (p % NUM_COLS)
  BY <1>1
<1>3. p \div NUM_COLS < NUM_ROWS
  <2> DEFINE y == p \div NUM_COLS
  <2>1. y * NUM_COLS <= p /\ y \in Nat
    BY <1>1, <1>2
  <2> HIDE DEF y
  <2>2. SUFFICES ASSUME NUM_ROWS <= y PROVE FALSE
    BY <2>1 DEF y
  <2>3. NUM_ROWS * NUM_COLS <= y * NUM_COLS /\ y * NUM_COLS \in Nat
    BY <2>1, <2>2, Products
  <2> QED
    BY <1>1, <2>1, <2>3
<1> QED
  BY <1>2, <1>3

LEMMA LineStart ==
  ASSUME NEW y \in 0..(NUM_ROWS - 1)
  PROVE  /\ y * NUM_COLS \in Offsets /\ y * NUM_COLS + 1 \in Offsets
         /\ (y * NUM_COLS) % NUM_COLS = 0
         /\ \A x \in 0..(NUM_COLS - 1) : y * NUM_COLS + x \in Offsets
<1>1. (y + 1) * NUM_COLS <= NUM_ROWS * NUM_COLS
  BY Products
<1>2. (y + 1) * NUM_COLS = y * NUM_COLS + NUM_COLS /\ y * NUM_COLS \in Nat
  BY Products
<1>3. \A x \in 0..(NUM_COLS - 1) : y * NUM_COLS + x \in Offsets
  BY <1>1, <1>2 DEF Offsets
<1>4. (y * NUM_COLS) % NUM_COLS = 0
  OBVIOUS
<1> QED
  BY <1>2, <1>3, <1>4

(* The place after one that is not in the last column, and those before    *)
LEMMA Neighbours ==
  ASSUME NEW p \in Offsets
  PROVE  /\ p % NUM_COLS < NUM_COLS - 1 => p + 1 \in Offsets
         /\ p # 0 => p - 1 \in Offsets
         /\ p # 0 /\ p % NUM_COLS = 0 => p - 2 \in Offsets
<1> DEFINE y == p \div NUM_COLS
           x == p % NUM_COLS
<1>0. p \in Nat
  BY DEF Offsets
<1>1. y \in 0..(NUM_ROWS - 1) /\ x \in 0..(NUM_COLS - 1) /\ p = y * NUM_COLS + x /\ p \in Nat
  BY <1>0, Lines
<1> HIDE DEF x, y
<1>2. y * NUM_COLS \in Nat
  BY <1>1, Products
<1>3. ASSUME x < NUM_COLS - 1 PROVE p + 1 \in Offsets
  <2>1. x + 1 \in 0..(NUM_COLS - 1)
    BY <1>1, <1>3
  <2>2. y * NUM_COLS + (x + 1) \in Offsets
    BY <1>1, <2>1, LineStart
  <2> QED
    BY <1>1, <1>2, <2>2
<1>4. p # 0 => p - 1 \in Offsets
  BY DEF Offsets
<1>5. ASSUME p # 0, x = 0 PROVE p - 2 \in Offsets
  <2>1. y # 0
    BY <1>1, <1>5
  <2>2. NUM_COLS <= y * NUM_COLS
    BY <1>1, <2>1, Products
  <2> QED
    BY <1>1, <1>2, <1>5, <2>2 DEF Offsets
<1> QED
  BY <1>3, <1>4, <1>5 DEF x

-----------------------------------------------------------------------------
(* The contents of video memory                                            *)
Glyphs == {" ", "a"} \cup UNION {{s[i] : i \in 1..Len(s)} : s \in Strings \cup {Banner}}
Grids  == [Offsets -> Glyphs]
VMs    == [page : [Pages -> Grids], map : Pages, umap : Pages,
           cursor_offset : [Terms -> Offsets], hw : Offsets]

Kind == visible_term \in Terms /\ cur_term \in Terms

LEMMA PageNames == SCREEN \in Pages /\ SCREEN \notin Terms /\ Terms \subseteq Pages /\ 0 \in Terms
BY DEF SCREEN, Pages

(* Writing on terminal t from memory v: what Views says of it              *)
Txt(v, t) == IF t = visible_term THEN v.page[SCREEN] ELSE v.page[t]
Positions == [g : Grids, p : Offsets]

(* From v to w the writing on t moved the place of the terminal shown, if  *)
(* that is another, only as a scroll does.                                 *)
Raises(w, v, t) ==
  t # visible_term => V!Raised(v.cursor_offset[visible_term], w.cursor_offset[visible_term])

LEMMA RaisesNot ==
  ASSUME NEW v, NEW w, NEW t \in Terms, visible_term \in Terms,
         t # visible_term => w.cursor_offset[visible_term] = v.cursor_offset[visible_term]
  PROVE  Raises(w, v, t)
BY DEF Raises, V!Raised

LEMMA RaisesOn ==
  ASSUME NEW v \in VMs, NEW w \in VMs, NEW x \in VMs, NEW t \in Terms, visible_term \in Terms,
         Raises(w, v, t), Raises(x, w, t)
  PROVE  Raises(x, v, t)
<1> DEFINE a == v.cursor_offset[visible_term]
           b == w.cursor_offset[visible_term]
           c == x.cursor_offset[visible_term]
<1>1. a \in Nat /\ b \in Nat /\ c \in Nat
  BY DEF VMs, Offsets
<1>2. t # visible_term => V!Raised(a, b) /\ V!Raised(b, c)
  BY DEF Raises
<1> HIDE DEF a, b, c
<1>3. t # visible_term => V!Raised(a, c)
  BY <1>1, <1>2 DEF V!Raised
<1> QED
  BY <1>3 DEF Raises, a, c

(* w is v after t was written: the place of the next character is z's and, *)
(* if the writing went where it belongs and g was the text, the text is    *)
(* z's; the other texts are as they were, and so are the other places, but *)
(* for a scroll's.                                                         *)
Said(w, v, t, ok, g, z) ==
  /\ w \in VMs /\ z \in Positions /\ w.cursor_offset[t] = z.p
  /\ \A u \in Terms \ {t, visible_term} : w.cursor_offset[u] = v.cursor_offset[u]
  /\ Raises(w, v, t)
  /\ IF t = visible_term THEN w.hw = z.p \/ (w.hw = v.hw /\ z.p = v.cursor_offset[t])
     ELSE w.hw = v.hw
  /\ \A u \in Terms \ {t} : Txt(w, u) = Txt(v, u)
  /\ ok /\ g = Txt(v, t) => Txt(w, t) = z.g

PageOf(t) == IF t = visible_term THEN SCREEN ELSE t

(* The page mapped is that of t, or the one no text is on                  *)
Routed(v, t) == v.map = PageOf(t) \/ (t # visible_term /\ v.map = visible_term)

LEMMA PagesApart ==
  ASSUME NEW v, NEW t \in Terms, NEW u \in Terms \ {t}, visible_term \in Terms, Routed(v, t)
  PROVE  /\ PageOf(t) \in Pages /\ PageOf(u) \in Pages
         /\ PageOf(u) # PageOf(t) /\ PageOf(u) # v.map
BY PageNames DEF PageOf, Routed

LEMMA TxtPage == \A v, t : Txt(v, t) = v.page[PageOf(t)]
BY DEF Txt, PageOf

LEMMA Shapes ==
  /\ V!Cells = Offsets
  /\ \A z, c : V!Newline(z) = IF V!Line(z) = NUM_ROWS - 1
                              THEN [g |-> V!Scroll(z.g), p |-> V!Line(z) * NUM_COLS]
                              ELSE [z EXCEPT !.p = (V!Line(z) + 1) * NUM_COLS]
BY DEF V!Cells, Offsets, V!Newline

LEMMA ScrollType ==
  ASSUME NEW g \in Grids
  PROVE  V!Scroll(g) \in Grids
BY DEF V!Scroll, V!Cells, Offsets, Grids, Glyphs

LEMMA MoveToType ==
  ASSUME NEW v \in VMs, NEW t \in Terms, NEW p \in Offsets
  PROVE  LET w == MoveTo(v, t, p) IN
         /\ w \in VMs /\ w.page = v.page /\ w.map = v.map /\ w.umap = v.umap
         /\ w.cursor_offset = [v.cursor_offset EXCEPT ![t] = p]
         /\ w.hw = IF t = visible_term THEN p ELSE v.hw
<1>1. MoveTo(v, t, p) \in VMs
  BY DEF MoveTo, VMs
<1> QED
  BY <1>1 DEF MoveTo, VMs

(* lines_moving_up, then the cursor of t                                   *)
Up(v, t, p) == MoveTo(lines_moving_up(v, t), t, p)

Scrolled(w, v, t, p) ==
  /\ w \in VMs /\ w.map = v.map /\ w.umap = v.umap
  /\ w.page = [v.page EXCEPT ![v.map] = V!Scroll(v.page[v.map])]
  /\ w.cursor_offset[t] = p
  /\ \A u \in Terms \ {t, visible_term} : w.cursor_offset[u] = v.cursor_offset[u]
  /\ Raises(w, v, t)
  /\ w.hw = IF t = visible_term THEN p ELSE v.hw

LEMMA UpType ==
  ASSUME NEW v \in VMs, NEW t \in Terms, NEW p \in Offsets, visible_term \in Terms
  PROVE  Scrolled(Up(v, t, p), v, t, p)
<1> DEFINE y == Y(v, visible_term)
           q == (IF y > 0 THEN y - 1 ELSE y) * NUM_COLS
           g == v.page[v.map]
           w1 == [v EXCEPT !.page[v.map] = V!Scroll(@)]
           m == lines_moving_up(v, t)
           b == v.cursor_offset[visible_term]
<1>1. q \in Offsets /\ V!Raised(b, q)
  <2> DEFINE l == IF y > 0 THEN y - 1 ELSE y
  <2>1. b \in Offsets /\ y = b \div NUM_COLS
    BY DEF VMs, Y
  <2> HIDE DEF b, y
  <2>2. /\ y \in 0..(NUM_ROWS - 1) /\ b % NUM_COLS \in 0..(NUM_COLS - 1)
        /\ b = y * NUM_COLS + (b % NUM_COLS)
    BY <2>1, Lines
  <2>3. l \in 0..(NUM_ROWS - 1) /\ l <= y
    BY <2>2
  <2> HIDE DEF l
  <2>4. l * NUM_COLS \in Offsets /\ (l * NUM_COLS) % NUM_COLS = 0
    BY <2>3, LineStart
  <2>5. l * NUM_COLS <= b
    <3>1. l * NUM_COLS \in Nat /\ l * NUM_COLS <= y * NUM_COLS
      BY <2>2, <2>3, Products
    <3>2. y * NUM_COLS \in Nat /\ y * NUM_COLS <= b
      <4> DEFINE r == b % NUM_COLS
      <4>1. r \in Nat /\ b = y * NUM_COLS + r
        BY <2>2
      <4>2. y * NUM_COLS \in Nat
        BY <2>2, Products
      <4> HIDE DEF r
      <4> QED
        BY <4>1, <4>2
    <3>3. b \in Nat
      BY <2>1 DEF Offsets
    <3> QED
      BY <3>1, <3>2, <3>3
  <2> QED
    BY <2>4, <2>5 DEF V!Raised, l
<1>2. g \in Grids /\ V!Scroll(g) \in Grids
  BY ScrollType DEF VMs
<1>3. w1 \in VMs /\ w1.page = [v.page EXCEPT ![v.map] = V!Scroll(v.page[v.map])] /\ w1.map = v.map /\ w1.umap = v.umap
      /\ w1.cursor_offset = v.cursor_offset /\ w1.hw = v.hw
  BY <1>2 DEF VMs
<1>4. m = [w1 EXCEPT !.cursor_offset[visible_term] = q, !.hw = IF t = visible_term THEN q ELSE @]
  BY DEF lines_moving_up, V!Scroll, V!Cells, Offsets
<1> HIDE DEF q, w1, m
<1>5. m \in VMs /\ m.page = w1.page /\ m.map = v.map /\ m.umap = v.umap
  BY <1>1, <1>3, <1>4 DEF VMs
<1>6. m.cursor_offset = [v.cursor_offset EXCEPT ![visible_term] = q]
      /\ m.hw = IF t = visible_term THEN q ELSE v.hw
  BY <1>1, <1>3, <1>4 DEF VMs
<1>7. v.cursor_offset \in [Terms -> Offsets] /\ m.cursor_offset \in [Terms -> Offsets]
  BY <1>5 DEF VMs
<1> DEFINE w == MoveTo(m, t, p)
<1>8. /\ w \in VMs /\ w.page = m.page /\ w.map = m.map /\ w.umap = m.umap
      /\ w.cursor_offset = [m.cursor_offset EXCEPT ![t] = p]
      /\ w.hw = IF t = visible_term THEN p ELSE m.hw
  BY <1>5, MoveToType
<1>9. w = Up(v, t, p)
  BY DEF Up, m
<1> HIDE DEF w
<1>10. /\ w.cursor_offset[t] = p
       /\ \A u \in Terms \ {t, visible_term} : w.cursor_offset[u] = v.cursor_offset[u]
       /\ t # visible_term => w.cursor_offset[visible_term] = q
  BY <1>6, <1>7, <1>8
<1>11. Raises(w, v, t)
  BY <1>1, <1>10 DEF Raises
<1>12. w.hw = IF t = visible_term THEN p ELSE v.hw
  BY <1>6, <1>8
<1> QED
  BY <1>3, <1>5, <1>8, <1>9, <1>10, <1>11, <1>12 DEF Scrolled

(* A newline on the page mapped                                            *)
LEMMA NewlineDone ==
  ASSUME NEW v \in VMs, NEW t \in Terms, visible_term \in Terms, NEW g \in Grids, Routed(v, t)
  PROVE  LET w == add_newline(v, t) IN
         /\ Said(w, v, t, v.map = PageOf(t), g, V!Newline([g |-> g, p |-> v.cursor_offset[t]]))
         /\ w.map = v.map /\ w.umap = v.umap /\ w.cursor_offset[t] % NUM_COLS = 0
<1> DEFINE w == add_newline(v, t)
           b == v.cursor_offset[t]
           y == b \div NUM_COLS
           z == V!Newline([g |-> g, p |-> b])
<1>1. b \in Offsets /\ y \in 0..(NUM_ROWS - 1)
  <2>1. b \in Offsets
    BY DEF VMs
  <2> HIDE DEF b
  <2> QED
    BY <2>1, Lines
<1>2. z = IF y = NUM_ROWS - 1 THEN [g |-> V!Scroll(g), p |-> y * NUM_COLS]
          ELSE [g |-> g, p |-> (y + 1) * NUM_COLS]
  BY DEF V!Newline, V!Line
<1>3. w = IF y = NUM_ROWS - 1 THEN Up(v, t, y * NUM_COLS) ELSE MoveTo(v, t, (y + 1) * NUM_COLS)
  BY DEF add_newline, Up, Y
<1>4. v.page \in [Pages -> Grids] /\ v.map \in Pages /\ v.cursor_offset \in [Terms -> Offsets]
  BY DEF VMs
<1> HIDE DEF b, y, w, z
<1>5. CASE y = NUM_ROWS - 1
  <2> DEFINE p == y * NUM_COLS
  <2>1. p \in Offsets /\ p % NUM_COLS = 0
    BY <1>1, LineStart
  <2>2. z = [g |-> V!Scroll(g), p |-> p] /\ w = Up(v, t, p)
    BY <1>2, <1>3, <1>5
  <2> HIDE DEF p
  <2>3. z \in Positions
    BY <2>1, <2>2, ScrollType DEF Positions
  <2>4. /\ w \in VMs /\ w.map = v.map /\ w.umap = v.umap
        /\ w.page = [v.page EXCEPT ![v.map] = V!Scroll(v.page[v.map])]
        /\ w.cursor_offset[t] = p
        /\ \A u \in Terms \ {t, visible_term} : w.cursor_offset[u] = v.cursor_offset[u]
        /\ Raises(w, v, t)
        /\ w.hw = IF t = visible_term THEN p ELSE v.hw
    <3>1. Scrolled(w, v, t, p)
      BY <2>1, <2>2, UpType
    <3> QED
      BY <3>1 DEF Scrolled
  <2>5. \A u \in Terms \ {t} : Txt(w, u) = Txt(v, u)
    BY <1>4, <2>4, PagesApart, TxtPage
  <2>6. v.map = PageOf(t) /\ g = Txt(v, t) => Txt(w, t) = z.g
    BY <1>4, <2>2, <2>4, TxtPage
  <2>7. Said(w, v, t, v.map = PageOf(t), g, z)
    BY <2>2, <2>3, <2>4, <2>5, <2>6 DEF Said
  <2> QED
    BY <2>1, <2>4, <2>7 DEF w, z, b
<1>6. CASE y # NUM_ROWS - 1
  <2>1. (y + 1) * NUM_COLS \in Offsets /\ ((y + 1) * NUM_COLS) % NUM_COLS = 0
    <3>1. y + 1 \in 0..(NUM_ROWS - 1)
      BY <1>1, <1>6
    <3> QED
      BY <3>1, LineStart
  <2>2. z = [g |-> g, p |-> (y + 1) * NUM_COLS] /\ w = MoveTo(v, t, (y + 1) * NUM_COLS)
    BY <1>2, <1>3, <1>6
  <2>3. z \in Positions
    BY <2>1, <2>2 DEF Positions
  <2>4. /\ w \in VMs /\ w.page = v.page /\ w.map = v.map /\ w.umap = v.umap
        /\ w.cursor_offset = [v.cursor_offset EXCEPT ![t] = (y + 1) * NUM_COLS]
        /\ w.hw = IF t = visible_term THEN (y + 1) * NUM_COLS ELSE v.hw
    BY <2>1, <2>2, MoveToType
  <2>5. /\ w.cursor_offset[t] = (y + 1) * NUM_COLS
        /\ \A u \in Terms \ {t} : w.cursor_offset[u] = v.cursor_offset[u]
        /\ Raises(w, v, t)
    BY <1>4, <2>4, RaisesNot
  <2>6. \A u : Txt(w, u) = Txt(v, u)
    BY <2>4, TxtPage
  <2>7. z.p = w.cursor_offset[t] /\ z.g = g /\ w.hw = IF t = visible_term THEN z.p ELSE v.hw
    BY <2>2, <2>4, <2>5
  <2>8. Said(w, v, t, v.map = PageOf(t), g, z)
    BY <2>3, <2>4, <2>5, <2>6, <2>7 DEF Said
  <2> QED
    BY <2>1, <2>4, <2>5, <2>8 DEF w, z, b
<1> QED
  BY <1>5, <1>6

(* One piece of writing after another                                      *)
LEMMA SaidOn ==
  ASSUME NEW v \in VMs, NEW w, NEW x, NEW t \in Terms, visible_term \in Terms, NEW ok \in BOOLEAN, NEW g, NEW y, NEW z,
         Said(w, v, t, ok, g, y), Said(x, w, t, ok, y.g, z)
  PROVE  Said(x, v, t, ok, g, z)
<1>1. \A u \in Terms \ {t, visible_term} : x.cursor_offset[u] = v.cursor_offset[u]
  BY DEF Said
<1>2. \A u \in Terms \ {t} : Txt(x, u) = Txt(v, u)
  BY DEF Said
<1>3. IF t = visible_term THEN x.hw = z.p \/ (x.hw = v.hw /\ z.p = v.cursor_offset[t])
      ELSE x.hw = v.hw
  BY DEF Said
<1>4. ok /\ g = Txt(v, t) => Txt(x, t) = z.g
  BY DEF Said
<1>5. Raises(x, v, t)
  BY RaisesOn DEF Said
<1> QED
  BY <1>1, <1>2, <1>3, <1>4, <1>5 DEF Said

(* A character at the cursor: n is the place of the next                   *)
Wrote(w, v, t, g, c, n) ==
  /\ Said(w, v, t, v.map = PageOf(t), g, [g |-> [g EXCEPT ![v.cursor_offset[t]] = c], p |-> n])
  /\ w.map = v.map /\ w.umap = v.umap
  /\ t = visible_term => w.hw = n

LEMMA WriteDone ==
  ASSUME NEW v \in VMs, NEW t \in Terms, visible_term \in Terms, NEW g \in Grids, Routed(v, t),
         NEW c \in Glyphs, NEW del \in {0, 1}, NEW n \in Offsets, n = v.cursor_offset[t] + 1 - del
  PROVE  Wrote(write_char(v, c, del, t), v, t, g, c, n)
<1> DEFINE w == write_char(v, c, del, t)
           b == v.cursor_offset[t]
           q == IF t = visible_term THEN v.map ELSE t
           w1 == [v EXCEPT !.page[q][b] = c]
           z == [g |-> [g EXCEPT ![b] = c], p |-> n]
<1>1. b \in Offsets /\ q \in Pages /\ n \in Offsets /\ q = PageOf(t)
  BY PageNames DEF VMs, Routed, PageOf
<1>2. w = MoveTo(w1, t, n)
  BY DEF write_char
<1>3. v.page \in [Pages -> Grids] /\ v.page[q] \in Grids /\ v.cursor_offset \in [Terms -> Offsets]
  BY <1>1 DEF VMs
<1>4. [v.page[q] EXCEPT ![b] = c] \in Grids /\ [g EXCEPT ![b] = c] \in Grids
  BY <1>1, <1>3 DEF Grids
<1> HIDE DEF b, q
<1>5. /\ w1.page = [v.page EXCEPT ![q] = [v.page[q] EXCEPT ![b] = c]]
      /\ w1.map = v.map /\ w1.umap = v.umap /\ w1.cursor_offset = v.cursor_offset /\ w1.hw = v.hw
  BY <1>1, <1>3 DEF VMs
<1>6. w1 \in VMs
  BY <1>1, <1>3, <1>4 DEF VMs
<1> HIDE DEF w1, w
<1>7. /\ w \in VMs /\ w.page = w1.page /\ w.map = v.map /\ w.umap = v.umap
      /\ w.cursor_offset = [v.cursor_offset EXCEPT ![t] = n]
      /\ w.hw = IF t = visible_term THEN n ELSE v.hw
  BY <1>1, <1>2, <1>5, <1>6, MoveToType
<1>8. /\ w.cursor_offset[t] = n /\ \A u \in Terms \ {t} : w.cursor_offset[u] = v.cursor_offset[u]
      /\ Raises(w, v, t)
  BY <1>3, <1>7, RaisesNot
<1>9. z \in Positions /\ z.p = n /\ z.g = [g EXCEPT ![b] = c]
  BY <1>1, <1>4 DEF Positions
<1> HIDE DEF z
<1>10. \A u \in Terms \ {t} : Txt(w, u) = Txt(v, u)
  BY <1>1, <1>3, <1>5, <1>7, PagesApart, TxtPage
<1>11. g = Txt(v, t) => Txt(w, t) = z.g
  BY <1>1, <1>3, <1>5, <1>7, <1>9, TxtPage
<1>12. Said(w, v, t, v.map = PageOf(t), g, z)
  BY <1>7, <1>8, <1>9, <1>10, <1>11 DEF Said
<1> QED
  BY <1>7, <1>12 DEF w, z, b, Wrote

(* A backspace                                                             *)
LEMMA DeleteDone ==
  ASSUME NEW v \in VMs, NEW t \in Terms, visible_term \in Terms, NEW g \in Grids, Routed(v, t)
  PROVE  LET w == delete_char(v, t) IN
         /\ Said(w, v, t, v.map = PageOf(t), g,
                 V!Shown([g |-> g, p |-> v.cursor_offset[t]], "BS"))
         /\ w.map = v.map /\ w.umap = v.umap
<1> DEFINE w == delete_char(v, t)
           b == v.cursor_offset[t]
           z0 == [g |-> g, p |-> b]
           z == V!Shown(z0, "BS")
           n == V!Before(z0)
<1>1. v.cursor_offset \in [Terms -> Offsets] /\ b \in Offsets /\ v.page \in [Pages -> Grids]
  BY DEF VMs
<1>2. z = IF b = 0 THEN z0 ELSE [g |-> [g EXCEPT ![n] = " "], p |-> n]
  BY DEF V!Shown
<1>3. n = IF b % NUM_COLS = 0 THEN b - 2 ELSE b - 1
  BY DEF V!Before
<1>4. CASE b = 0
  <2>1. w = v /\ z = z0
    BY <1>2, <1>4 DEF delete_char
  <2>2. z \in Positions /\ z.p = b /\ z.g = g /\ Raises(v, v, t)
    BY <1>1, <2>1, RaisesNot DEF Positions
  <2> QED
    BY <2>1, <2>2 DEF Said
<1>5. CASE b # 0
  <2> DEFINE v1 == [v EXCEPT !.cursor_offset[t] = n]
             y  == [g |-> [g EXCEPT ![n] = " "], p |-> n]
  <2>1. n \in Offsets /\ n \in Int
    <3>1. b \in Offsets /\ b # 0
      BY <1>1, <1>5
    <3> HIDE DEF n, b
    <3> QED
      BY <1>3, <3>1, Neighbours DEF Offsets
  <2>2. w = write_char(v1, " ", 1, t)
    BY <1>3, <1>5 DEF delete_char, X
  <2>3. z = y
    BY <1>2, <1>5
  <2> HIDE DEF n, b, z, w
  <2>4. /\ v1 \in VMs /\ v1.page = v.page /\ v1.map = v.map /\ v1.umap = v.umap /\ v1.hw = v.hw
        /\ v1.cursor_offset = [v.cursor_offset EXCEPT ![t] = n]
    BY <1>1, <2>1 DEF VMs
  <2>5. v1.cursor_offset[t] = n /\ \A u \in Terms \ {t} : v1.cursor_offset[u] = v.cursor_offset[u]
    BY <1>1, <2>4
  <2> HIDE DEF v1
  <2>6. Wrote(w, v1, t, g, " ", n)
    <3>1. Routed(v1, t)
      BY <2>4 DEF Routed
    <3>2. n = v1.cursor_offset[t] + 1 - 1
      BY <2>1, <2>5
    <3>3. " " \in Glyphs
      BY DEF Glyphs
    <3> QED
      BY <2>1, <2>2, <2>4, <3>1, <3>2, <3>3, WriteDone
  <2>7. w.map = v1.map /\ w.umap = v1.umap /\ (t = visible_term => w.hw = n)
    BY <2>6 DEF Wrote
  <2>8. Said(w, v1, t, v.map = PageOf(t), g, y)
    BY <2>4, <2>5, <2>6 DEF Wrote
  <2>9. Said(w, v, t, v.map = PageOf(t), g, y)
    <3>0. y.p = n
      OBVIOUS
    <3> HIDE DEF y
    <3>1. /\ \A u \in Terms \ {t, visible_term} : w.cursor_offset[u] = v.cursor_offset[u]
          /\ Raises(w, v, t)
      BY <2>5, <2>8 DEF Said, Raises
    <3>2. \A u : Txt(v1, u) = Txt(v, u)
      BY <2>4, TxtPage
    <3>3. \A u \in Terms \ {t} : Txt(w, u) = Txt(v, u)
      BY <2>8, <3>2 DEF Said
    <3>4. v.map = PageOf(t) /\ g = Txt(v, t) => Txt(w, t) = y.g
      BY <2>8, <3>2 DEF Said
    <3>5. IF t = visible_term THEN w.hw = y.p ELSE w.hw = v.hw
      BY <2>4, <2>7, <2>8, <3>0 DEF Said
    <3> QED
      BY <2>8, <3>1, <3>3, <3>4, <3>5 DEF Said
  <2> QED
    BY <2>3, <2>4, <2>7, <2>9 DEF z, b, w
<1> QED
  BY <1>4, <1>5

(* A character at the cursor, by Views                                     *)
LEMMA PutcDone ==
  ASSUME NEW v \in VMs, NEW t \in Terms, visible_term \in Terms, NEW g \in Grids, Routed(v, t),
         NEW c \in Glyphs
  PROVE  LET w == Putc(v, c, t) IN
         /\ Said(w, v, t, v.map = PageOf(t), g, V!Shown([g |-> g, p |-> v.cursor_offset[t]], c))
         /\ w.map = v.map /\ w.umap = v.umap
<1> DEFINE w == Putc(v, c, t)
           b == v.cursor_offset[t]
           z0 == [g |-> g, p |-> b]
           z == V!Shown(z0, c)
           ok == v.map = PageOf(t)
<1>1. b \in Offsets
  BY DEF VMs
<1>2. CASE c = "\n"
  <2>1. w = add_newline(v, t) /\ z = V!Newline(z0)
    BY <1>2 DEF Putc, V!Shown
  <2> QED
    BY <2>1, NewlineDone
<1>3. CASE c = "BS"
  <2>1. w = delete_char(v, t) /\ z = V!Shown(z0, "BS")
    BY <1>3 DEF Putc
  <2> QED
    BY <2>1, DeleteDone
<1>4. CASE c # "\n" /\ c # "BS"
  <2>1. w = write_char(IF b % NUM_COLS >= NUM_COLS - 1 THEN add_newline(v, t) ELSE v, c, 0, t)
    BY <1>4 DEF Putc, X
  <2>2. z = V!Put(IF b % NUM_COLS = NUM_COLS - 1 THEN V!Newline(z0) ELSE z0, c)
    BY <1>4 DEF V!Shown
  <2>3. b % NUM_COLS \in 0..(NUM_COLS - 1)
    <3> HIDE DEF b
    <3> QED
      BY <1>1, Lines
  <2>4. CASE b % NUM_COLS = NUM_COLS - 1
    <3> DEFINE v1 == add_newline(v, t)
               y  == V!Newline(z0)
    <3>1. w = write_char(v1, c, 0, t) /\ z = V!Put(y, c)
      BY <2>1, <2>2, <2>4
    <3>2. /\ Said(v1, v, t, ok, g, y)
          /\ v1.map = v.map /\ v1.umap = v.umap /\ v1.cursor_offset[t] % NUM_COLS = 0
      BY NewlineDone
    <3> HIDE DEF v1, y, z, w
    <3>3. v1 \in VMs /\ y \in Positions /\ v1.cursor_offset[t] = y.p
      BY <3>2 DEF Said
    <3>4. y.g \in Grids /\ y.p \in Offsets
      BY <3>3 DEF Positions
    <3>5. y.p + 1 \in Offsets /\ y.p + 1 = v1.cursor_offset[t] + 1 - 0
      BY <3>2, <3>3, <3>4, Neighbours DEF Offsets
    <3>6. Routed(v1, t)
      BY <3>2 DEF Routed
    <3>7. Wrote(w, v1, t, y.g, c, y.p + 1)
      BY <3>1, <3>3, <3>4, <3>5, <3>6, WriteDone
    <3>8. z = [g |-> [y.g EXCEPT ![y.p] = c], p |-> y.p + 1]
      BY <3>1 DEF V!Put
    <3>9. Said(w, v1, t, ok, y.g, z) /\ w.map = v1.map /\ w.umap = v1.umap
      BY <3>2, <3>3, <3>7, <3>8 DEF Wrote
    <3> HIDE DEF ok
    <3>10. ok \in BOOLEAN
      BY DEF ok
    <3>11. Said(w, v, t, ok, g, z)
      BY <3>2, <3>9, <3>10, SaidOn
    <3> QED
      BY <3>2, <3>9, <3>11 DEF w, z, ok
  <2>5. CASE b % NUM_COLS # NUM_COLS - 1
    <3>1. w = write_char(v, c, 0, t) /\ z = V!Put(z0, c)
      BY <2>1, <2>2, <2>3, <2>5
    <3>2. z = [g |-> [g EXCEPT ![b] = c], p |-> b + 1]
      BY <3>1 DEF V!Put
    <3>3. b + 1 \in Offsets /\ b + 1 = b + 1 - 0
      <4> DEFINE x == b % NUM_COLS
      <4>1. x \in 0..(NUM_COLS - 1) /\ x # NUM_COLS - 1
        BY <2>3, <2>5
      <4> HIDE DEF x
      <4>2. x < NUM_COLS - 1
        BY <4>1
      <4>3. b % NUM_COLS < NUM_COLS - 1
        BY <4>2 DEF x
      <4> HIDE DEF b
      <4>4. b + 1 \in Offsets
        BY <1>1, <4>3, Neighbours
      <4> QED
        BY <1>1, <4>4 DEF Offsets
    <3> HIDE DEF b
    <3>4. Wrote(w, v, t, g, c, b + 1)
      BY <3>1, <3>3, WriteDone DEF b
    <3> QED
      BY <3>2, <3>4 DEF Wrote, b
  <2> QED
    BY <2>4, <2>5
<1> QED
  BY <1>2, <1>3, <1>4

-----------------------------------------------------------------------------
(* putc_by sees to the mapping of the page.                                *)
Ready(v, t) == t = visible_term \/ v.map \in {t, visible_term}
Heard(v, t) == t = visible_term \/ v.map = t

Mapped(w, v, t) == \/ w.map = v.map /\ w.umap = v.umap
                   \/ t = visible_term /\ w.map = t /\ w.umap = t

LEMMA MapOnly ==
  ASSUME NEW v \in VMs, NEW q \in Pages
  PROVE  LET w == change_term_vidmap(v, q) IN
         /\ w \in VMs /\ w.page = v.page /\ w.map = q /\ w.umap = q
         /\ w.cursor_offset = v.cursor_offset /\ w.hw = v.hw
BY DEF change_term_vidmap, VMs

LEMMA PutcByDone ==
  ASSUME NEW v \in VMs, NEW t \in Terms, visible_term \in Terms, NEW g \in Grids, Ready(v, t),
         NEW c \in Glyphs
  PROVE  LET w == putc_by(t, v, c) IN
         /\ Said(w, v, t, Heard(v, t), g, V!Shown([g |-> g, p |-> v.cursor_offset[t]], c))
         /\ Mapped(w, v, t)
<1> DEFINE z == V!Shown([g |-> g, p |-> v.cursor_offset[t]], c)
<1>1. CASE t = visible_term
  <2> DEFINE v1 == change_term_vidmap(v, SCREEN)
             w1 == Putc(v1, c, t)
             w  == change_term_vidmap(w1, t)
  <2>1. putc_by(t, v, c) = w
    BY <1>1 DEF putc_by, change_term_vidmap, change_term_vidmap_same
  <2>2. /\ v1 \in VMs /\ v1.page = v.page /\ v1.map = SCREEN
        /\ v1.cursor_offset = v.cursor_offset /\ v1.hw = v.hw
    BY PageNames, MapOnly
  <2> HIDE DEF v1
  <2>3. Routed(v1, t) /\ v1.map = PageOf(t)
    BY <1>1, <2>2 DEF Routed, PageOf
  <2>4. Said(w1, v1, t, TRUE, g, z)
    <3>1. Said(w1, v1, t, v1.map = PageOf(t), g, V!Shown([g |-> g, p |-> v1.cursor_offset[t]], c))
      BY <2>2, <2>3, PutcDone
    <3> HIDE DEF z, w1
    <3>2. Said(w1, v1, t, v1.map = PageOf(t), g, z)
      BY <2>2, <3>1 DEF z
    <3> QED
      BY <2>3, <3>2 DEF Said
  <2> HIDE DEF z, w1
  <2>5. /\ w \in VMs /\ w.page = w1.page /\ w.map = t /\ w.umap = t
        /\ w.cursor_offset = w1.cursor_offset /\ w.hw = w1.hw
    <3>1. w1 \in VMs /\ t \in Pages
      BY <2>4, PageNames DEF Said
    <3> QED
      BY <3>1, MapOnly
  <2> HIDE DEF w
  <2>6. \A u : Txt(w, u) = Txt(w1, u) /\ Txt(v1, u) = Txt(v, u)
    BY <2>2, <2>5, TxtPage
  <2>7. Said(w, v, t, Heard(v, t), g, z)
    BY <1>1, <2>2, <2>4, <2>5, <2>6 DEF Said, Raises
  <2> QED
    BY <1>1, <2>1, <2>5, <2>7 DEF Mapped, z
<1>2. CASE t # visible_term
  <2>1. putc_by(t, v, c) = Putc(v, c, t)
    BY <1>2 DEF putc_by
  <2>2. Routed(v, t) /\ Heard(v, t) = (v.map = PageOf(t))
    BY <1>2 DEF Ready, Routed, PageOf, Heard
  <2> QED
    BY <2>1, <2>2, PutcDone DEF Mapped
<1> QED
  BY <1>1, <1>2

(* The writing of a string, character by character                         *)
Writing(w, t, v, s) ==
  /\ w[0] = v
  /\ \A n \in 0..(Len(s) - 1) : w[n + 1] = putc_by(t, w[n], s[n + 1])
  /\ Written(t, v, s) = w[Len(s)]

LEMMA WrittenDef ==
  ASSUME NEW t, NEW v, NEW s, Len(s) \in Nat
  PROVE  \E w : Writing(w, t, v, s)
<1> DEFINE N == Len(s)
           D(f, m) == f = [n \in 0..m |-> IF n = 0 THEN v ELSE putc_by(t, f[n - 1], s[n])]
           S == {m \in Nat : \E f : D(f, m)}
<1>1. 0 \in S
  <2>1. D([n \in 0..0 |-> v], 0)
    OBVIOUS
  <2> HIDE DEF D
  <2> QED
    BY <2>1
<1>2. ASSUME NEW m \in Nat, m \in S PROVE m + 1 \in S
  <2> HIDE DEF D
  <2>1. PICK f : D(f, m)
    BY <1>2
  <2> DEFINE g == [n \in 0..(m + 1) |-> IF n = m + 1 THEN putc_by(t, f[m], s[m + 1]) ELSE f[n]]
  <2>2. \A n \in 0..m : f[n] = IF n = 0 THEN v ELSE putc_by(t, f[n - 1], s[n])
    BY <2>1 DEF D
  <2>3. g[m + 1] = putc_by(t, f[m], s[m + 1]) /\ \A n \in 0..m : g[n] = f[n]
    OBVIOUS
  <2>4. g = [n \in 0..(m + 1) |-> g[n]]
    OBVIOUS
  <2> HIDE DEF g
  <2>5. ASSUME NEW n \in 0..(m + 1)
        PROVE  g[n] = IF n = 0 THEN v ELSE putc_by(t, g[n - 1], s[n])
    <3>1. CASE n = m + 1
      <4>1. n # 0 /\ n - 1 = m /\ m \in 0..m
        BY <3>1
      <4> QED
        BY <2>3, <3>1, <4>1
    <3>2. CASE n # m + 1
      <4>1. n \in 0..m /\ (n # 0 => n - 1 \in 0..m)
        BY <3>2
      <4> QED
        BY <2>2, <2>3, <4>1
    <3> QED
      BY <3>1, <3>2
  <2>6. D(g, m + 1)
    BY <2>4, <2>5 DEF D
  <2> QED
    BY <2>6
<1>3. Written(t, v, s) = (CHOOSE f : D(f, N))[N]
  BY DEF Written
<1> HIDE DEF D, S, N
<1>4. N \in Nat
  BY DEF N
<1>5. \A n \in 0..N : n \in S
  <2>1. \A m \in 0..(N - 1) : m \in S => m + 1 \in S
    BY <1>2, <1>4
  <2> QED
    BY <1>1, <1>4, <2>1, InductionTo
<1>6. \E f : D(f, N)
  BY <1>4, <1>5 DEF S
<1> DEFINE c == CHOOSE f : D(f, N)
<1>7. D(c, N)
  BY <1>6
<1> HIDE DEF c
<1>8. \A n \in 0..N : c[n] = IF n = 0 THEN v ELSE putc_by(t, c[n - 1], s[n])
  BY <1>7 DEF D
<1>9. c[0] = v
  BY <1>4, <1>8
<1>10. ASSUME NEW n \in 0..(N - 1) PROVE c[n + 1] = putc_by(t, c[n], s[n + 1])
  <2>1. n + 1 \in 0..N /\ n + 1 # 0 /\ (n + 1) - 1 = n
    BY <1>4
  <2> QED
    BY <1>8, <2>1
<1> QED
  BY <1>3, <1>9, <1>10 DEF c, N, Writing

(* The same in Views                                                       *)
Saying(w, v, s) == /\ w[0] = v
                   /\ \A n \in 0..(Len(s) - 1) : w[n + 1] = V!Shown(w[n], s[n + 1])
                   /\ V!After(v, s) = w[Len(s)]

LEMMA AfterDef ==
  ASSUME NEW v, NEW s, Len(s) \in Nat
  PROVE  \E w : Saying(w, v, s)
<1> DEFINE N == Len(s)
           D(f, m) == f = [n \in 0..m |-> IF n = 0 THEN v ELSE V!Shown(f[n - 1], s[n])]
           S == {m \in Nat : \E f : D(f, m)}
<1>1. 0 \in S
  <2>1. D([n \in 0..0 |-> v], 0)
    OBVIOUS
  <2> HIDE DEF D
  <2> QED
    BY <2>1
<1>2. ASSUME NEW m \in Nat, m \in S PROVE m + 1 \in S
  <2> HIDE DEF D
  <2>1. PICK f : D(f, m)
    BY <1>2
  <2> DEFINE g == [n \in 0..(m + 1) |-> IF n = m + 1 THEN V!Shown(f[m], s[m + 1]) ELSE f[n]]
  <2>2. \A n \in 0..m : f[n] = IF n = 0 THEN v ELSE V!Shown(f[n - 1], s[n])
    BY <2>1 DEF D
  <2>3. g[m + 1] = V!Shown(f[m], s[m + 1]) /\ \A n \in 0..m : g[n] = f[n]
    OBVIOUS
  <2>4. g = [n \in 0..(m + 1) |-> g[n]]
    OBVIOUS
  <2> HIDE DEF g
  <2>5. ASSUME NEW n \in 0..(m + 1)
        PROVE  g[n] = IF n = 0 THEN v ELSE V!Shown(g[n - 1], s[n])
    <3>1. CASE n = m + 1
      <4>1. n # 0 /\ n - 1 = m /\ m \in 0..m
        BY <3>1
      <4> QED
        BY <2>3, <3>1, <4>1
    <3>2. CASE n # m + 1
      <4>1. n \in 0..m /\ (n # 0 => n - 1 \in 0..m)
        BY <3>2
      <4> QED
        BY <2>2, <2>3, <4>1
    <3> QED
      BY <3>1, <3>2
  <2>6. D(g, m + 1)
    BY <2>4, <2>5 DEF D
  <2> QED
    BY <2>6
<1>3. V!After(v, s) = (CHOOSE f : D(f, N))[N]
  BY DEF V!After
<1> HIDE DEF D, S, N
<1>4. N \in Nat
  BY DEF N
<1>5. \A n \in 0..N : n \in S
  <2>1. \A m \in 0..(N - 1) : m \in S => m + 1 \in S
    BY <1>2, <1>4
  <2> QED
    BY <1>1, <1>4, <2>1, InductionTo
<1>6. \E f : D(f, N)
  BY <1>4, <1>5 DEF S
<1> DEFINE c == CHOOSE f : D(f, N)
<1>7. D(c, N)
  BY <1>6
<1> HIDE DEF c
<1>8. \A n \in 0..N : c[n] = IF n = 0 THEN v ELSE V!Shown(c[n - 1], s[n])
  BY <1>7 DEF D
<1>9. c[0] = v
  BY <1>4, <1>8
<1>10. ASSUME NEW n \in 0..(N - 1) PROVE c[n + 1] = V!Shown(c[n], s[n + 1])
  <2>1. n + 1 \in 0..N /\ n + 1 # 0 /\ (n + 1) - 1 = n
    BY <1>4
  <2> QED
    BY <1>8, <2>1
<1> QED
  BY <1>3, <1>9, <1>10 DEF c, N, Saying

LEMMA StringChars ==
  ASSUME NEW s \in Strings \cup {Banner}
  PROVE  Len(s) \in Nat /\ \A n \in 0..(Len(s) - 1) : s[n + 1] \in Glyphs
<1>1. Len(s) \in Nat
  OBVIOUS
<1>2. ASSUME NEW n \in 0..(Len(s) - 1) PROVE s[n + 1] \in Glyphs
  <2>1. n + 1 \in 1..Len(s)
    BY <1>1
  <2> DEFINE R == {s[i] : i \in 1..Len(s)}
             A == {{r[i] : i \in 1..Len(r)} : r \in Strings \cup {Banner}}
  <2>2. s[n + 1] \in R /\ R \in A
    BY <2>1
  <2>3. Glyphs = {" ", "a"} \cup UNION A
    BY DEF Glyphs
  <2> HIDE DEF R, A
  <2> QED
    BY <2>2, <2>3
<1> QED
  BY <1>1, <1>2

(* A string written on t: the text and the cursor become what Views says.  *)
LEMMA WrittenDone ==
  ASSUME NEW v \in VMs, NEW t \in Terms, visible_term \in Terms, NEW g \in Grids, Ready(v, t),
         NEW s \in Strings \cup {Banner}
  PROVE  LET w == Written(t, v, s) IN
         /\ Said(w, v, t, Heard(v, t), g, V!After([g |-> g, p |-> v.cursor_offset[t]], s))
         /\ Mapped(w, v, t)
<1> DEFINE z0 == [g |-> g, p |-> v.cursor_offset[t]]
           ok == Heard(v, t)
<1>1. Len(s) \in Nat /\ \A n \in 0..(Len(s) - 1) : s[n + 1] \in Glyphs
  BY StringChars
<1>2. PICK w : Writing(w, t, v, s)
  BY <1>1, WrittenDef
<1> HIDE DEF z0, ok
<1>0. PICK z : Saying(z, z0, s)
  BY <1>1, AfterDef
<1>3. /\ z[0] = z0
      /\ \A n \in 0..(Len(s) - 1) : z[n + 1] = V!Shown(z[n], s[n + 1])
      /\ V!After(z0, s) = z[Len(s)]
  BY <1>0 DEF Saying
<1> DEFINE S == {n \in Nat : Said(w[n], v, t, ok, g, z[n]) /\ Mapped(w[n], v, t)}
<1>4. 0 \in S
  <2>1. z0 \in Positions /\ z0.p = v.cursor_offset[t] /\ z0.g = g /\ Raises(v, v, t)
    BY RaisesNot DEF z0, VMs, Positions
  <2>2. Said(v, v, t, ok, g, z0)
    BY <2>1 DEF Said
  <2> QED
    BY <1>2, <1>3, <2>2 DEF Mapped, Writing
<1>5. ASSUME NEW n \in 0..(Len(s) - 1), n \in S PROVE n + 1 \in S
  <2> DEFINE x == w[n]
             y == z[n]
             c == s[n + 1]
  <2>1. Said(x, v, t, ok, g, y) /\ Mapped(x, v, t)
    BY <1>5
  <2>2. w[n + 1] = putc_by(t, x, c) /\ z[n + 1] = V!Shown(y, c) /\ c \in Glyphs
    BY <1>1, <1>2, <1>3 DEF Writing
  <2> HIDE DEF x, y, c
  <2>3. x \in VMs /\ y \in Positions /\ x.cursor_offset[t] = y.p
    BY <2>1 DEF Said
  <2>4. Ready(x, t) /\ Heard(x, t) = ok
    BY <2>1 DEF Mapped, Ready, Heard, ok
  <2>5. y.g \in Grids /\ y = [g |-> y.g, p |-> x.cursor_offset[t]]
    BY <2>3 DEF Positions
  <2> DEFINE x1 == putc_by(t, x, c)
             y1 == V!Shown(y, c)
  <2>6. Said(x1, x, t, ok, y.g, y1) /\ Mapped(x1, x, t)
    <3>1. /\ Said(putc_by(t, x, c), x, t, Heard(x, t), y.g,
                  V!Shown([g |-> y.g, p |-> x.cursor_offset[t]], c))
          /\ Mapped(putc_by(t, x, c), x, t)
      BY <2>2, <2>3, <2>4, <2>5, PutcByDone
    <3>2. V!Shown([g |-> y.g, p |-> x.cursor_offset[t]], c) = V!Shown(y, c)
      BY <2>5
    <3> QED
      BY <2>4, <3>1, <3>2
  <2> HIDE DEF x1, y1
  <2>7. ok \in BOOLEAN
    BY DEF ok, Heard
  <2>8. Said(x1, v, t, ok, g, y1)
    BY <2>1, <2>6, <2>7, SaidOn
  <2>9. Mapped(x1, v, t)
    BY <2>1, <2>6 DEF Mapped
  <2> QED
    BY <1>1, <2>2, <2>8, <2>9 DEF x1, y1
<1> HIDE DEF S
<1>6. \A n \in 0..Len(s) : n \in S
  BY <1>1, <1>4, <1>5, InductionTo
<1>7. Len(s) \in S
  BY <1>1, <1>6
<1>8. Said(w[Len(s)], v, t, ok, g, z[Len(s)]) /\ Mapped(w[Len(s)], v, t)
  BY <1>7 DEF S
<1> QED
  BY <1>2, <1>3, <1>8 DEF z0, ok, Writing

-----------------------------------------------------------------------------
(* What holds in every state: video memory is well formed, the page the    *)
(* kernel writes on is that of the terminal that runs or of the one shown, *)
(* and never the screen while a hidden terminal runs.                      *)
Routes == /\ vm.map \in {cur_term, visible_term, SCREEN}
          /\ vm.map = SCREEN => cur_term = visible_term
          /\ vm.umap \in {cur_term, visible_term, SCREEN}

MemoryInv == /\ vm \in VMs /\ Kind /\ Routes /\ drawing \subseteq Terms
             /\ mouse \in [x : 0..(NUM_COLS - 1), y : 0..(NUM_ROWS - 1)]

LEMMA EmptyGrid == Empty \in Grids
BY DEF Empty, Grids, Glyphs

LEMMA InitMemory == Init => MemoryInv
<1> SUFFICES ASSUME Init PROVE MemoryInv
  OBVIOUS
<1>1. 0 \in Offsets
  <2>1. ASSUME NEW y \in 0..(NUM_ROWS - 1), y = 0 PROVE 0 \in Offsets
    <3>1. y * NUM_COLS \in Offsets
      BY LineStart
    <3> QED
      BY <2>1, <3>1
  <2> QED
    BY <2>1
<1>2. vm \in VMs
  BY <1>1, EmptyGrid, PageNames DEF Init, VMs
<1>3. Kind /\ Routes
  BY PageNames DEF Init, Kind, Routes
<1>4. drawing \subseteq Terms /\ mouse \in [x : 0..(NUM_COLS - 1), y : 0..(NUM_ROWS - 1)]
  BY DEF Init
<1> QED
  BY <1>2, <1>3, <1>4 DEF MemoryInv

LEMMA NextTerm ==
  ASSUME NEW t \in Terms
  PROVE  (t + 1) % Cardinality(Terms) \in Terms
<1> DEFINE N == Cardinality(Terms)
<1>1. N \in Nat \ {0} /\ Terms = 0..(N - 1) /\ t \in Nat
  OBVIOUS
<1> HIDE DEF N
<1>2. (t + 1) % N \in 0..(N - 1)
  BY <1>1
<1> QED
  BY <1>1, <1>2 DEF N

LEMMA MovedType ==
  ASSUME NEW last \in Nat, NEW old \in 0..last, NEW d \in Int
  PROVE  Moved(old, d, last) \in 0..last
BY DEF Moved

-----------------------------------------------------------------------------
(* The steps, on memory and on the views                                   *)
LEMMA TextNow ==
  ASSUME NEW t \in Terms
  PROVE  Text[t] = Txt(vm, t)
BY DEF Text, Txt

LEMMA TextNext ==
  ASSUME Same, NEW t \in Terms
  PROVE  Text'[t] = Txt(vm', t)
BY DEF Text, Txt, Same

LEMMA TextGrid ==
  ASSUME MemoryInv, NEW t \in Terms
  PROVE  Text[t] \in Grids
<1>1. PageOf(t) \in Pages /\ vm.page \in [Pages -> Grids]
  BY PageNames DEF PageOf, MemoryInv, VMs
<1> QED
  BY <1>1, TextNow, TxtPage

LEMMA RoutesKept ==
  ASSUME MemoryInv, Same, NEW t \in {cur_term, visible_term}, Mapped(vm', vm, t)
  PROVE  Routes'
BY PageNames DEF MemoryInv, Kind, Routes, Same, Mapped

LEMMA SameKept ==
  ASSUME MemoryInv, Same, vm' \in VMs, Routes'
  PROVE  MemoryInv'
BY DEF MemoryInv, Same, Kind

LEMMA WrittenStep ==
  ASSUME MemoryInv, NEW s \in Strings
  PROVE  LET w == Written(cur_term, vm, s) IN
         /\ Said(w, vm, cur_term, Heard(vm, cur_term), Text[cur_term], V!After(V!Now(cur_term), s))
         /\ Mapped(w, vm, cur_term)
<1> DEFINE g == Text[cur_term]
<1>1. V!Now(cur_term) = [g |-> g, p |-> vm.cursor_offset[cur_term]]
  BY DEF V!Now
<1>2. vm \in VMs /\ cur_term \in Terms /\ visible_term \in Terms /\ g \in Grids
  BY TextGrid DEF MemoryInv, Kind
<1>3. Ready(vm, cur_term)
  BY DEF MemoryInv, Routes, Ready
<1> HIDE DEF g
<1>4. s \in Strings \cup {Banner}
  OBVIOUS
<1> QED
  BY <1>1, <1>2, <1>3, <1>4, WrittenDone DEF g

(* The text of cur_term after w was written there                          *)
LEMMA ShowsIt ==
  ASSUME MemoryInv, Same, NEW w, NEW z,
         Said(w, vm, cur_term, Heard(vm, cur_term), Text[cur_term], z), vm'.page = w.page
  PROVE  V!Shows(cur_term, z.g)
<1>1. cur_term \in Terms /\ Text[cur_term] = Txt(vm, cur_term)
  BY TextNow DEF MemoryInv, Kind
<1>2. \A u \in Terms : Text'[u] = Txt(w, u)
  BY TextNext, TxtPage
<1>3. \A u \in Terms \ {cur_term} : Text'[u] = Text[u]
  BY <1>2, TextNow DEF Said
<1>4. (cur_term # visible_term /\ vm.map # cur_term) \/ Text'[cur_term] = z.g
  BY <1>1, <1>2 DEF Said, Heard
<1> QED
  BY <1>3, <1>4 DEF V!Shows, V!Others

LEMMA StringWritten ==
  ASSUME MemoryInv, NEW s \in Strings, write_term(s)
  PROVE  MemoryInv' /\ V!Output(cur_term, s)
<1> DEFINE w == Written(cur_term, vm, s)
           z == V!After(V!Now(cur_term), s)
           t == cur_term
<1>1. Same /\ vm' = [w EXCEPT !.cursor_offset[visible_term] = w.hw]
  BY DEF write_term
<1>2. Said(w, vm, t, Heard(vm, t), Text[t], z) /\ Mapped(w, vm, t)
  BY WrittenStep
<1>3. t \in Terms /\ visible_term \in Terms
  BY DEF MemoryInv, Kind
<1> HIDE DEF w, z
<1>4. w \in VMs /\ w.cursor_offset \in [Terms -> Offsets] /\ w.hw \in Offsets
  BY <1>2 DEF Said, VMs
<1>5. /\ vm' \in VMs /\ vm'.page = w.page /\ vm'.map = w.map /\ vm'.umap = w.umap
      /\ vm'.cursor_offset = [w.cursor_offset EXCEPT ![visible_term] = w.hw]
  BY <1>1, <1>3, <1>4 DEF VMs
<1>6. MemoryInv'
  <2>1. Mapped(vm', vm, t)
    BY <1>2, <1>5 DEF Mapped
  <2> QED
    BY <1>1, <1>5, <2>1, RoutesKept, SameKept
<1>7. V!Shows(t, z.g)
  BY <1>1, <1>2, <1>5, ShowsIt
<1>8. ASSUME vm.hw = vm.cursor_offset[visible_term]
      PROVE  vm'.cursor_offset[t] = z.p
             /\ \A u \in Terms \ {t} : vm'.cursor_offset[u] = vm.cursor_offset[u]
  <2>1. CASE t = visible_term
    <3>1. w.hw = z.p
      BY <1>2, <1>8, <2>1 DEF Said
    <3>2. vm'.cursor_offset[t] = z.p
      BY <1>3, <1>4, <1>5, <2>1, <3>1
    <3>3. \A u \in Terms \ {t} : vm'.cursor_offset[u] = vm.cursor_offset[u]
      BY <1>2, <1>3, <1>4, <1>5, <2>1 DEF Said
    <3> QED
      BY <3>2, <3>3
  <2>2. CASE t # visible_term
    <3>1. w.hw = vm.cursor_offset[visible_term]
      BY <1>2, <1>8, <2>2 DEF Said
    <3>2. vm'.cursor_offset[t] = z.p
      BY <1>2, <1>3, <1>4, <1>5, <2>2 DEF Said
    <3>3. \A u \in Terms \ {t} : vm'.cursor_offset[u] = vm.cursor_offset[u]
      BY <1>2, <1>3, <1>4, <1>5, <3>1 DEF Said
    <3> QED
      BY <3>2, <3>3
  <2> QED
    BY <2>1, <2>2
<1>9. \A u \in Terms \ {visible_term} :
        vm'.cursor_offset[u] = IF u = t THEN z.p ELSE vm.cursor_offset[u]
  BY <1>2, <1>3, <1>4, <1>5 DEF Said
<1>10. ASSUME NEW u \in Terms
       PROVE  \/ vm'.cursor_offset[u] = IF u = t THEN z.p ELSE vm.cursor_offset[u]
              \/ vm.hw # vm.cursor_offset[visible_term] /\ u = visible_term
  BY <1>8, <1>9
<1>11. V!Output(t, s)
  BY <1>7, <1>10 DEF V!Output, z
<1> QED
  BY <1>6, <1>11

LEMMA MessagePrinted ==
  ASSUME MemoryInv, NEW s \in Strings, printf(s)
  PROVE  MemoryInv' /\ V!Message(cur_term, s)
<1> DEFINE z == V!After(V!Now(cur_term), s)
           t == cur_term
<1>1. Same /\ vm' = Written(cur_term, vm, s)
  BY DEF printf
<1>2. Said(vm', vm, t, Heard(vm, t), Text[t], z) /\ Mapped(vm', vm, t)
  BY <1>1, WrittenStep
<1> HIDE DEF z
<1>3. MemoryInv'
  BY <1>1, <1>2, RoutesKept, SameKept DEF Said
<1>4. V!Shows(t, z.g)
  BY <1>1, <1>2, ShowsIt
<1>5. \A u \in Terms \ {t} :
        \/ vm'.cursor_offset[u] = vm.cursor_offset[u]
        \/ u = visible_term /\ V!Raised(vm.cursor_offset[u], vm'.cursor_offset[u])
  BY <1>2 DEF Said, Raises
<1>6. V!Message(t, s)
  BY <1>2, <1>4, <1>5 DEF V!Message, Said, z
<1> QED
  BY <1>3, <1>6

(* Writing on the terminal shown                                           *)
LEMMA ShownStep ==
  ASSUME MemoryInv, Same, NEW v \in VMs, NEW g, NEW z, Said(vm', v, visible_term, TRUE, g, z),
         Mapped(vm', v, visible_term), g = Txt(v, visible_term),
         \A u \in Terms \ {visible_term} : /\ Txt(v, u) = Txt(vm, u)
                                           /\ v.cursor_offset[u] = vm.cursor_offset[u],
         (v.map = vm.map /\ v.umap = vm.umap) \/ (v.map = cur_term /\ v.umap = cur_term)
  PROVE  /\ MemoryInv'
         /\ Text' = [Text EXCEPT ![visible_term] = z.g]
         /\ vm'.cursor_offset = [vm.cursor_offset EXCEPT ![visible_term] = z.p]
<1> DEFINE t == visible_term
<1>1. t \in Terms /\ cur_term \in Terms /\ vm' \in VMs
  BY DEF MemoryInv, Kind, Said
<1>2. MemoryInv'
  <2>1. Routes'
    BY PageNames DEF MemoryInv, Kind, Routes, Same, Mapped
  <2> QED
    BY <1>1, <2>1, SameKept
<1>3. Text' = [Text EXCEPT ![t] = z.g]
  <2>1. \A u \in Terms \ {t} : Text'[u] = Text[u]
    BY TextNow, TextNext DEF Said
  <2>2. Text'[t] = z.g
    BY <1>1, TextNext DEF Said
  <2>3. Text = [u \in Terms |-> Text[u]] /\ Text' = [u \in Terms |-> Text'[u]]
    BY DEF Text
  <2> QED
    BY <2>1, <2>2, <2>3
<1>4. vm'.cursor_offset = [vm.cursor_offset EXCEPT ![t] = z.p]
  <2>1. vm.cursor_offset \in [Terms -> Offsets] /\ vm'.cursor_offset \in [Terms -> Offsets]
    BY <1>1 DEF MemoryInv, VMs
  <2>2. \A u \in Terms \ {t} : vm'.cursor_offset[u] = vm.cursor_offset[u]
    BY DEF Said
  <2>3. vm'.cursor_offset[t] = z.p
    BY DEF Said
  <2> QED
    BY <2>1, <2>2, <2>3
<1> QED
  BY <1>2, <1>3, <1>4

LEMMA KeyTyped ==
  ASSUME MemoryInv, NEW c \in Glyphs, Key(c)
  PROVE  MemoryInv' /\ V!Type(visible_term, c)
<1> DEFINE t == visible_term
           z == V!Shown(V!Now(t), c)
<1>1. Same /\ vm' = putc_by(t, vm, c)
  BY DEF Key
<1>2. vm \in VMs /\ t \in Terms /\ Text[t] \in Grids /\ Text[t] = Txt(vm, t)
  BY TextGrid, TextNow DEF MemoryInv, Kind
<1>3. V!Now(t) = [g |-> Text[t], p |-> vm.cursor_offset[t]]
  BY DEF V!Now
<1>4. Said(vm', vm, t, TRUE, Text[t], z) /\ Mapped(vm', vm, t)
  <2> DEFINE g == Text[t]
             n == V!Now(t)
  <2>1. Ready(vm, t) /\ Heard(vm, t) = TRUE
    BY DEF Ready, Heard
  <2> HIDE DEF g, n
  <2>2. /\ Said(vm', vm, t, Heard(vm, t), g, V!Shown([g |-> g, p |-> vm.cursor_offset[t]], c))
        /\ Mapped(vm', vm, t)
    BY <1>1, <1>2, <2>1, PutcByDone DEF g
  <2>3. [g |-> g, p |-> vm.cursor_offset[t]] = n
    BY <1>3 DEF n, g
  <2> QED
    BY <2>1, <2>2, <2>3 DEF g, n
<1> HIDE DEF z
<1>5. /\ MemoryInv'
      /\ Text' = [Text EXCEPT ![t] = z.g]
      /\ vm'.cursor_offset = [vm.cursor_offset EXCEPT ![t] = z.p]
  BY <1>1, <1>2, <1>4, ShownStep
<1> QED
  BY <1>5 DEF V!Type, z

LEMMA TermCleared ==
  ASSUME MemoryInv, clear_term
  PROVE  MemoryInv' /\ V!Clear(visible_term)
<1> DEFINE t == visible_term
           v == [clear(vm) EXCEPT !.hw = 0]
           z == V!After([g |-> V!Blank, p |-> 0], Banner)
<1>1. Same /\ vm' = Written(t, v, Banner)
  BY DEF clear_term
<1>2. vm \in VMs /\ t \in Terms /\ cur_term \in Terms /\ cur_term \in Pages
  BY PageNames DEF MemoryInv, Kind
<1>3. 0 \in Offsets
  BY DEF Offsets
<1>4. V!Blank = Empty
  BY DEF V!Blank, Empty, V!Cells, Offsets
<1>5. /\ v \in VMs /\ v.page = [vm.page EXCEPT ![SCREEN] = Empty]
      /\ v.cursor_offset = [vm.cursor_offset EXCEPT ![t] = 0]
      /\ v.map = cur_term /\ v.umap = cur_term
  BY <1>2, <1>3, EmptyGrid, PageNames DEF clear, change_term_vidmap, VMs
<1> HIDE DEF v, z
<1>6. v.cursor_offset[t] = 0 /\ Txt(v, t) = Empty
      /\ \A u \in Terms \ {t} : Txt(v, u) = Txt(vm, u) /\ v.cursor_offset[u] = vm.cursor_offset[u]
  BY <1>2, <1>5, PageNames DEF Txt, VMs
<1>7. Said(vm', v, t, TRUE, Empty, z) /\ Mapped(vm', v, t)
  <2>1. Ready(v, t) /\ Heard(v, t) = TRUE
    BY DEF Ready, Heard
  <2>2. /\ Said(vm', v, t, Heard(v, t), Empty, V!After([g |-> Empty, p |-> v.cursor_offset[t]], Banner))
        /\ Mapped(vm', v, t)
    BY <1>1, <1>2, <1>5, <2>1, EmptyGrid, WrittenDone
  <2> QED
    BY <1>4, <1>6, <2>1, <2>2 DEF z
<1>8. /\ MemoryInv'
      /\ Text' = [Text EXCEPT ![t] = z.g]
      /\ vm'.cursor_offset = [vm.cursor_offset EXCEPT ![t] = z.p]
  <2>1. \A u \in Terms \ {t} : /\ Txt(v, u) = Txt(vm, u)
                               /\ v.cursor_offset[u] = vm.cursor_offset[u]
    BY <1>6
  <2>2. Same /\ v \in VMs /\ Empty = Txt(v, t) /\ v.map = cur_term /\ v.umap = cur_term
    BY <1>1, <1>5, <1>6
  <2> QED
    BY <1>7, <2>1, <2>2, ShownStep
<1> QED
  BY <1>8 DEF V!Clear, z

(* Showing terminal t: the text of none changes.                           *)
Swapped(w, t) ==
  /\ w.map = cur_term /\ w.umap = cur_term /\ w.cursor_offset = vm.cursor_offset
  /\ w.page = [[vm.page EXCEPT ![visible_term] = vm.page[SCREEN]] EXCEPT ![SCREEN] = vm.page[t]]

LEMMA TermSwapped ==
  ASSUME MemoryInv, NEW t \in Terms
  PROVE  LET w == change_term(vm, t) IN
         w \in VMs /\ IF t = visible_term THEN w = vm ELSE Swapped(w, t)
<1> DEFINE w == change_term(vm, t)
           x == visible_term
           v == change_term_vidmap(vm, cur_term)
           w1 == [v EXCEPT !.page[x] = vm.page[SCREEN]]
           w2 == [w1 EXCEPT !.page[SCREEN] = vm.page[t]]
<1>1. /\ vm \in VMs /\ x \in Pages /\ cur_term \in Pages /\ t \in Pages /\ SCREEN \in Pages
  BY PageNames DEF MemoryInv, Kind
<1>2. /\ vm.page \in [Pages -> Grids] /\ vm.page[SCREEN] \in Grids /\ vm.page[t] \in Grids
      /\ vm.cursor_offset[t] \in Offsets
  BY <1>1 DEF VMs
<1>3. CASE t = x
  BY <1>1, <1>3 DEF change_term
<1>4. CASE t # x
  <2>1. /\ v \in VMs /\ v.page = vm.page /\ v.map = cur_term /\ v.umap = cur_term
        /\ v.cursor_offset = vm.cursor_offset
    BY <1>1, MapOnly
  <2>2. w = [w2 EXCEPT !.hw = vm.cursor_offset[t]]
    BY <1>4 DEF change_term
  <2> HIDE DEF v, w, w2
  <2>3. /\ w1 \in VMs /\ w1.page = [vm.page EXCEPT ![x] = vm.page[SCREEN]] /\ w1.map = cur_term
        /\ w1.umap = cur_term /\ w1.cursor_offset = vm.cursor_offset
    BY <1>1, <1>2, <2>1 DEF VMs
  <2> HIDE DEF w1
  <2>4. /\ w2 \in VMs /\ w2.page = [w1.page EXCEPT ![SCREEN] = vm.page[t]] /\ w2.map = cur_term
        /\ w2.umap = cur_term /\ w2.cursor_offset = vm.cursor_offset
    BY <1>1, <1>2, <2>3 DEF VMs, w2
  <2>5. /\ w \in VMs /\ w.page = w2.page /\ w.map = cur_term
        /\ w.umap = cur_term /\ w.cursor_offset = vm.cursor_offset
    BY <1>1, <1>2, <2>2, <2>4 DEF VMs
  <2> QED
    BY <1>4, <2>3, <2>4, <2>5 DEF Swapped, w
<1> QED
  BY <1>3, <1>4

LEMMA TermShown ==
  ASSUME MemoryInv, NEW t \in Terms, visible_term' = t, NEW w, w = change_term(vm, t),
         vm'.page = w.page, vm'.cursor_offset = w.cursor_offset
  PROVE  /\ UNCHANGED V!views
         /\ (w.map = vm.map /\ w.umap = vm.umap /\ t = visible_term)
            \/ (w.map = cur_term /\ w.umap = cur_term)
<1> DEFINE x == visible_term
<1>1. /\ vm.page \in [Pages -> Grids] /\ x \in Pages /\ t \in Pages
      /\ SCREEN \in Pages /\ SCREEN \notin Terms
  BY PageNames DEF MemoryInv, Kind, VMs
<1>2. CASE t = x
  <2>1. w = vm
    BY <1>2, TermSwapped
  <2>2. Text' = Text
    BY <1>2, <2>1 DEF Text
  <2> QED
    BY <1>2, <2>1, <2>2 DEF V!views
<1>3. CASE t # x
  <2>1. Swapped(w, t)
    BY <1>3, TermSwapped
  <2>2. ASSUME NEW u \in Terms PROVE Text'[u] = Text[u]
    <3>1. Text'[u] = IF u = t THEN w.page[SCREEN] ELSE w.page[u]
      BY DEF Text
    <3>2. Text[u] = IF u = x THEN vm.page[SCREEN] ELSE vm.page[u]
      BY DEF Text
    <3>3. u \in Pages /\ u # SCREEN
      BY PageNames
    <3>4. w.page[SCREEN] = vm.page[t]
      BY <1>1, <2>1 DEF Swapped
    <3>5. w.page[u] = IF u = x THEN vm.page[SCREEN] ELSE vm.page[u]
      BY <1>1, <2>1, <3>3 DEF Swapped
    <3> QED
      BY <1>3, <3>1, <3>2, <3>4, <3>5
  <2>3. Text' = Text
    BY <2>2 DEF Text
  <2> QED
    BY <2>1, <2>3 DEF V!views, Swapped
<1> QED
  BY <1>2, <1>3

LEMMA KeyShowsTerm ==
  ASSUME MemoryInv, NEW t \in Terms, FunctionKey(t)
  PROVE  MemoryInv' /\ UNCHANGED V!views
<1>1. vm' = change_term(vm, t) /\ visible_term' = t /\ UNCHANGED <<cur_term, drawing, mouse>>
  BY DEF FunctionKey
<1>2. /\ vm' \in VMs /\ UNCHANGED V!views
      /\ (vm'.map = vm.map /\ vm'.umap = vm.umap /\ t = visible_term)
         \/ (vm'.map = cur_term /\ vm'.umap = cur_term)
  BY <1>1, TermShown, TermSwapped
<1>3. Kind' /\ Routes'
  BY <1>1, <1>2, PageNames DEF MemoryInv, Kind, Routes
<1> QED
  BY <1>1, <1>2, <1>3 DEF MemoryInv

LEMMA MouseMoved ==
  ASSUME MemoryInv, NEW d \in Moves, NEW middle \in BOOLEAN, mouse_handler(d[1], d[2], middle)
  PROVE  MemoryInv' /\ UNCHANGED V!views
<1> DEFINE t == IF middle THEN (visible_term + 1) % Cardinality(Terms) ELSE visible_term
           w == change_term(vm, t)
           m == [x |-> Moved(mouse.x, d[1], NUM_COLS - 1), y |-> Moved(mouse.y, d[2], NUM_ROWS - 1)]
<1>1. /\ visible_term' = t /\ mouse' = m /\ UNCHANGED <<cur_term, drawing>>
      /\ vm' = IF m = mouse THEN w ELSE [w EXCEPT !.hw = m.y * NUM_COLS + m.x]
  BY DEF mouse_handler
<1>2. t \in Terms
  BY NextTerm DEF MemoryInv, Kind
<1>3. m \in [x : 0..(NUM_COLS - 1), y : 0..(NUM_ROWS - 1)]
  <2>1. d[1] \in Int /\ d[2] \in Int
    OBVIOUS
  <2>2. mouse.x \in 0..(NUM_COLS - 1) /\ mouse.y \in 0..(NUM_ROWS - 1)
    BY DEF MemoryInv
  <2>3. NUM_COLS - 1 \in Nat /\ NUM_ROWS - 1 \in Nat
    OBVIOUS
  <2>4. Moved(mouse.x, d[1], NUM_COLS - 1) \in 0..(NUM_COLS - 1)
    BY <2>1, <2>2, <2>3, MovedType
  <2>5. Moved(mouse.y, d[2], NUM_ROWS - 1) \in 0..(NUM_ROWS - 1)
    BY <2>1, <2>2, <2>3, MovedType
  <2> QED
    BY <2>4, <2>5
<1> HIDE DEF t, m
<1>4. m.y * NUM_COLS + m.x \in Offsets
  BY <1>3, LineStart
<1> DEFINE p == m.y * NUM_COLS + m.x
<1>5. p \in Offsets
  BY <1>4
<1> HIDE DEF p, w
<1>6. vm' = w \/ vm' = [w EXCEPT !.hw = p]
  BY <1>1 DEF p
<1>7. vm'.page = w.page /\ vm'.cursor_offset = w.cursor_offset /\ vm'.map = w.map /\ vm'.umap = w.umap
  <2>1. w \in VMs
    BY <1>2, TermSwapped DEF w
  <2> QED
    BY <1>6, <2>1 DEF VMs
<1>8. /\ w \in VMs /\ UNCHANGED V!views
      /\ (w.map = vm.map /\ w.umap = vm.umap /\ t = visible_term)
         \/ (w.map = cur_term /\ w.umap = cur_term)
  BY <1>1, <1>2, <1>7, TermShown, TermSwapped DEF w
<1>9. vm' \in VMs
  BY <1>5, <1>6, <1>8 DEF VMs
<1>10. Kind' /\ Routes'
  BY <1>1, <1>2, <1>7, <1>8, PageNames DEF MemoryInv, Kind, Routes
<1>11. MemoryInv'
  BY <1>1, <1>3, <1>9, <1>10 DEF MemoryInv
<1> QED
  BY <1>8, <1>11

(* The texts while only mappings change                                    *)
LEMMA ViewsSame ==
  ASSUME vm'.page = vm.page, vm'.cursor_offset = vm.cursor_offset, visible_term' = visible_term
  PROVE  UNCHANGED V!views
BY DEF V!views, Text

LEMMA TurnTaken ==
  ASSUME MemoryInv, scheduling
  PROVE  MemoryInv' /\ UNCHANGED V!views
<1> DEFINE t == (cur_term + 1) % Cardinality(Terms)
           q == IF t = visible_term THEN SCREEN ELSE t
<1>1. /\ cur_term' = t /\ UNCHANGED <<visible_term, drawing, mouse>>
      /\ vm' = change_term_vidmap(vm, q)
  BY DEF scheduling, change_term_vidmap, change_term_vidmap_same
<1>2. vm \in VMs /\ t \in Terms /\ q \in Pages
  BY NextTerm, PageNames DEF MemoryInv, Kind
<1> HIDE DEF t
<1>3. /\ vm' \in VMs /\ vm'.page = vm.page /\ vm'.map = q /\ vm'.umap = q
      /\ vm'.cursor_offset = vm.cursor_offset
  BY <1>1, <1>2, MapOnly
<1>4. Kind' /\ Routes'
  BY <1>1, <1>2, <1>3, PageNames DEF MemoryInv, Kind, Routes
<1> QED
  BY <1>1, <1>3, <1>4, ViewsSame DEF MemoryInv

LEMMA ScreenGranted ==
  ASSUME MemoryInv, vidmap
  PROVE  MemoryInv' /\ UNCHANGED V!views
<1>1. /\ vm' = [vm EXCEPT !.umap = SCREEN] /\ drawing' = drawing \cup {cur_term}
      /\ UNCHANGED <<cur_term, visible_term, mouse>>
  BY DEF vidmap
<1>2. /\ vm' \in VMs /\ vm'.page = vm.page /\ vm'.map = vm.map /\ vm'.umap = SCREEN
      /\ vm'.cursor_offset = vm.cursor_offset
  BY <1>1, PageNames DEF MemoryInv, VMs
<1>3. Kind' /\ Routes' /\ drawing' \subseteq Terms
  BY <1>1, <1>2 DEF MemoryInv, Kind, Routes
<1> QED
  BY <1>1, <1>2, <1>3, ViewsSame DEF MemoryInv

LEMMA FishDraws ==
  ASSUME MemoryInv, Draw
  PROVE  MemoryInv' /\ V!Draw(cur_term)
<1> DEFINE q == vm.umap
           h == [vm.page[q] EXCEPT ![0] = "a"]
<1>1. cur_term \in drawing /\ Same /\ vm' = [vm EXCEPT !.page[q][0] = "a"]
  BY DEF Draw
<1>2. /\ vm \in VMs /\ vm.page \in [Pages -> Grids] /\ q \in Pages
      /\ visible_term \in Terms /\ cur_term \in Terms
  BY DEF MemoryInv, VMs, Kind
<1>3. 0 \in Offsets
  BY DEF Offsets
<1>4. h \in Grids /\ vm.page[q] \in Grids /\ \A j \in Offsets \ {0} : h[j] = vm.page[q][j]
  BY <1>2, <1>3 DEF Grids, Glyphs
<1> HIDE DEF h
<1>5. /\ vm' \in VMs /\ vm'.page = [vm.page EXCEPT ![q] = h] /\ vm'.map = vm.map
      /\ vm'.umap = vm.umap /\ vm'.cursor_offset = vm.cursor_offset
  BY <1>1, <1>2, <1>4 DEF VMs, h
<1>6. MemoryInv'
  <2>1. Routes'
    BY <1>1, <1>5 DEF MemoryInv, Routes, Same
  <2> QED
    BY <1>1, <1>5, <2>1, SameKept
<1>7. \A u \in Terms : PageOf(u) \in Pages /\ Text[u] = vm.page[PageOf(u)] /\ Text'[u] = vm'.page[PageOf(u)]
  BY <1>1, PageNames, TextNow, TextNext, TxtPage DEF PageOf
<1>8. \A u \in Terms, j \in Offsets \ {0} : Text'[u][j] = Text[u][j]
  BY <1>2, <1>4, <1>5, <1>7
<1>9. (vm.umap = SCREEN /\ cur_term # visible_term) \/ V!Others(cur_term)
  <2>1. CASE vm.umap = SCREEN /\ cur_term # visible_term
    BY <2>1
  <2>2. CASE ~ (vm.umap = SCREEN /\ cur_term # visible_term)
    <3>1. \A u \in Terms \ {cur_term} : PageOf(u) # q
      BY <1>2, <2>2, PageNames DEF MemoryInv, Routes, PageOf
    <3>2. \A u \in Terms \ {cur_term} : Text'[u] = Text[u]
      BY <1>2, <1>5, <1>7, <3>1
    <3> QED
      BY <3>2 DEF V!Others
  <2> QED
    BY <2>1, <2>2
<1>10. V!Draw(cur_term)
  BY <1>1, <1>3, <1>5, <1>8, <1>9, Shapes DEF V!Draw
<1> QED
  BY <1>6, <1>10

-----------------------------------------------------------------------------
LEMMA NextMemory ==
  ASSUME MemoryInv, [Next]_vars
  PROVE  MemoryInv' /\ [V!Next]_(V!views)
<1>1. visible_term \in Terms /\ cur_term \in Terms
  BY DEF MemoryInv, Kind
<1>2. ASSUME NEW s \in Strings, write_term(s) PROVE MemoryInv' /\ V!Next
  BY <1>1, <1>2, StringWritten DEF V!Next
<1>3. ASSUME NEW s \in Strings, printf(s) PROVE MemoryInv' /\ V!Next
  BY <1>1, <1>3, MessagePrinted DEF V!Next
<1>4. ASSUME NEW s \in Strings, Len(s) = 1, Key(s[1]) PROVE MemoryInv' /\ V!Next
  <2> DEFINE c == s[1]
  <2>1. c \in Glyphs
    <3>1. 0 \in 0..(Len(s) - 1) /\ s \in Strings \cup {Banner}
      BY <1>4
    <3>2. s[0 + 1] \in Glyphs
      BY <3>1, StringChars
    <3> QED
      BY <3>2
  <2> HIDE DEF c
  <2>2. MemoryInv' /\ V!Type(visible_term, c)
    BY <1>4, <2>1, KeyTyped DEF c
  <2> QED
    BY <1>1, <1>4, <2>2 DEF V!Next, c
<1>5. ASSUME clear_term PROVE MemoryInv' /\ V!Next
  BY <1>1, <1>5, TermCleared DEF V!Next
<1>6. ASSUME Draw PROVE MemoryInv' /\ V!Next
  BY <1>1, <1>6, FishDraws DEF V!Next
<1>7. ASSUME NEW t \in Terms, FunctionKey(t) PROVE MemoryInv' /\ UNCHANGED V!views
  BY <1>7, KeyShowsTerm
<1>8. ASSUME NEW d \in Moves, NEW middle \in BOOLEAN, mouse_handler(d[1], d[2], middle)
      PROVE  MemoryInv' /\ UNCHANGED V!views
  BY <1>8, MouseMoved
<1>9. ASSUME scheduling PROVE MemoryInv' /\ UNCHANGED V!views
  BY <1>9, TurnTaken
<1>10. ASSUME vidmap PROVE MemoryInv' /\ UNCHANGED V!views
  BY <1>10, ScreenGranted
<1>11. ASSUME UNCHANGED vars PROVE MemoryInv' /\ UNCHANGED V!views
  BY <1>11 DEF vars, MemoryInv, Kind, Routes, V!views, Text
<1> QED
  BY <1>2, <1>3, <1>4, <1>5, <1>6, <1>7, <1>8, <1>9, <1>10, <1>11 DEF Next

(* Video memory is well formed in every state: a terminal's cursor, the    *)
(* mouse's and the one on the screen are inside the screen, and the kernel *)
(* writes on the page of the terminal that runs or of the one shown        *)
(* (lib.c:625, lib.c:652, lib.c:696, page.c:104, mouse.c:162).             *)
THEOREM MemoryInductive == Spec => []MemoryInv
<1>1. Init => MemoryInv
  BY InitMemory
<1>2. MemoryInv /\ [Next]_vars => MemoryInv'
  BY NextMemory
<1> QED
  BY <1>1, <1>2, PTL DEF Spec

(* No write is outside a page (lib.c:652, lib.c:696, mouse.c:162).         *)
THEOREM CursorsStayOnScreen == Spec => []CursorsOnScreen
<1>1. MemoryInv => CursorsOnScreen
  BY DEF MemoryInv, VMs, CursorsOnScreen
<1> QED
  BY <1>1, MemoryInductive, PTL

(* Every terminal's text is its own, shown or hidden, less what the three  *)
(* flags of Views say (lib.c:281, lib.c:625, terminal.c:216, page.c:104,   *)
(* terminal.c:38).                                                         *)
THEOREM TextsKept == Spec => ImplementsViews
<1>1. Init => V!Init
  <2>1. V!Blank = Empty
    BY DEF V!Blank, Empty, V!Cells, Offsets
  <2> SUFFICES ASSUME Init PROVE V!Init
    OBVIOUS
  <2>2. vm.page = [q \in Pages |-> Empty] /\ vm.cursor_offset = [t \in Terms |-> 0]
    BY DEF Init
  <2>3. Text = [t \in Terms |-> Empty]
    BY <2>2, PageNames DEF Text
  <2> QED
    BY <2>1, <2>2, <2>3 DEF V!Init
<1>2. MemoryInv /\ [Next]_vars => [V!Next]_(V!views)
  BY NextMemory
<1> QED
  BY <1>1, <1>2, MemoryInductive, PTL DEF Spec, ImplementsViews, V!Spec
=============================================================================
