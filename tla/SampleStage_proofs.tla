-------------------------- MODULE SampleStage_proofs --------------------------
(***************************************************************************)
(* Proofs about the sample stage, for any slots, numbers of attempts, runs, *)
(* calls and faults.  What positions and marks are does not matter to the  *)
(* argument: sequences and records are typed by their own elements.        *)
(***************************************************************************)
EXTENDS SampleStage, SequenceTheorems, TLAPS

Elements(s) == {s[i] : i \in DOMAIN s}
IsSequence(s) == s \in Seq(Elements(s))

LEMMA SequenceIs ==
  ASSUME NEW S, NEW s \in Seq(S)
  PROVE  IsSequence(s) /\ Elements(s) \subseteq S
<1>1. /\ Len(s) \in Nat /\ DOMAIN s = 1..Len(s) /\ s \in [1..Len(s) -> S]
  OBVIOUS
<1>2. s \in [1..Len(s) -> Elements(s)]
  BY <1>1 DEF Elements
<1>3. s \in Seq(Elements(s))
  <2> DEFINE n == Len(s)
             T == Elements(s)
  <2>1. s \in [1..n -> T] /\ n \in Nat
    BY <1>1, <1>2
  <2> HIDE DEF n, T
  <2>2. s \in Seq(T)
    BY <2>1
  <2> QED BY <2>2 DEF T
<1> QED BY <1>1, <1>3 DEF IsSequence, Elements

LEMMA SequenceTyped ==
  ASSUME NEW s, IsSequence(s)
  PROVE  /\ Len(s) \in Nat /\ DOMAIN s = 1..Len(s) /\ s \in Seq(Elements(s))
         /\ \A i \in 1..Len(s) : s[i] \in Elements(s)
         /\ \A c \in Elements(s) : \E i \in 1..Len(s) : s[i] = c
         /\ s = <<>> <=> Len(s) = 0
<1> DEFINE S == Elements(s)
<1>1. s \in Seq(S)
  BY DEF IsSequence
<1>2. Len(s) \in Nat /\ DOMAIN s = 1..Len(s) /\ (s = <<>> <=> Len(s) = 0)
  <2> HIDE DEF S
  <2> QED BY <1>1, EmptySeq
<1> QED BY <1>1, <1>2 DEF Elements

LEMMA AppendedTo ==
  ASSUME NEW s, IsSequence(s), NEW x
  PROVE  /\ IsSequence(Append(s, x))
         /\ Elements(Append(s, x)) = Elements(s) \cup {x}
         /\ Len(Append(s, x)) = Len(s) + 1 /\ Append(s, x)[Len(s) + 1] = x
         /\ \A i \in 1..Len(s) : Append(s, x)[i] = s[i]
<1> DEFINE S == Elements(s) \cup {x}
           t == Append(s, x)
<1>1. s \in Seq(S) /\ x \in S /\ Len(s) \in Nat /\ DOMAIN s = 1..Len(s)
  BY SequenceTyped DEF IsSequence
<1>2. /\ t \in Seq(S) /\ Len(t) = Len(s) + 1 /\ t[Len(s) + 1] = x
      /\ \A i \in 1..Len(s) : t[i] = s[i]
  <2> HIDE DEF S
  <2> QED BY <1>1, AppendProperties
<1>3. IsSequence(t) /\ Elements(t) \subseteq S
  <2> HIDE DEF S, t
  <2> QED BY <1>2, SequenceIs
<1>4. S \subseteq Elements(t)
  <2>1. DOMAIN t = 1..Len(t)
    BY <1>2
  <2>2. \A i \in 1..Len(s) : i \in DOMAIN t /\ t[i] = s[i]
    BY <1>1, <1>2, <2>1
  <2>3. Len(s) + 1 \in DOMAIN t
    BY <1>1, <1>2, <2>1
  <2> HIDE DEF t
  <2>4. Elements(s) \subseteq Elements(t)
    BY <1>1, <2>2 DEF Elements
  <2> QED BY <1>2, <2>3, <2>4 DEF Elements
<1> QED BY <1>2, <1>3, <1>4

LEMMA TakenFrom ==
  ASSUME NEW s, IsSequence(s), s # <<>>
  PROVE  /\ IsSequence(Tail(s)) /\ Elements(Tail(s)) \subseteq Elements(s)
         /\ Head(s) \in Elements(s) /\ Head(s) = s[1]
         /\ Len(s) >= 1 /\ Len(Tail(s)) = Len(s) - 1
         /\ \A i \in 1..Len(Tail(s)) : Tail(s)[i] = s[i + 1]
<1> DEFINE S == Elements(s)
           t == Tail(s)
<1>1. s \in Seq(S)
  BY DEF IsSequence
<1>2. /\ t \in Seq(S) /\ Head(s) = s[1] /\ Head(s) \in S
      /\ Len(t) = Len(s) - 1 /\ Len(s) >= 1
      /\ \A i \in 1..Len(t) : t[i] = s[i + 1]
  <2> HIDE DEF S
  <2> QED BY <1>1, HeadTailProperties, EmptySeq
<1>3. IsSequence(t) /\ Elements(t) \subseteq S
  <2> HIDE DEF S, t
  <2> QED BY <1>2, SequenceIs
<1> QED BY <1>2, <1>3

LEMMA Joined ==
  ASSUME NEW s, NEW t, IsSequence(s), IsSequence(t)
  PROVE  /\ IsSequence(s \o t) /\ Len(s \o t) = Len(s) + Len(t)
         /\ Elements(s \o t) = Elements(s) \cup Elements(t)
         /\ \A i \in 1..Len(s) : (s \o t)[i] = s[i]
         /\ \A i \in 1..Len(t) : (s \o t)[Len(s) + i] = t[i]
<1> DEFINE S == Elements(s) \cup Elements(t)
           u == s \o t
<1>1. /\ s \in Seq(S) /\ t \in Seq(S)
      /\ Len(s) \in Nat /\ Len(t) \in Nat
      /\ DOMAIN s = 1..Len(s) /\ DOMAIN t = 1..Len(t)
  BY SequenceTyped DEF IsSequence
<1>2. /\ u \in Seq(S) /\ Len(u) = Len(s) + Len(t)
      /\ \A i \in 1..Len(s) : u[i] = s[i]
      /\ \A i \in 1..Len(t) : u[Len(s) + i] = t[i]
  <2> HIDE DEF S
  <2> QED BY <1>1, ConcatProperties
<1>3. IsSequence(u) /\ Elements(u) \subseteq S
  <2> HIDE DEF S, u
  <2> QED BY <1>2, SequenceIs
<1>4. S \subseteq Elements(u)
  <2>1. DOMAIN u = 1..(Len(s) + Len(t))
    BY <1>2
  <2>2. \A i \in 1..Len(s) : i \in DOMAIN u
    BY <1>1, <2>1
  <2>3. \A i \in 1..Len(t) : Len(s) + i \in DOMAIN u
    BY <1>1, <2>1
  <2> HIDE DEF u
  <2>4. Elements(s) \subseteq Elements(u)
    BY <1>1, <1>2, <2>2 DEF Elements
  <2>5. Elements(t) \subseteq Elements(u)
    BY <1>1, <1>2, <2>3 DEF Elements
  <2> QED BY <2>4, <2>5
<1> QED BY <1>2, <1>3, <1>4

-----------------------------------------------------------------------------
(* The scripts.                                                             *)

\* Some commands, among them one that asks for a home position and is followed
\* by one more.
AsksHome(i) ==
  /\ i.do = "queue" /\ Len(i.commands) > 1
  /\ i.commands[Len(i.commands) - 1] = Home

Names == {"MOVE", "SET", "HOME"}

Orders(i) ==
  i.do = "queue" => /\ IsSequence(i.commands) /\ i.commands # <<>>
                    /\ \A c \in Elements(i.commands) : c.name \in Names /\ c.axis \in Axes

\* A home position is taken three instructions after it was asked for, when the
\* commands were acknowledged and the stage stood still, and nothing else is
\* asked for in between.
Sound(script) ==
  /\ IsSequence(script) /\ script # <<>>
  /\ \A k \in 1..Len(script) :
       /\ Orders(script[k])
       /\ script[k].do = "home" => k > 3 /\ AsksHome(script[k - 3])
       /\ AsksHome(script[k]) =>
            /\ k + 3 <= Len(script) /\ script[k + 1].do = "acked"
            /\ script[k + 2].do = "stopped" /\ script[k + 3].do = "home"

\* An instruction that has nothing to do with homing.
Apart(i) == Orders(i) /\ i.do # "home" /\ ~AsksHome(i)

LEMMA PlainIsSound ==
  ASSUME NEW s, IsSequence(s), s # <<>>, \A i \in Elements(s) : Apart(i)
  PROVE  Sound(s)
BY SequenceTyped DEF Sound, Apart

LEMMA JoinedIsSound ==
  ASSUME NEW s, NEW t, Sound(s), Sound(t)
  PROVE  Sound(s \o t)
<1> DEFINE u == s \o t
           m == Len(s)
           n == Len(t)
<1>1. /\ m \in Nat /\ n \in Nat /\ m > 0 /\ n > 0
  BY SequenceTyped DEF Sound
<1>2. /\ IsSequence(u) /\ Len(u) = m + n
      /\ \A i \in 1..m : u[i] = s[i]
      /\ \A i \in 1..n : u[m + i] = t[i]
  BY Joined DEF Sound
<1>3. u # <<>>
  BY <1>1, <1>2, SequenceTyped
<1> HIDE DEF u, m, n
<1>4. ASSUME NEW k \in 1..(m + n)
      PROVE  /\ Orders(u[k])
             /\ u[k].do = "home" => k > 3 /\ AsksHome(u[k - 3])
             /\ AsksHome(u[k]) =>
                  /\ k + 3 <= m + n /\ u[k + 1].do = "acked"
                  /\ u[k + 2].do = "stopped" /\ u[k + 3].do = "home"
  <2>1. CASE k \in 1..m
    <3>1. u[k] = s[k]
      BY <1>2, <2>1
    <3>2. /\ Orders(s[k])
          /\ s[k].do = "home" => k > 3 /\ AsksHome(s[k - 3])
          /\ AsksHome(s[k]) =>
               /\ k + 3 <= m /\ s[k + 1].do = "acked"
               /\ s[k + 2].do = "stopped" /\ s[k + 3].do = "home"
      BY <2>1 DEF Sound, m
    <3>3. k > 3 => u[k - 3] = s[k - 3]
      <4>1. k > 3 => k - 3 \in 1..m
        BY <1>1, <2>1
      <4> QED BY <1>2, <4>1
    <3>4. k + 3 <= m => u[k + 1] = s[k + 1] /\ u[k + 2] = s[k + 2] /\ u[k + 3] = s[k + 3]
      <4>1. k + 3 <= m => k + 1 \in 1..m /\ k + 2 \in 1..m /\ k + 3 \in 1..m
        BY <1>1, <2>1
      <4> QED BY <1>2, <4>1
    <3>5. k + 3 <= m => k + 3 <= m + n
      BY <1>1, <2>1
    <3> QED BY <3>1, <3>2, <3>3, <3>4, <3>5
  <2>2. CASE k \notin 1..m
    <3> DEFINE j == k - m
    <3>1. j \in 1..n /\ k = m + j
      BY <1>1, <2>2
    <3>2. k - 3 = m + (j - 3) /\ k + 1 = m + (j + 1) /\ k + 2 = m + (j + 2) /\ k + 3 = m + (j + 3)
      BY <1>1, <3>1
    <3> HIDE DEF j
    <3>3. u[k] = t[j]
      BY <1>2, <3>1
    <3>4. /\ Orders(t[j])
          /\ t[j].do = "home" => j > 3 /\ AsksHome(t[j - 3])
          /\ AsksHome(t[j]) =>
               /\ j + 3 <= n /\ t[j + 1].do = "acked"
               /\ t[j + 2].do = "stopped" /\ t[j + 3].do = "home"
      BY <3>1 DEF Sound, n
    <3>5. j > 3 => k > 3 /\ u[k - 3] = t[j - 3]
      <4>1. j > 3 => j - 3 \in 1..n /\ k > 3
        BY <1>1, <3>1
      <4> QED BY <1>2, <3>2, <4>1
    <3>6. j + 3 <= n =>
            /\ k + 3 <= m + n
            /\ u[k + 1] = t[j + 1] /\ u[k + 2] = t[j + 2] /\ u[k + 3] = t[j + 3]
      <4>1. j + 3 <= n => /\ j + 1 \in 1..n /\ j + 2 \in 1..n /\ j + 3 \in 1..n
                          /\ k + 3 <= m + n
        BY <1>1, <3>1
      <4> QED BY <1>2, <3>2, <4>1
    <3> QED BY <3>3, <3>4, <3>5, <3>6
  <2> QED BY <2>1, <2>2
<1> QED BY <1>2, <1>3, <1>4 DEF Sound, u

\* Commands that are not for a home position.
LEMMA Ordinary ==
  ASSUME NEW cs, IsSequence(cs), cs # <<>>,
         \A c \in Elements(cs) : c.name \in {"MOVE", "SET"} /\ c.axis \in Axes
  PROVE  Apart(Queue(cs))
<1> DEFINE i == Queue(cs)
<1>1. i.do = "queue" /\ i.commands = cs
  BY DEF Queue
<1>2. Len(cs) > 1 => cs[Len(cs) - 1] \in Elements(cs)
  <2>1. Len(cs) \in Nat /\ \A k \in 1..Len(cs) : cs[k] \in Elements(cs)
    BY SequenceTyped
  <2>2. Len(cs) > 1 => Len(cs) - 1 \in 1..Len(cs)
    BY <2>1
  <2> QED BY <2>1, <2>2
<1>3. Home.name = "HOME"
  BY DEF Home, Command
<1> HIDE DEF i
<1> QED BY <1>1, <1>2, <1>3 DEF Apart, Orders, AsksHome, Names, i

LEMMA CommandNames ==
  ASSUME NEW x \in Axes, NEW n, NEW pass
  PROVE  /\ Move(x, n).name = "MOVE" /\ Move(x, n).axis = x
         /\ Set(x, n).name = "SET" /\ Set(x, n).axis = x
         /\ SetTo(pass).name = "SET" /\ SetTo(pass).axis = "rot"
         /\ MoveTo(pass).name = "MOVE" /\ MoveTo(pass).axis = "rot"
         /\ Home.name = "HOME" /\ Home.axis = "rot"
         /\ "rot" \in Axes /\ "lin" \in Axes
BY DEF Move, Set, SetTo, MoveTo, Home, Command, Axes

\* Two commands and the wait for their acknowledgement.
LEMMA OrdersAreSound ==
  ASSUME NEW cs, IsSequence(cs), cs # <<>>,
         \A c \in Elements(cs) : c.name \in {"MOVE", "SET"} /\ c.axis \in Axes
  PROVE  Sound(<<Queue(cs), Wait("acked")>>)
<1> DEFINE s == <<Queue(cs), Wait("acked")>>
<1>1. Apart(Queue(cs)) /\ Apart(Wait("acked"))
  BY Ordinary DEF Apart, Orders, AsksHome, Wait
<1>2. s \in Seq({Queue(cs), Wait("acked")}) /\ s # <<>>
  OBVIOUS
<1>3. IsSequence(s) /\ Elements(s) \subseteq {Queue(cs), Wait("acked")}
  <2> HIDE DEF s
  <2> QED BY <1>2, SequenceIs
<1> HIDE DEF s
<1> QED BY <1>1, <1>2, <1>3, PlainIsSound DEF s

LEMMA Singles ==
  ASSUME NEW c
  PROVE  /\ IsSequence(<<c>>) /\ Elements(<<c>>) \subseteq {c} /\ <<c>> # <<>>
         /\ IsSequence(<<>>) /\ Elements(<<>>) = {}
<1>1. <<c>> \in Seq({c}) /\ <<c>> # <<>>
  OBVIOUS
<1>2. <<>> \in Seq({})
  OBVIOUS
<1>3. IsSequence(<<c>>) /\ Elements(<<c>>) \subseteq {c}
  BY <1>1, SequenceIs
<1>4. IsSequence(<<>>) /\ Elements(<<>>) \subseteq {}
  <2> DEFINE none == {}
             e == <<>>
  <2>1. e \in Seq(none)
    OBVIOUS
  <2> HIDE DEF none, e
  <2>2. IsSequence(e) /\ Elements(e) \subseteq none
    BY <2>1, SequenceIs
  <2> QED BY <2>2 DEF none, e
<1> QED BY <1>1, <1>3, <1>4

LEMMA Pairs ==
  ASSUME NEW c, NEW d
  PROVE  /\ IsSequence(<<c, d>>) /\ Elements(<<c, d>>) \subseteq {c, d} /\ <<c, d>> # <<>>
         /\ Len(<<c, d>>) = 2 /\ <<c, d>>[1] = c
<1>1. <<c, d>> \in Seq({c, d}) /\ <<c, d>> # <<>>
  OBVIOUS
<1>2. IsSequence(<<c, d>>) /\ Elements(<<c, d>>) \subseteq {c, d}
  BY <1>1, SequenceIs
<1> QED BY <1>1, <1>2

LEMMA BlockingIsSound ==
  ASSUME NEW cs, IsSequence(cs), NEW x \in Axes, NEW n,
         \A c \in Elements(cs) : c.name \in {"MOVE", "SET"} /\ c.axis \in Axes
  PROVE  Sound(Blocking(cs, x, n))
<1> DEFINE ds == Append(cs, Move(x, n))
           at == [do |-> "at", axis |-> x, arg |-> n]
           S == {Queue(ds), Wait("acked"), Wait("moving"), Wait("stopped"), at}
           s == Blocking(cs, x, n)
<1>1. IsSequence(ds) /\ ds # <<>> /\ \A c \in Elements(ds) : c.name \in {"MOVE", "SET"} /\ c.axis \in Axes
  <2>1. IsSequence(ds) /\ Elements(ds) = Elements(cs) \cup {Move(x, n)} /\ Len(ds) = Len(cs) + 1
    BY AppendedTo
  <2>2. Len(cs) \in Nat
    BY SequenceTyped
  <2> HIDE DEF ds
  <2>3. ds # <<>>
    BY <2>1, <2>2, SequenceTyped
  <2> QED BY <2>1, <2>3, CommandNames
<1> HIDE DEF ds
<1>2. \A i \in S : Apart(i)
  BY <1>1, Ordinary DEF Apart, Orders, AsksHome, Wait
<1>3. s \in Seq(S) /\ s # <<>>
  BY DEF Blocking, ds
<1>4. IsSequence(s) /\ Elements(s) \subseteq S
  <2> HIDE DEF s, S
  <2> QED BY <1>3, SequenceIs
<1> HIDE DEF s, S
<1> QED BY <1>2, <1>3, <1>4, PlainIsSound DEF s

LEMMA SweepIsSound ==
  ASSUME NEW cs, IsSequence(cs), NEW pass,
         \A c \in Elements(cs) : c.name \in {"MOVE", "SET"} /\ c.axis \in Axes
  PROVE  Sound(Sweep(cs, pass))
<1> DEFINE pair == <<Home, Move("rot", 1)>>
           ds == cs \o pair
           S == {Queue(ds), Wait("acked"), Wait("stopped"), TakeHome(pass)}
           s == Sweep(cs, pass)
<1>1. /\ IsSequence(pair) /\ Elements(pair) \subseteq {Home, Move("rot", 1)}
      /\ Len(pair) = 2 /\ pair[1] = Home
  BY Pairs
<1> HIDE DEF pair
<1>2. Len(cs) \in Nat
  BY SequenceTyped
<1>3. /\ IsSequence(ds) /\ Len(ds) = Len(cs) + 2 /\ ds[Len(cs) + 1] = Home
      /\ Elements(ds) \subseteq Elements(cs) \cup {Home, Move("rot", 1)}
  <2>1. 1 \in 1..Len(pair)
    BY <1>1
  <2>2. /\ IsSequence(cs \o pair) /\ Len(cs \o pair) = Len(cs) + Len(pair)
        /\ Elements(cs \o pair) = Elements(cs) \cup Elements(pair)
        /\ \A i \in 1..Len(pair) : (cs \o pair)[Len(cs) + i] = pair[i]
    BY <1>1, Joined
  <2>3. (cs \o pair)[Len(cs) + 1] = pair[1]
    BY <2>1, <2>2
  <2> QED BY <1>1, <2>2, <2>3
<1> HIDE DEF ds
<1>4. ds # <<>> /\ Len(ds) > 1 /\ ds[Len(ds) - 1] = Home
  <2>1. Len(ds) - 1 = Len(cs) + 1 /\ Len(ds) > 1
    BY <1>2, <1>3
  <2> QED BY <1>3, <2>1, SequenceTyped
<1>5. \A c \in Elements(ds) : c.name \in Names /\ c.axis \in Axes
  <2>1. Home.name = "HOME" /\ Home.axis \in Axes
    BY DEF Home, Command, Axes
  <2>2. Move("rot", 1).name = "MOVE" /\ Move("rot", 1).axis \in Axes
    BY DEF Move, Command, Axes
  <2> QED BY <1>3, <2>1, <2>2 DEF Names
<1>6. s = <<Queue(ds), Wait("acked"), Wait("stopped"), TakeHome(pass)>>
  BY DEF Sweep, ds, pair
<1>7. s \in Seq(S) /\ s # <<>> /\ Len(s) = 4
  BY <1>6
<1>8. IsSequence(s)
  <2> HIDE DEF s, S
  <2> QED BY <1>7, SequenceIs
<1>9. /\ s[1].do = "queue" /\ s[1].commands = ds
      /\ s[2].do = "acked" /\ s[3].do = "stopped" /\ s[4].do = "home"
  BY <1>6 DEF Queue, Wait, TakeHome
<1> HIDE DEF s, S
<1>10. AsksHome(s[1]) /\ \A k \in 2..4 : ~AsksHome(s[k])
  BY <1>4, <1>9 DEF AsksHome
<1>11. \A k \in 1..4 : Orders(s[k])
  BY <1>3, <1>4, <1>5, <1>9 DEF Orders
<1> QED BY <1>7, <1>8, <1>9, <1>10, <1>11 DEF Sound, s

Parts == {"lin", "rot", "retry", "move"}

\* Every operation is sound.
LEMMA ScriptsAreSound ==
  ASSUME NEW job, job.part \in Parts
  PROVE  Sound(Script(job))
<1>1. "rot" \in Axes /\ "lin" \in Axes
  BY DEF Axes
<1> DEFINE Blocks(x, n) == Sound(Blocking(<<>>, x, n))
<1>2. \A n : Blocks("rot", n) /\ Blocks("lin", n)
  <2>1. IsSequence(<<>>) /\ Elements(<<>>) = {}
    BY Singles
  <2> QED BY <1>1, <2>1, BlockingIsSound
<1> DEFINE Asks(cs) == <<Queue(cs), Wait("acked")>>
           Changes(c) == c.name \in {"MOVE", "SET"} /\ c.axis \in Axes
<1>3. \A c : Changes(c) => Sound(Asks(<<c>>))
  <2> SUFFICES ASSUME NEW c, Changes(c) PROVE Sound(Asks(<<c>>))
    OBVIOUS
  <2>1. IsSequence(<<c>>) /\ Elements(<<c>>) \subseteq {c} /\ <<c>> # <<>>
    BY Singles
  <2> QED BY <2>1, OrdersAreSound
<1>4. \A c, d : Changes(c) /\ Changes(d) => Sound(Asks(<<c, d>>))
  <2> SUFFICES ASSUME NEW c, NEW d, Changes(c), Changes(d) PROVE Sound(Asks(<<c, d>>))
    OBVIOUS
  <2>1. IsSequence(<<c, d>>) /\ Elements(<<c, d>>) \subseteq {c, d} /\ <<c, d>> # <<>>
    BY Pairs
  <2> QED BY <2>1, OrdersAreSound
<1>5. /\ \A x \in Axes : \A n : Changes(Set(x, n)) /\ Changes(Move(x, n))
      /\ \A pass : Changes(SetTo(pass)) /\ Changes(MoveTo(pass))
  BY DEF Set, Move, SetTo, MoveTo, Command, Axes
<1>6. \A pass : Sound(Sweep(<<>>, pass)) /\ Sound(Sweep(<<Set("rot", 0)>>, pass))
  <2>1. /\ IsSequence(<<>>) /\ Elements(<<>>) = {}
        /\ IsSequence(<<Set("rot", 0)>>) /\ Elements(<<Set("rot", 0)>>) \subseteq {Set("rot", 0)}
    BY Singles
  <2>2. Changes(Set("rot", 0))
    BY <1>1, <1>5
  <2> QED BY <2>1, <2>2, SweepIsSound
<1> HIDE DEF Blocks, Asks, Changes
<1>7. CASE job.part = "lin"
  <2> DEFINE first == <<Queue(<<Move("rot", 0)>>), Wait("acked"), Wait("stopped"),
                        Queue(<<Set("rot", 0), Set("lin", 0)>>), Wait("acked")>>
             second == Blocking(<<>>, "lin", 2)
             third == <<Queue(<<Set("lin", 0), Move("lin", 0)>>), Wait("acked")>>
  <2>1. Sound(first)
    <3> DEFINE S == {Queue(<<Move("rot", 0)>>), Wait("acked"), Wait("stopped"),
                     Queue(<<Set("rot", 0), Set("lin", 0)>>)}
    <3>1. first \in Seq(S) /\ first # <<>>
      OBVIOUS
    <3>2. Apart(Wait("acked")) /\ Apart(Wait("stopped"))
      BY DEF Apart, Orders, AsksHome, Wait
    <3>3. Apart(Queue(<<Move("rot", 0)>>))
      BY <1>1, <1>5, Singles, Ordinary DEF Changes
    <3>4. Apart(Queue(<<Set("rot", 0), Set("lin", 0)>>))
      BY <1>1, <1>5, Pairs, Ordinary DEF Changes
    <3>5. \A i \in S : Apart(i)
      BY <3>2, <3>3, <3>4
    <3> HIDE DEF first, S
    <3>6. IsSequence(first) /\ Elements(first) \subseteq S
      BY <3>1, SequenceIs
    <3> QED BY <3>1, <3>5, <3>6, PlainIsSound
  <2>2. Sound(second)
    BY <1>2 DEF Blocks
  <2>3. Sound(third)
    BY <1>1, <1>4, <1>5 DEF Asks
  <2>4. Script(job) = first \o second \o third
    BY <1>7 DEF Script, HomeLin
  <2> HIDE DEF first, second, third
  <2> QED BY <2>1, <2>2, <2>3, <2>4, JoinedIsSound
<1>8. CASE job.part = "rot"
  <2> DEFINE p1 == Blocking(<<>>, "lin", 1)
             p2 == Blocking(<<>>, "rot", 0)
             p3 == Sweep(<<Set("rot", 0)>>, "fast")
             p4 == Blocking(<<>>, "rot", -2)
             p5 == Blocking(<<>>, "rot", -1)
             p6 == <<Queue(<<Set("rot", 0), Move("rot", 0)>>), Wait("acked")>>
             p7 == Sweep(<<>>, "a")
             p8 == <<Queue(<<SetTo("a"), MoveTo("a")>>), Wait("acked")>>
             p9 == Sweep(<<>>, "b")
             p0 == <<Wait("compare"), Queue(<<Set("rot", 0)>>), Wait("acked")>>
  <2>1. Sound(p1) /\ Sound(p2) /\ Sound(p4) /\ Sound(p5)
    BY <1>2 DEF Blocks
  <2>2. Sound(p3) /\ Sound(p7) /\ Sound(p9)
    BY <1>6
  <2>3. Sound(p6) /\ Sound(p8)
    BY <1>1, <1>4, <1>5 DEF Asks
  <2>4. Sound(p0)
    <3> DEFINE S == {Wait("compare"), Wait("acked"), Queue(<<Set("rot", 0)>>)}
    <3>1. p0 \in Seq(S) /\ p0 # <<>>
      OBVIOUS
    <3>2. Apart(Wait("acked")) /\ Apart(Wait("compare"))
      BY DEF Apart, Orders, AsksHome, Wait
    <3>3. Apart(Queue(<<Set("rot", 0)>>))
      <4> DEFINE c == Set("rot", 0)
      <4>1. Changes(c)
        BY <1>1, <1>5
      <4> HIDE DEF c
      <4>2. IsSequence(<<c>>) /\ Elements(<<c>>) \subseteq {c} /\ <<c>> # <<>>
        BY Singles
      <4>3. Apart(Queue(<<c>>))
        BY <4>1, <4>2, Ordinary DEF Changes
      <4> QED BY <4>3 DEF c
    <3>4. \A i \in S : Apart(i)
      BY <3>2, <3>3
    <3> HIDE DEF p0, S
    <3>5. IsSequence(p0) /\ Elements(p0) \subseteq S
      BY <3>1, SequenceIs
    <3> QED BY <3>1, <3>4, <3>5, PlainIsSound
  <2>5. Script(job) = p1 \o p2 \o p3 \o p4 \o p5 \o p6 \o p7 \o p8 \o p5 \o p2 \o p9
                        \o p0 \o p5 \o p6
    BY <1>8 DEF Script, HomeRot
  <2> HIDE DEF p1, p2, p3, p4, p5, p6, p7, p8, p9, p0
  <2>6. Sound(p1 \o p2 \o p3 \o p4)
    BY <2>1, <2>2, JoinedIsSound
  <2>7. Sound(p1 \o p2 \o p3 \o p4 \o p5 \o p6 \o p7 \o p8)
    BY <2>1, <2>2, <2>3, <2>6, JoinedIsSound
  <2>8. Sound(p1 \o p2 \o p3 \o p4 \o p5 \o p6 \o p7 \o p8 \o p5 \o p2 \o p9)
    BY <2>1, <2>2, <2>7, JoinedIsSound
  <2>9. Sound(p1 \o p2 \o p3 \o p4 \o p5 \o p6 \o p7 \o p8 \o p5 \o p2 \o p9
                \o p0 \o p5 \o p6)
    BY <2>1, <2>3, <2>4, <2>8, JoinedIsSound
  <2> QED BY <2>5, <2>9
<1>9. CASE job.part = "retry"
  <2>1. Script(job) = Asks(<<Set("rot", 1)>>)
    BY <1>9 DEF Script, Asks
  <2>2. Changes(Set("rot", 1))
    BY <1>1, <1>5
  <2> QED BY <1>3, <2>1, <2>2
<1>10. CASE job.part = "move"
  <2> DEFINE m == Move("lin", job.to["lin"])
             n == job.to["rot"]
  <2>1. Script(job) = Blocking(<<m>>, "rot", n)
    BY <1>10 DEF Script, GoTo
  <2>2. Changes(m)
    BY <1>1, <1>5
  <2> HIDE DEF m, n
  <2>3. IsSequence(<<m>>) /\ Elements(<<m>>) \subseteq {m}
    BY Singles
  <2> QED BY <1>1, <2>1, <2>2, <2>3, BlockingIsSound DEF Changes
<1> QED BY <1>7, <1>8, <1>9, <1>10 DEF Parts

\* A script depends on the part of a job and on where it moves to.
LEMMA SameScript ==
  ASSUME NEW i, NEW j, i.part = j.part, i.to = j.to
  PROVE  Script(i) = Script(j)
BY DEF Script

LEMMA FunctionIsSequence ==
  ASSUME NEW n \in Nat, NEW f, f = [i \in 1..n |-> f[i]]
  PROVE  IsSequence(f) /\ Len(f) = n
<1> DEFINE S == {f[i] : i \in 1..n}
<1>1. f \in [1..n -> S]
  OBVIOUS
<1> HIDE DEF S
<1>2. f \in Seq(S) /\ Len(f) = n
  BY <1>1
<1> QED BY <1>2, SequenceIs

-----------------------------------------------------------------------------
(* The steppers.                                                            *)

Stepper(a) ==
  a = [pos |-> a.pos, target |-> a.target, dir |-> a.dir, canMove |-> a.canMove,
       homing |-> a.homing, triggered |-> a.triggered, home |-> a.home]

Steppers == axes = [x \in Axes |-> axes[x]] /\ \A x \in Axes : Stepper(axes[x])

Made(p, t, d, c, h, g, m) ==
  [pos |-> p, target |-> t, dir |-> d, canMove |-> c, homing |-> h, triggered |-> g,
   home |-> m]

LEMMA MadeIsStepper ==
  ASSUME NEW p, NEW t, NEW d, NEW c, NEW h, NEW g, NEW m
  PROVE  Stepper(Made(p, t, d, c, h, g, m)) /\ Made(p, t, d, c, h, g, m).home = m
BY DEF Stepper, Made

\* Only a command and the limit switch change the home position of a stepper.
LEMMA StepperSteps ==
  ASSUME NEW a, Stepper(a), NEW n, NEW yes
  PROVE  /\ Stepper(SetTarget(a, n)) /\ SetTarget(a, n).home = a.home
         /\ Stepper(SetPosition(a, n)) /\ SetPosition(a, n).home = a.home
         /\ Stepper(SetHoming(a)) /\ SetHoming(a).home = NoHome
         /\ Stepper(CanMove(a, yes)) /\ CanMove(a, yes).home = a.home
         /\ Stepper(Advance(a)) /\ Advance(a).home = a.home
         /\ Stepper(TrigHome(a))
<1> DEFINE p == a.pos
           t == a.target
           d == a.dir
           c == a.canMove
           h == a.homing
           g == a.triggered
           m == a.home
           no == FALSE
           true == TRUE
           zero == 0
<1>1. a = Made(p, t, d, c, h, g, m)
  BY DEF Stepper, Made
<1> HIDE DEF p, t, d, c, h, g, m, no, true, zero
<1>2. Stepper(SetTarget(a, n)) /\ SetTarget(a, n).home = m
  <2> DEFINE e == IF Idle(a) \/ Sign(n - a.pos) # a.dir THEN 0 ELSE a.dir
  <2>1. SetTarget(a, n) = [a EXCEPT !.target = n, !.dir = e]
    BY DEF SetTarget
  <2> HIDE DEF e
  <2>2. SetTarget(a, n) = Made(p, n, e, c, h, g, m)
    BY <1>1, <2>1 DEF Made
  <2> QED BY <2>2, MadeIsStepper
<1>3. Stepper(SetPosition(a, n)) /\ SetPosition(a, n).home = m
  <2>1. SetPosition(a, n) = [a EXCEPT !.pos = n, !.dir = zero]
    BY DEF SetPosition, zero
  <2>2. SetPosition(a, n) = Made(n, t, zero, c, h, g, m)
    BY <1>1, <2>1 DEF Made
  <2> QED BY <2>2, MadeIsStepper
<1>4. Stepper(SetHoming(a)) /\ SetHoming(a).home = NoHome
  <2>1. SetHoming(a) = Made(p, t, d, c, true, no, NoHome)
    <3>1. SetHoming(a) = [a EXCEPT !.homing = true, !.home = NoHome, !.triggered = no]
      BY DEF SetHoming, true, no
    <3> QED BY <1>1, <3>1 DEF Made
  <2> QED BY <2>1, MadeIsStepper
<1>5. Stepper(CanMove(a, yes)) /\ CanMove(a, yes).home = m
  <2> DEFINE e == IF yes THEN a.dir ELSE 0
  <2>1. CanMove(a, yes) = [a EXCEPT !.canMove = yes, !.dir = e]
    BY DEF CanMove
  <2> DEFINE y == yes
  <2> HIDE DEF e, y
  <2>2. CanMove(a, y) = [a EXCEPT !.canMove = y, !.dir = e]
    BY <2>1 DEF y
  <2>3. CanMove(a, y) = Made(p, t, e, y, h, g, m)
    BY <1>1, <2>2 DEF Made
  <2> QED BY <2>3, MadeIsStepper DEF y
<1>6. Stepper(Advance(a)) /\ Advance(a).home = m
  <2> DEFINE e == Sign(a.target - a.pos)
             q == a.pos + e
             next == [a EXCEPT !.pos = q, !.dir = e]
             last == [next EXCEPT !.homing = no, !.triggered = no]
  <2>1. Advance(a) = IF Idle(next) /\ a.triggered THEN last ELSE next
    BY DEF Advance, no
  <2>2. next = [a EXCEPT !.pos = q, !.dir = e]
    OBVIOUS
  <2> HIDE DEF e, q, next
  <2>3. next = Made(q, t, e, c, h, g, m)
    BY <1>1, <2>2 DEF Made
  <2>4. last = Made(q, t, e, c, no, no, m)
    <3>1. last = [next EXCEPT !.homing = no, !.triggered = no]
      OBVIOUS
    <3> HIDE DEF last
    <3> QED BY <2>3, <3>1 DEF Made
  <2> QED BY <2>1, <2>3, <2>4, MadeIsStepper
<1>7. Stepper(TrigHome(a))
  <2> DEFINE at == [a EXCEPT !.home = p, !.triggered = true, !.target = zero]
             e == -a.dir
             rest == [at EXCEPT !.pos = zero, !.homing = no]
             past == [at EXCEPT !.pos = e]
  <2>1. TrigHome(a) = IF a.dir = 0 THEN rest ELSE past
    BY DEF TrigHome, p, true, no, zero
  <2>2. at = [a EXCEPT !.home = p, !.triggered = true, !.target = zero]
    OBVIOUS
  <2> HIDE DEF e, at
  <2>3. at = Made(p, zero, d, c, h, true, p)
    BY <1>1, <2>2 DEF Made
  <2>4. rest = Made(zero, zero, d, c, no, true, p)
    <3>1. rest = [at EXCEPT !.pos = zero, !.homing = no]
      OBVIOUS
    <3> HIDE DEF rest
    <3> QED BY <2>3, <3>1 DEF Made
  <2>5. past = Made(e, zero, d, c, h, true, p)
    <3>1. past = [at EXCEPT !.pos = e]
      OBVIOUS
    <3> HIDE DEF past
    <3> QED BY <2>3, <3>1 DEF Made
  <2> HIDE DEF rest, past
  <2> QED BY <2>1, <2>4, <2>5, MadeIsStepper
<1> QED BY <1>2, <1>3, <1>4, <1>5, <1>6, <1>7 DEF m

\* The threads of the service: without a trip the home position stays.
LEMMA ServiceKeeps ==
  ASSUME Steppers, NEW quiet, ServiceNext(quiet)
  PROVE  /\ Steppers' /\ inbox' = inbox
         /\ ~tripped' => ~tripped /\ axes'["rot"].home = axes["rot"].home
<1> DEFINE Keeps == /\ Steppers' /\ inbox' = inbox
                    /\ ~tripped' => ~tripped /\ axes'["rot"].home = axes["rot"].home
<1>1. "rot" \in Axes
  BY DEF Axes
<1> SUFFICES Keeps
  OBVIOUS
<1> HIDE DEF Keeps
<1>2. ASSUME NEW x \in Axes, Step(x) PROVE Keeps
  <2> DEFINE b == Advance(axes[x])
  <2>1. axes' = [axes EXCEPT ![x] = b] /\ inbox' = inbox /\ tripped' = tripped
    BY <1>2 DEF Step
  <2>2. Stepper(b) /\ b.home = axes[x].home
    BY StepperSteps DEF Steppers
  <2> HIDE DEF b
  <2> QED BY <1>1, <2>1, <2>2 DEF Keeps, Steppers
<1>3. ASSUME NEW yes, axes' = AllMay(yes), inbox' = inbox, tripped' = tripped PROVE Keeps
  <2> DEFINE b(x) == CanMove(axes[x], yes)
  <2>1. axes' = [x \in Axes |-> b(x)]
    BY <1>3 DEF AllMay
  <2>2. \A x \in Axes : Stepper(b(x)) /\ b(x).home = axes[x].home
    BY StepperSteps DEF Steppers
  <2> HIDE DEF b
  <2>3. \A x \in Axes : axes'[x] = b(x)
    BY <2>1
  <2> QED BY <1>1, <1>3, <2>1, <2>2, <2>3 DEF Keeps, Steppers
<1>4. CASE LimitTrips
  <2> DEFINE b == TrigHome(axes["rot"])
  <2>1. axes' = [axes EXCEPT !["rot"] = b] /\ inbox' = inbox /\ tripped' = TRUE
    BY <1>4 DEF LimitTrips
  <2>2. Stepper(b)
    BY <1>1, StepperSteps DEF Steppers
  <2> HIDE DEF b
  <2> QED BY <1>1, <2>1, <2>2 DEF Keeps, Steppers
<1>5. CASE UNCHANGED <<axes, inbox, tripped>>
  BY <1>5 DEF Keeps, Steppers
<1>6. CASE SwitchOn \/ Disable
  BY <1>5, <1>6 DEF SwitchOn, Disable
<1>7. CASE Enable
  BY <1>3, <1>7 DEF Enable
<1>8. CASE SwitchOff
  BY <1>3, <1>8 DEF SwitchOff
<1> QED BY <1>2, <1>4, <1>6, <1>7, <1>8 DEF ServiceNext

Given(c) == c.seq \in Int /\ c.name \in Names /\ c.axis \in Axes
ForHome(c) == c.name = "HOME" /\ c.axis = "rot"

InboxShaped == inbox = [seq |-> inbox.seq, known |-> inbox.known] /\ inbox.seq \in Int

\* A command that arrives leaves the home position or forgets it.
LEMMA CommandArrives ==
  ASSUME Steppers, InboxShaped, NEW c, Given(c), Apply(c)
  PROVE  /\ Steppers' /\ InboxShaped' /\ inbox'.seq = c.seq /\ tripped' = tripped
         /\ axes'["rot"].home \in {axes["rot"].home, NoHome}
         /\ ForHome(c) => axes'["rot"].home = NoHome
<1> DEFINE a == axes[c.axis]
           b == CASE c.name = "MOVE" -> SetTarget(a, c.arg)
                  [] c.name = "SET" -> SetPosition(a, c.arg)
                  [] c.name = "HOME" -> SetHoming(a)
<1>1. axes' = [axes EXCEPT ![c.axis] = b] /\ inbox' = [inbox EXCEPT !.seq = c.seq]
      /\ tripped' = tripped
  BY DEF Apply
<1>2. /\ "rot" \in Axes /\ c.axis \in Axes /\ c.seq \in Int
      /\ c.name \in {"MOVE", "SET", "HOME"}
  BY DEF Axes, Given, Names
<1>3. Stepper(a)
  BY <1>2 DEF Steppers
<1>4. Stepper(b) /\ b.home \in {a.home, NoHome} /\ (c.name = "HOME" => b.home = NoHome)
  <2> HIDE DEF a
  <2>1. CASE c.name = "MOVE"
    <3>1. b = SetTarget(a, c.arg)
      BY <2>1
    <3> HIDE DEF b
    <3> QED BY <1>3, <2>1, <3>1, StepperSteps
  <2>2. CASE c.name = "SET"
    <3>1. b = SetPosition(a, c.arg)
      BY <2>2
    <3> HIDE DEF b
    <3> QED BY <1>3, <2>2, <3>1, StepperSteps
  <2>3. CASE c.name = "HOME"
    <3>1. b = SetHoming(a)
      BY <2>3
    <3> HIDE DEF b
    <3> QED BY <1>3, <2>3, <3>1, StepperSteps
  <2> QED BY <1>2, <2>1, <2>2, <2>3
<1> HIDE DEF b
<1>5. InboxShaped' /\ inbox'.seq = c.seq
  BY <1>1, <1>2 DEF InboxShaped
<1>6. /\ axes'[c.axis] = b /\ \A x \in Axes \ {c.axis} : axes'[x] = axes[x]
      /\ axes' = [x \in Axes |-> axes'[x]]
  BY <1>1, <1>2 DEF Steppers
<1>7. Steppers'
  BY <1>4, <1>6 DEF Steppers
<1> QED BY <1>1, <1>2, <1>4, <1>5, <1>6, <1>7 DEF ForHome

-----------------------------------------------------------------------------
(* The link.  While nothing was lost the numbers of the commands under way   *)
(* follow that of the last one that arrived; a report may name the next one. *)

UnderWay == Elements(link.queue) \cup Elements(wire)

LinkShaped ==
  /\ link = [online |-> link.online, next |-> link.next, ack |-> link.ack,
             gone |-> link.gone, queue |-> link.queue]
  /\ link.next \in Nat /\ link.ack \in Int /\ link.gone \in Int
  /\ IsSequence(link.queue) /\ IsSequence(wire)
  /\ \A c \in UnderWay : Given(c)

Consecutive ==
  /\ link.gone = -1 /\ inbox.seq >= -1 /\ link.ack >= -1
  /\ \A i \in 1..Len(wire) : wire[i].seq = inbox.seq + i
  /\ \A i \in 1..Len(link.queue) : link.queue[i].seq = inbox.seq + Len(wire) + i
  /\ link.next = inbox.seq + Len(wire) + Len(link.queue) + 1
  /\ link.ack <= inbox.seq \/ (wire # <<>> /\ link.ack <= inbox.seq + 1)

Numbered == ~lost => Consecutive

\* A home position was asked for with the newest but one command: it is on its
\* way, or it has arrived and the old position is forgotten, at the service and,
\* from the acknowledgement on, at the client.
Asking ==
  /\ \A c \in UnderWay : c.seq = link.next - 2 => ForHome(c)
  /\ inbox.seq >= link.next - 2 => axes["rot"].home = NoHome
  /\ link.ack >= link.next - 1 => heard.home = NoHome

Forgotten == inbox.seq >= link.next - 2 /\ heard.home = NoHome

\* What a step that is not one of the operation keeps.
LinkInv == Steppers /\ InboxShaped /\ LinkShaped /\ Numbered

Keeping ==
  /\ LinkInv'
  /\ ~lost' /\ ~tripped' =>
       /\ ~lost /\ ~tripped
       /\ Asking => Asking'
       /\ Asking /\ Forgotten => Forgotten'

LEMMA EmptyWire == IsSequence(<<>>) /\ Elements(<<>>) = {} /\ Len(<<>>) = 0
BY Singles

LEMMA Unlinked ==
  ASSUME LinkInv, ServiceNext(~Working), UNCHANGED linkVars
  PROVE  Keeping
<1>1. /\ Steppers' /\ inbox' = inbox
      /\ ~tripped' => ~tripped /\ axes'["rot"].home = axes["rot"].home
  BY ServiceKeeps DEF LinkInv
<1>2. link' = link /\ heard' = heard /\ wire' = wire /\ lost' = lost
  BY DEF linkVars
<1>3. LinkInv'
  BY <1>1, <1>2 DEF LinkInv, InboxShaped, LinkShaped, UnderWay, Numbered, Consecutive
<1> QED BY <1>1, <1>2, <1>3 DEF Keeping, Asking, Forgotten, UnderWay

LEMMA SendKeeps ==
  ASSUME LinkInv, Send, UNCHANGED serviceVars
  PROVE  Keeping
<1> DEFINE q == link.queue
           t == Tail(q)
           w == Append(wire, Head(q))
<1>1. UNCHANGED <<axes, inbox, tripped, heard>>
  BY DEF Send, serviceVars
<1>2. IsSequence(q) /\ q # <<>> /\ IsSequence(wire)
  BY DEF LinkInv, LinkShaped, Send
<1>3. /\ link' = [link EXCEPT !.queue = t]
      /\ (wire' = wire /\ lost') \/ (wire' = w /\ lost' = lost)
  BY DEF Send
<1> HIDE DEF q
<1>4. /\ IsSequence(t) /\ Elements(t) \subseteq Elements(q) /\ Head(q) \in Elements(q)
      /\ Head(q) = q[1] /\ Len(q) >= 1 /\ Len(t) = Len(q) - 1
      /\ \A i \in 1..Len(t) : t[i] = q[i + 1]
      /\ Len(q) \in Nat /\ Len(wire) \in Nat
  BY <1>2, TakenFrom, SequenceTyped
<1>5. /\ IsSequence(w) /\ Elements(w) = Elements(wire) \cup {Head(q)}
      /\ Len(w) = Len(wire) + 1 /\ w[Len(wire) + 1] = Head(q)
      /\ \A i \in 1..Len(wire) : w[i] = wire[i]
  BY <1>2, AppendedTo
<1> HIDE DEF t, w
<1>6. /\ LinkShaped /\ link'.queue = t /\ link'.next = link.next /\ link'.ack = link.ack
      /\ link'.gone = link.gone
      /\ link' = [online |-> link'.online, next |-> link'.next, ack |-> link'.ack,
                  gone |-> link'.gone, queue |-> link'.queue]
  BY <1>3 DEF LinkInv, LinkShaped
<1>7. UnderWay' \subseteq UnderWay
  BY <1>3, <1>4, <1>5, <1>6 DEF UnderWay, q
<1>8. LinkShaped'
  BY <1>3, <1>4, <1>5, <1>6, <1>7 DEF LinkShaped
<1>9. Numbered'
  <2> SUFFICES ASSUME ~lost' PROVE Consecutive'
    BY DEF Numbered
  <2>1. wire' = w /\ Consecutive /\ inbox.seq \in Int
    BY <1>3 DEF LinkInv, Numbered, InboxShaped
  <2>2. q[1].seq = inbox.seq + Len(wire) + 1
    <3>1. 1 \in 1..Len(q)
      BY <1>4
    <3> QED BY <2>1, <3>1 DEF Consecutive, q
  <2>3. \A i \in 1..Len(w) : w[i].seq = inbox.seq + i
    <3> SUFFICES ASSUME NEW i \in 1..Len(w) PROVE w[i].seq = inbox.seq + i
      OBVIOUS
    <3>1. CASE i \in 1..Len(wire)
      BY <1>5, <2>1, <3>1 DEF Consecutive
    <3>2. CASE i = Len(wire) + 1
      <4>1. w[i] = q[1]
        BY <1>4, <1>5, <3>2
      <4>2. inbox.seq + i = inbox.seq + Len(wire) + 1
        <5>1. inbox.seq \in Int /\ Len(wire) \in Int
          BY <1>4, <2>1
        <5> QED BY <3>2, <5>1
      <4> QED BY <2>2, <4>1, <4>2
    <3>3. i \in 1..Len(wire) \/ i = Len(wire) + 1
      <4>1. Len(w) = Len(wire) + 1 /\ Len(wire) \in Int
        BY <1>4, <1>5
      <4> QED BY <4>1
    <3> QED BY <3>1, <3>2, <3>3
  <2>4. \A i \in 1..Len(t) : t[i].seq = inbox.seq + Len(w) + i
    <3> SUFFICES ASSUME NEW i \in 1..Len(t) PROVE t[i].seq = inbox.seq + Len(w) + i
      OBVIOUS
    <3>1. i + 1 \in 1..Len(q)
      BY <1>4
    <3>2. q[i + 1].seq = inbox.seq + Len(wire) + (i + 1)
      BY <2>1, <3>1 DEF Consecutive, q
    <3>3. inbox.seq + Len(wire) + (i + 1) = inbox.seq + Len(w) + i
      <4>1. /\ Len(wire) \in Int /\ inbox.seq \in Int /\ i \in Int
            /\ Len(w) = Len(wire) + 1
        BY <1>4, <1>5, <2>1
      <4> QED BY <4>1
    <3>4. t[i] = q[i + 1]
      BY <1>4
    <3> QED BY <3>2, <3>3, <3>4
  <2>5. link.next = inbox.seq + Len(w) + Len(t) + 1
    <3>1. link.next = inbox.seq + Len(wire) + Len(q) + 1
      BY <2>1 DEF Consecutive, q
    <3>2. Len(wire) + Len(q) = Len(w) + Len(t)
      BY <1>4, <1>5
    <3>3. Len(w) \in Nat /\ Len(t) \in Nat
      BY <1>4, <1>5, SequenceTyped
    <3>4. Len(wire) \in Nat /\ Len(q) \in Nat /\ inbox.seq \in Int
      BY <1>4, <2>1
    <3> DEFINE s == inbox.seq
               a == Len(wire)
               b == Len(q)
               c == Len(w)
               d == Len(t)
    <3>5. /\ s \in Int /\ a \in Int /\ b \in Int /\ c \in Int /\ d \in Int
          /\ a + b = c + d /\ link.next = s + a + b + 1
      BY <3>1, <3>2, <3>3, <3>4
    <3> HIDE DEF s, a, b, c, d
    <3>6. link.next = s + c + d + 1
      BY <3>5
    <3> QED BY <3>6 DEF s, c, d
  <2>6. w # <<>>
    BY <1>4, <1>5, SequenceTyped
  <2> QED BY <1>1, <1>6, <2>1, <2>3, <2>4, <2>5, <2>6 DEF Consecutive, LinkShaped
<1>10. LinkInv'
  BY <1>1, <1>8, <1>9 DEF LinkInv, Steppers, InboxShaped
<1> QED BY <1>1, <1>3, <1>6, <1>7, <1>10 DEF Keeping, Asking, Forgotten

\* What the other steps of the link leave: the same numbers, unless something was
\* lost.
LEMMA ShapedAgain ==
  ASSUME LinkShaped, NEW l, l = [online |-> l.online, next |-> l.next, ack |-> l.ack,
                                 gone |-> l.gone, queue |-> l.queue],
         l.next \in Nat, l.ack \in Int, l.gone \in Int,
         IsSequence(l.queue), Elements(l.queue) \subseteq Elements(link.queue),
         link' = l, IsSequence(wire'), Elements(wire') \subseteq UnderWay
  PROVE  LinkShaped' /\ UnderWay' \subseteq UnderWay
BY DEF LinkShaped, UnderWay

LEMMA HearKeeps ==
  ASSUME LinkInv, Hear \/ HearTorn, UNCHANGED serviceVars
  PROVE  Keeping
<1> DEFINE n == IF Hear THEN inbox.seq ELSE Head(wire).seq
           on == TRUE
<1>1. UNCHANGED <<axes, inbox, tripped, wire, lost>>
  BY DEF Hear, HearTorn, serviceVars
<1>2. Hear \/ (wire # <<>> /\ link' = [link EXCEPT !.ack = Head(wire).seq, !.online = on])
  BY DEF HearTorn
<1>3. link' = [link EXCEPT !.ack = n, !.online = on] /\ heard'.home = axes["rot"].home
  <2>1. heard'.home = axes["rot"].home
    BY DEF Hear, HearTorn, Report
  <2>2. CASE Hear
    <3>1. n = inbox.seq
      BY <2>2
    <3> HIDE DEF n
    <3>2. link' = [link EXCEPT !.ack = inbox.seq, !.online = on]
      BY <2>2 DEF Hear
    <3> QED BY <2>1, <3>1, <3>2
  <2>3. CASE ~Hear
    <3>1. n = Head(wire).seq
      BY <2>3
    <3> HIDE DEF n, on
    <3> QED BY <1>2, <2>1, <2>3, <3>1
  <2> QED BY <2>2, <2>3
<1>4. n \in Int /\ (n = inbox.seq \/ (wire # <<>> /\ n = Head(wire).seq))
  <2>1. CASE Hear
    BY <2>1 DEF LinkInv, InboxShaped
  <2>2. CASE ~Hear
    <3>1. wire # <<>> /\ IsSequence(wire)
      BY <1>2, <2>2 DEF LinkInv, LinkShaped
    <3>2. Head(wire) \in UnderWay
      BY <3>1, TakenFrom DEF UnderWay
    <3> QED BY <2>2, <3>1, <3>2 DEF LinkInv, LinkShaped, Given
  <2> QED BY <2>1, <2>2
<1> HIDE DEF n, on
<1>5. /\ link' = [online |-> link'.online, next |-> link'.next, ack |-> link'.ack,
                  gone |-> link'.gone, queue |-> link'.queue]
      /\ link'.next = link.next /\ link'.ack = n /\ link'.gone = link.gone
      /\ link'.queue = link.queue
  BY <1>3 DEF LinkInv, LinkShaped
<1>6. LinkShaped' /\ UnderWay' = UnderWay
  BY <1>1, <1>4, <1>5 DEF LinkInv, LinkShaped, UnderWay
<1>7. ~lost => Consecutive /\ Consecutive'
                 /\ (n = inbox.seq \/ (wire # <<>> /\ n = inbox.seq + 1))
  <2> SUFFICES ASSUME ~lost
               PROVE  Consecutive /\ Consecutive'
                        /\ (n = inbox.seq \/ (wire # <<>> /\ n = inbox.seq + 1))
    OBVIOUS
  <2>1. Consecutive /\ inbox.seq \in Int
    BY DEF LinkInv, Numbered, InboxShaped
  <2>2. wire # <<>> => Head(wire).seq = inbox.seq + 1
    <3>1. wire # <<>> => 1 \in 1..Len(wire) /\ Head(wire) = wire[1]
      BY TakenFrom, SequenceTyped DEF LinkInv, LinkShaped
    <3> QED BY <2>1, <3>1 DEF Consecutive
  <2>3. n = inbox.seq \/ (wire # <<>> /\ n = inbox.seq + 1)
    BY <1>4, <2>2
  <2>4. n >= -1 /\ (n <= inbox.seq \/ (wire # <<>> /\ n <= inbox.seq + 1))
    BY <2>1, <2>3 DEF Consecutive
  <2> QED BY <1>1, <1>5, <2>1, <2>3, <2>4 DEF Consecutive
<1>8. LinkInv'
  BY <1>1, <1>6, <1>7 DEF LinkInv, Steppers, InboxShaped, Numbered
<1>9. ~lost => (n >= link.next - 1 => inbox.seq >= link.next - 2)
  BY <1>7 DEF LinkInv, LinkShaped, InboxShaped
<1>10. ~lost /\ Asking => Asking'
  BY <1>1, <1>3, <1>5, <1>6, <1>9 DEF Asking
<1>11. Asking /\ Forgotten => Forgotten'
  BY <1>1, <1>3, <1>5 DEF Asking, Forgotten
<1> QED BY <1>1, <1>8, <1>10, <1>11 DEF Keeping

\* A link that goes offline loses what was not acknowledged.
LEMMA OfflineLoses ==
  ASSUME LinkInv, ~lost, NEW l, l = Offline(link), l.gone = link.gone
  PROVE  link.queue = <<>>
<1>1. Consecutive /\ inbox.seq \in Int /\ link.next \in Nat /\ link.ack \in Int
  BY DEF LinkInv, Numbered, InboxShaped, LinkShaped
<1>2. Len(link.queue) \in Nat /\ Len(wire) \in Nat
      /\ (link.queue = <<>> <=> Len(link.queue) = 0) /\ (wire = <<>> <=> Len(wire) = 0)
  BY SequenceTyped DEF LinkInv, LinkShaped
<1>3. link.ack < link.next - 1 => l.gone = link.next - 1
  <2> DEFINE g == IF link.ack < link.next - 1 THEN link.next - 1 ELSE link.gone
             e == <<>>
             no == FALSE
  <2>1. l = [link EXCEPT !.online = no, !.queue = e, !.gone = g]
    BY DEF Offline
  <2> HIDE DEF g, e, no
  <2>2. l.gone = g
    BY <2>1 DEF LinkInv, LinkShaped
  <2> QED BY <2>2 DEF g
<1>4. ASSUME Len(link.queue) # 0 PROVE FALSE
  <2>1. /\ link.gone = -1 /\ inbox.seq >= -1
        /\ link.next = inbox.seq + Len(wire) + Len(link.queue) + 1
        /\ link.ack <= inbox.seq \/ (wire # <<>> /\ link.ack <= inbox.seq + 1)
    BY <1>1 DEF Consecutive
  <2>2. Len(link.queue) >= 1 /\ (wire # <<>> => Len(wire) >= 1)
    BY <1>2, <1>4
  <2>3. link.next > 0 /\ link.ack < link.next - 1
    <3> DEFINE next == link.next
               ack == link.ack
               seq == inbox.seq
               flying == Len(wire)
               waiting == Len(link.queue)
    <3>1. /\ next \in Int /\ ack \in Int /\ seq \in Int /\ flying \in Nat /\ waiting \in Nat
          /\ seq >= -1 /\ waiting >= 1 /\ next = seq + flying + waiting + 1
      BY <1>1, <1>2, <2>1, <2>2
    <3>2. ack <= seq \/ (flying >= 1 /\ ack <= seq + 1)
      BY <2>1, <2>2
    <3> HIDE DEF next, ack, seq, flying, waiting
    <3>3. next > 0 /\ ack < next - 1
      BY <3>1, <3>2
    <3> QED BY <3>3 DEF next, ack
  <2>4. link.next - 1 # -1
    BY <1>1, <2>3
  <2>5. l.gone = link.next - 1 /\ l.gone = -1
    BY <1>3, <2>1, <2>3
  <2> QED BY <2>4, <2>5
<1> QED BY <1>2, <1>4

LEMMA OfflineKeeps ==
  ASSUME LinkInv, LinkTimesOut \/ SocketFails, UNCHANGED serviceVars
  PROVE  Keeping
<1> DEFINE l == Offline(link)
           g == IF link.ack < link.next - 1 THEN link.next - 1 ELSE link.gone
           e == <<>>
           no == FALSE
<1>1. UNCHANGED <<axes, inbox, tripped, heard>>
  BY DEF LinkTimesOut, SocketFails, serviceVars
<1>2. /\ link' = l /\ lost' = (lost \/ l.gone # link.gone)
      /\ wire' = wire \/ (link.queue # <<>> /\ wire' = Append(wire, Head(link.queue)))
  BY DEF LinkTimesOut, SocketFails
<1>3. /\ l = [link EXCEPT !.online = no, !.queue = e, !.gone = g]
      /\ g \in Int /\ IsSequence(e) /\ Elements(e) = {} /\ Len(e) = 0
  <2>1. g \in Int
    BY DEF LinkInv, LinkShaped
  <2>2. l = [link EXCEPT !.online = no, !.queue = e, !.gone = g]
    BY DEF Offline
  <2> QED BY <2>1, <2>2, EmptyWire
<1> HIDE DEF g, e, no, l
<1>4. /\ l = [online |-> l.online, next |-> l.next, ack |-> l.ack, gone |-> l.gone,
              queue |-> l.queue]
      /\ l.next = link.next /\ l.ack = link.ack /\ l.gone = g /\ l.queue = e
  BY <1>3 DEF LinkInv, LinkShaped
<1>5. IsSequence(wire') /\ Elements(wire') \subseteq UnderWay
  <2>1. CASE wire' = wire
    BY <2>1 DEF LinkInv, LinkShaped, UnderWay
  <2>2. CASE link.queue # <<>> /\ wire' = Append(wire, Head(link.queue))
    <3>1. IsSequence(link.queue) /\ IsSequence(wire)
      BY DEF LinkInv, LinkShaped
    <3>2. Head(link.queue) \in Elements(link.queue)
      BY <2>2, <3>1, TakenFrom
    <3>3. IsSequence(wire') /\ Elements(wire') = Elements(wire) \cup {Head(link.queue)}
      BY <2>2, <3>1, AppendedTo
    <3> QED BY <3>2, <3>3 DEF UnderWay
  <2> QED BY <1>2, <2>1, <2>2
<1>6. LinkShaped' /\ UnderWay' \subseteq UnderWay
  <2>1. /\ LinkShaped /\ l.next \in Nat /\ l.ack \in Int /\ l.gone \in Int
        /\ IsSequence(l.queue) /\ Elements(l.queue) \subseteq Elements(link.queue)
    BY <1>3, <1>4 DEF LinkInv, LinkShaped
  <2> QED BY <1>2, <1>4, <1>5, <2>1, ShapedAgain
<1>7. ASSUME ~lost' PROVE ~lost /\ Consecutive'
  <2>1. ~lost /\ l.gone = link.gone
    BY <1>2, <1>7
  <2>2. link.queue = <<>>
    BY <2>1, OfflineLoses DEF l
  <2>3. wire' = wire /\ Len(link.queue) = 0 /\ Len(e) = 0
    BY <1>2, <1>3, <2>2, EmptyWire
  <2>4. Consecutive
    BY <2>1 DEF LinkInv, Numbered
  <2> QED BY <1>1, <1>2, <1>4, <2>1, <2>3, <2>4 DEF Consecutive
<1>8. LinkInv'
  BY <1>1, <1>6, <1>7 DEF LinkInv, Steppers, InboxShaped, Numbered
<1> QED BY <1>1, <1>2, <1>4, <1>6, <1>7, <1>8 DEF Keeping, Asking, Forgotten

LEMMA ArriveKeeps ==
  ASSUME LinkInv, Arrive
  PROVE  Keeping
<1> DEFINE c == Head(wire)
           t == Tail(wire)
<1>1. /\ wire # <<>> /\ Apply(c) /\ wire' = t
      /\ link' = link /\ heard' = heard /\ lost' = lost
  BY DEF Arrive
<1>2. /\ IsSequence(t) /\ Elements(t) \subseteq Elements(wire) /\ c \in Elements(wire)
      /\ c = wire[1] /\ Len(wire) >= 1 /\ Len(t) = Len(wire) - 1
      /\ \A i \in 1..Len(t) : t[i] = wire[i + 1]
      /\ Len(wire) \in Nat /\ Len(t) \in Nat
  BY <1>1, TakenFrom, SequenceTyped DEF LinkInv, LinkShaped
<1> HIDE DEF c, t
<1>3. Given(c)
  BY <1>2 DEF LinkInv, LinkShaped, UnderWay
<1>4. /\ Steppers' /\ InboxShaped' /\ inbox'.seq = c.seq /\ tripped' = tripped
      /\ axes'["rot"].home \in {axes["rot"].home, NoHome}
      /\ ForHome(c) => axes'["rot"].home = NoHome
  BY <1>1, <1>3, CommandArrives DEF LinkInv
<1>5. LinkShaped' /\ UnderWay' \subseteq UnderWay
  BY <1>1, <1>2 DEF LinkInv, LinkShaped, UnderWay
<1>6. ~lost => Consecutive /\ c.seq = inbox.seq + 1
  <2>1. 1 \in 1..Len(wire)
    BY <1>2
  <2> QED BY <1>2, <2>1 DEF LinkInv, Numbered, Consecutive
<1>7. ASSUME ~lost PROVE Consecutive'
  <2> DEFINE k == inbox.seq
             n == Len(wire)
             m == Len(link.queue)
  <2>1. Consecutive /\ k \in Int /\ inbox'.seq = k + 1 /\ m \in Nat /\ n \in Nat
        /\ Len(t) = n - 1 /\ n >= 1 /\ link.ack \in Int
    BY <1>2, <1>4, <1>6, <1>7, SequenceTyped DEF LinkInv, LinkShaped, InboxShaped
  <2>2. \A i \in 1..Len(t) : t[i].seq = k + 1 + i
    <3> SUFFICES ASSUME NEW i \in 1..Len(t) PROVE t[i].seq = k + 1 + i
      OBVIOUS
    <3>1. i + 1 \in 1..n /\ t[i] = wire[i + 1]
      BY <1>2
    <3>2. wire[i + 1].seq = k + (i + 1)
      BY <2>1, <3>1 DEF Consecutive
    <3> QED BY <2>1, <3>1, <3>2
  <2>3. \A i \in 1..m : link.queue[i].seq = (k + 1) + (n - 1) + i
    <3> SUFFICES ASSUME NEW i \in 1..m PROVE link.queue[i].seq = (k + 1) + (n - 1) + i
      OBVIOUS
    <3>1. link.queue[i].seq = k + n + i
      BY <2>1 DEF Consecutive
    <3> HIDE DEF k, n, m
    <3> QED BY <2>1, <3>1
  <2>4. link.next = (k + 1) + (n - 1) + m + 1
    <3>1. link.next = k + n + m + 1
      BY <2>1 DEF Consecutive
    <3> HIDE DEF k, n, m
    <3> QED BY <2>1, <3>1
  <2>5. k + 1 >= -1 /\ link.ack >= -1 /\ link.ack <= k + 1 /\ link.gone = -1
    BY <2>1 DEF Consecutive
  <2> HIDE DEF k
  <2> QED BY <1>1, <2>1, <2>2, <2>3, <2>4, <2>5 DEF Consecutive
<1>8. LinkInv'
  BY <1>1, <1>4, <1>5, <1>7 DEF LinkInv, Numbered
<1>9. ASSUME ~lost, Asking PROVE Asking'
  <2>1. inbox'.seq >= link.next - 2 => axes'["rot"].home = NoHome
    <3> SUFFICES ASSUME inbox'.seq >= link.next - 2 PROVE axes'["rot"].home = NoHome
      OBVIOUS
    <3>1. inbox'.seq = inbox.seq + 1 /\ inbox.seq \in Int /\ link.next \in Int
      BY <1>4, <1>6, <1>9 DEF LinkInv, LinkShaped, InboxShaped
    <3>2. CASE inbox.seq >= link.next - 2
      BY <1>4, <1>9, <3>2 DEF Asking
    <3>3. CASE ~(inbox.seq >= link.next - 2)
      <4>1. c.seq = link.next - 2
        BY <1>4, <3>1, <3>3
      <4>2. c \in UnderWay
        BY <1>2 DEF UnderWay
      <4> QED BY <1>4, <1>9, <4>1, <4>2 DEF Asking
    <3> QED BY <3>2, <3>3
  <2> QED BY <1>1, <1>5, <1>9, <2>1 DEF Asking
<1>10. ASSUME ~lost, Forgotten PROVE Forgotten'
  BY <1>1, <1>4, <1>6, <1>10 DEF Forgotten, LinkInv, LinkShaped, InboxShaped
<1> QED BY <1>1, <1>4, <1>8, <1>9, <1>10 DEF Keeping

\* A step that leaves the wire with commands of before.
LEMMA WireKeeps ==
  ASSUME LinkInv, UNCHANGED serviceVars, link' = link, heard' = heard,
         IsSequence(wire'), Elements(wire') \subseteq Elements(wire),
         ~lost' => wire' = wire /\ ~lost
  PROVE  Keeping
<1>1. UNCHANGED <<axes, inbox, tripped>>
  BY DEF serviceVars
<1>2. LinkShaped' /\ UnderWay' \subseteq UnderWay
  BY DEF LinkInv, LinkShaped, UnderWay
<1>3. Numbered'
  BY <1>1 DEF LinkInv, Numbered, Consecutive
<1>4. LinkInv'
  BY <1>1, <1>2, <1>3 DEF LinkInv, Steppers, InboxShaped
<1> QED BY <1>1, <1>2, <1>4 DEF Keeping, Asking, Forgotten

LEMMA NetworkKeeps ==
  ASSUME LinkInv, LoseCommand \/ Reorder \/ Cut \/ Mend, UNCHANGED serviceVars
  PROVE  Keeping
<1>1. IsSequence(wire)
  BY DEF LinkInv, LinkShaped
<1>2. CASE LoseCommand
  <2>1. wire # <<>> /\ wire' = Tail(wire) /\ lost' /\ link' = link /\ heard' = heard
    BY <1>2 DEF LoseCommand
  <2>2. IsSequence(wire') /\ Elements(wire') \subseteq Elements(wire)
    BY <1>1, <2>1, TakenFrom
  <2> QED BY <2>1, <2>2, WireKeeps
<1>3. CASE Reorder
  <2> DEFINE S == Elements(wire)
             u == <<wire[2], wire[1]>>
             v == SubSeq(wire, 3, Len(wire))
  <2>1. wire' = u \o v /\ lost' /\ link' = link /\ heard' = heard /\ Len(wire) > 1
    BY <1>3 DEF Reorder
  <2>2. wire \in Seq(S) /\ Len(wire) \in Nat /\ wire[1] \in S /\ wire[2] \in S
    <3>1. Len(wire) \in Nat /\ \A i \in 1..Len(wire) : wire[i] \in Elements(wire)
      BY <1>1, SequenceTyped
    <3>2. 1 \in 1..Len(wire) /\ 2 \in 1..Len(wire)
      BY <2>1, <3>1
    <3> QED BY <1>1, <3>1, <3>2 DEF IsSequence
  <2> HIDE DEF S
  <2>3. u \in Seq(S) /\ v \in Seq(S)
    <3>1. u \in Seq(S)
      BY <2>2
    <3>2. v \in Seq(S)
      <4>1. \A i \in 3..Len(wire) : wire[i] \in S
        BY <2>2
      <4> QED BY <2>2, <4>1
    <3> QED BY <3>1, <3>2
  <2> HIDE DEF u, v
  <2>4. wire' \in Seq(S)
    BY <2>1, <2>3
  <2>5. IsSequence(wire') /\ Elements(wire') \subseteq S
    BY <2>4, SequenceIs
  <2> QED BY <2>1, <2>5, WireKeeps DEF S
<1>4. CASE Cut
  <2>1. lost' = (lost \/ wire # <<>>) /\ wire' = <<>> /\ link' = link /\ heard' = heard
    BY <1>4 DEF Cut
  <2> QED BY <2>1, EmptyWire, WireKeeps
<1>5. CASE Mend
  <2>1. wire' = wire /\ lost' = lost /\ link' = link /\ heard' = heard
    BY <1>5 DEF Mend
  <2> QED BY <1>1, <2>1, WireKeeps
<1> QED BY <1>2, <1>3, <1>4, <1>5

LEMMA AskConnectionKeeps ==
  ASSUME LinkInv, AskConnection
  PROVE  Keeping
<1> DEFINE yes == TRUE
<1>1. /\ inbox' = [inbox EXCEPT !.known = yes]
      /\ UNCHANGED <<axes, tripped, link, heard, wire, lost>>
  BY DEF AskConnection, linkVars
<1> HIDE DEF yes
<1>2. InboxShaped' /\ inbox'.seq = inbox.seq
  BY <1>1 DEF LinkInv, InboxShaped
<1>3. LinkInv'
  BY <1>1, <1>2 DEF LinkInv, Steppers, LinkShaped, UnderWay, Numbered, Consecutive
<1> QED BY <1>1, <1>2, <1>3 DEF Keeping, Asking, Forgotten, UnderWay

LEMMA NewAreShaped ==
  /\ Stepper(NewAxis) /\ NewAxis.home = NoHome
  /\ NewInbox = [seq |-> NewInbox.seq, known |-> NewInbox.known] /\ NewInbox.seq = -1
  /\ NewLink = [online |-> NewLink.online, next |-> NewLink.next, ack |-> NewLink.ack,
                gone |-> NewLink.gone, queue |-> NewLink.queue]
  /\ NewLink.next = 0 /\ NewLink.ack = -1 /\ NewLink.gone = -1 /\ NewLink.queue = <<>>
<1> DEFINE no == FALSE
           zero == 0
<1>1. NewAxis = Made(zero, zero, zero, no, no, no, NoHome)
  BY DEF NewAxis, Made
<1> HIDE DEF no, zero
<1>2. Stepper(NewAxis) /\ NewAxis.home = NoHome
  BY <1>1, MadeIsStepper
<1> QED BY <1>2 DEF NewInbox, NewLink

LEMMA RestartKeeps ==
  ASSUME LinkInv, ClientRestarts \/ StageRestarts
  PROVE  Keeping
<1>1. lost' /\ wire' = wire
  BY DEF ClientRestarts, StageRestarts
<1>2. CASE ClientRestarts
  <2>1. link' = NewLink /\ UNCHANGED <<axes, inbox>>
    BY <1>2 DEF ClientRestarts, serviceVars
  <2>2. LinkShaped'
    <3>1. Elements(link'.queue) = {} /\ IsSequence(link'.queue)
      BY <2>1, NewAreShaped, EmptyWire
    <3> QED BY <1>1, <2>1, <3>1, NewAreShaped DEF LinkInv, LinkShaped, UnderWay
  <2> QED BY <1>1, <2>1, <2>2 DEF Keeping, LinkInv, Steppers, InboxShaped, Numbered
<1>3. CASE StageRestarts
  <2>1. link' = link /\ axes' = [x \in Axes |-> NewAxis] /\ inbox' = NewInbox
    BY <1>3 DEF StageRestarts, ServiceRestarts
  <2>2. Steppers'
    BY <2>1, NewAreShaped DEF Steppers
  <2>3. InboxShaped'
    BY <2>1, NewAreShaped DEF InboxShaped
  <2>4. LinkShaped'
    BY <1>1, <2>1 DEF LinkInv, LinkShaped, UnderWay
  <2> QED BY <1>1, <2>2, <2>3, <2>4 DEF Keeping, LinkInv, Numbered
<1> QED BY <1>2, <1>3

-----------------------------------------------------------------------------
(* The operations.                                                          *)

JobMade(k, t, a, n, p, m) ==
  [kind |-> k, to |-> t, at |-> a, tries |-> n, part |-> p, marks |-> m]
JobShaped(j) ==
  /\ j = JobMade(j.kind, j.to, j.at, j.tries, j.part, j.marks)
  /\ j.part \in Parts /\ j.at \in Nat

StageMade(t, o, j, e, h, g) ==
  [state |-> t, ops |-> o, job |-> j, error |-> e, homed |-> h, origin |-> g]
StageShaped(s) == s = StageMade(s.state, s.ops, s.job, s.error, s.homed, s.origin)

\* What the end of an instruction leads to: the next one, the first of another
\* part, or nothing.
Ends(s, r) ==
  /\ StageShaped(r) /\ r.ops = s.ops
  /\ \/ r.job = NoJob
     \/ JobShaped(r.job) /\ r.job.at = 1
     \/ /\ JobShaped(r.job) /\ r.job.at = s.job.at + 1
        /\ s.job.at < Len(Script(s.job))
        /\ r.job.part = s.job.part /\ r.job.to = s.job.to

LEMMA StageMadeIsShaped ==
  ASSUME NEW t, NEW o, NEW j, NEW e, NEW h, NEW g
  PROVE  /\ StageShaped(StageMade(t, o, j, e, h, g))
         /\ StageMade(t, o, j, e, h, g).ops = o /\ StageMade(t, o, j, e, h, g).job = j
BY DEF StageShaped, StageMade

LEMMA JobMadeIsShaped ==
  ASSUME NEW k, NEW t, NEW a \in Nat, NEW n, NEW p \in Parts, NEW m
  PROVE  /\ JobShaped(JobMade(k, t, a, n, p, m))
         /\ JobMade(k, t, a, n, p, m).at = a /\ JobMade(k, t, a, n, p, m).part = p
         /\ JobMade(k, t, a, n, p, m).to = t
BY DEF JobShaped, JobMade

LEMMA OperationEnds ==
  ASSUME NEW s, StageShaped(s), JobShaped(s.job)
  PROVE  Ends(s, Finished(s)) /\ Ends(s, Failed(s))
<1> DEFINE t == s.state
           o == s.ops
           h == s.homed
           g == s.origin
           j == s.job
           b == s.error
           idle == "idle"
           none == NoJob
           e == IF Homing(s.job) THEN FALSE ELSE s.error
           f == IF Homing(s.job) THEN TRUE ELSE s.error
           done == [s EXCEPT !.job = none, !.state = idle, !.error = e]
           gone == [s EXCEPT !.job = none, !.state = idle, !.error = f]
<1>1. Finished(s) = done /\ Failed(s) = gone
  BY DEF Finished, Failed
<1>2. s = StageMade(t, o, j, b, h, g)
  BY DEF StageShaped
<1> HIDE DEF t, o, h, g, j, b, idle, none, e, f
<1>3. done = StageMade(idle, o, none, e, h, g)
  <2>1. done = [s EXCEPT !.job = none, !.state = idle, !.error = e]
    OBVIOUS
  <2> HIDE DEF done
  <2> QED BY <1>2, <2>1 DEF StageMade
<1>4. gone = StageMade(idle, o, none, f, h, g)
  <2>1. gone = [s EXCEPT !.job = none, !.state = idle, !.error = f]
    OBVIOUS
  <2> HIDE DEF gone
  <2> QED BY <1>2, <2>1 DEF StageMade
<1> HIDE DEF done, gone
<1> QED BY <1>1, <1>3, <1>4, StageMadeIsShaped DEF Ends, none, o

LEMMA PartEnds ==
  ASSUME NEW s, StageShaped(s), JobShaped(s.job)
  PROVE  Ends(s, NextPart(s))
<1> DEFINE t == s.state
           o == s.ops
           j == s.job
           e == s.error
           h == s.homed
           g == s.origin
           k == s.job.kind
           to == s.job.to
           n == s.job.tries
           m == s.job.marks
           at == s.job.at
           part == s.job.part
           yes == TRUE
           rot == "rot"
           one == 1
           more == n + 1
<1>1. /\ s = StageMade(t, o, j, e, h, g)
      /\ j = JobMade(k, to, at, n, part, m)
  BY DEF StageShaped, JobShaped
<1>2. rot \in Parts /\ one \in Nat
  BY DEF Parts
<1>3. Ends(s, Finished(s)) /\ Ends(s, Failed(s))
  BY OperationEnds
<1>4. ASSUME s.job.part = "lin" PROVE Ends(s, NextPart(s))
  <2> DEFINE q == JobMade(k, to, one, n, rot, m)
             p == [g EXCEPT !["lin"] = yes]
             r == [s EXCEPT !.job = q, !.homed = yes, !.origin = p]
  <2>1. NextPart(s) = [s EXCEPT !.job.part = rot, !.job.at = one, !.homed = yes,
                                !.origin["lin"] = yes]
    BY <1>4 DEF NextPart
  <2> DEFINE i == JobMade(k, to, at, n, rot, m)
  <2>2. [j EXCEPT !.part = rot] = i /\ [i EXCEPT !.at = one] = q
    <3> HIDE DEF k, to, n, m, at, part, rot, one, j
    <3> QED BY <1>1 DEF JobMade
  <2>3. NextPart(s) = StageMade(t, o, q, e, yes, p)
    <3> HIDE DEF i, q, yes, t, o, e, h, g, j
    <3>1. [s EXCEPT !.job.part = rot] = StageMade(t, o, i, e, h, g)
      BY <1>1, <2>2 DEF StageMade
    <3> DEFINE u == StageMade(t, o, i, e, h, g)
               v == StageMade(t, o, q, e, h, g)
               w == StageMade(t, o, q, e, yes, g)
    <3>2. [u EXCEPT !.job.at = one] = v
      BY <2>2 DEF StageMade
    <3>3. [v EXCEPT !.homed = yes] = w
      BY DEF StageMade
    <3>4. [w EXCEPT !.origin["lin"] = yes] = StageMade(t, o, q, e, yes, p)
      <4>1. g = s.origin
        BY DEF g
      <4>2. p = [g EXCEPT !["lin"] = yes]
        BY DEF g
      <4> HIDE DEF p
      <4> QED BY <4>2 DEF StageMade
    <3> HIDE DEF u, v, w, p
    <3>5. NextPart(s) = [[[[s EXCEPT !.job.part = rot] EXCEPT !.job.at = one]
                            EXCEPT !.homed = yes] EXCEPT !.origin["lin"] = yes]
      BY <2>1
    <3>6. [s EXCEPT !.job.part = rot] = u
      BY <3>1 DEF u
    <3> QED BY <3>2, <3>3, <3>4, <3>5, <3>6
  <2>4. JobShaped(q) /\ q.at = 1
    BY <1>2, JobMadeIsShaped
  <2> HIDE DEF q, p, yes
  <2> QED BY <2>3, <2>4, StageMadeIsShaped DEF Ends
<1>5. ASSUME s.job.part = "rot" PROVE Ends(s, NextPart(s))
  <2> DEFINE f == Finished(s)
             p == [f.origin EXCEPT !["rot"] = yes]
  <2>1. NextPart(s) = [f EXCEPT !.origin["rot"] = yes]
    BY <1>5 DEF NextPart
  <2>2. StageShaped(f) /\ Ends(s, f)
    BY <1>3 DEF Ends
  <2> HIDE DEF f
  <2>3. NextPart(s) = StageMade(f.state, f.ops, f.job, f.error, f.homed, p)
    <3>1. NextPart(s) = [f EXCEPT !.origin = p]
      BY <2>1
    <3> HIDE DEF p
    <3> QED BY <2>2, <3>1 DEF StageShaped, StageMade
  <2> HIDE DEF p
  <2> QED BY <2>2, <2>3, StageMadeIsShaped DEF Ends
<1>6. ASSUME s.job.part = "retry", s.job.tries < MAX_ATTEMPTS PROVE Ends(s, NextPart(s))
  <2> DEFINE q == JobMade(k, to, one, more, rot, m)
  <2>1. NextPart(s) = [s EXCEPT !.job.part = rot, !.job.at = one, !.job.tries = more]
    BY <1>6 DEF NextPart
  <2> DEFINE i == JobMade(k, to, at, n, rot, m)
             l == JobMade(k, to, one, n, rot, m)
  <2>2. [j EXCEPT !.part = rot] = i /\ [i EXCEPT !.at = one] = l /\ [l EXCEPT !.tries = more] = q
    <3> HIDE DEF k, to, n, m, at, part, rot, one, j, more
    <3> QED BY <1>1 DEF JobMade
  <2>3. NextPart(s) = StageMade(t, o, q, e, h, g)
    <3> HIDE DEF i, l, q, t, o, e, h, g, j, more
    <3>1. [s EXCEPT !.job.part = rot] = StageMade(t, o, i, e, h, g)
      BY <1>1, <2>2 DEF StageMade
    <3> DEFINE u == StageMade(t, o, i, e, h, g)
               v == StageMade(t, o, l, e, h, g)
               w == StageMade(t, o, q, e, h, g)
    <3>2. [u EXCEPT !.job.at = one] = v
      BY <2>2 DEF StageMade
    <3>3. [v EXCEPT !.job.tries = more] = w
      BY <2>2 DEF StageMade
    <3>4. [s EXCEPT !.job.part = rot] = u
      BY <3>1
    <3> HIDE DEF u, v
    <3>5. NextPart(s) = [[[s EXCEPT !.job.part = rot] EXCEPT !.job.at = one]
                            EXCEPT !.job.tries = more]
      BY <2>1
    <3> QED BY <3>2, <3>3, <3>4, <3>5
  <2>4. JobShaped(q) /\ q.at = 1
    BY <1>2, JobMadeIsShaped
  <2> HIDE DEF q
  <2> QED BY <2>3, <2>4, StageMadeIsShaped DEF Ends
<1>7. \/ s.job.part = "lin" \/ s.job.part = "rot"
      \/ s.job.part = "retry" /\ s.job.tries < MAX_ATTEMPTS
      \/ NextPart(s) = Finished(s) \/ NextPart(s) = Failed(s)
  BY DEF NextPart
<1> QED BY <1>3, <1>4, <1>5, <1>6, <1>7

LEMMA InstructionEnds ==
  ASSUME NEW s, StageShaped(s), JobShaped(s.job), s.job.at \in 1..Len(Script(s.job))
  PROVE  Ends(s, Onward(s))
<1>1. CASE ~(s.job.at < Len(Script(s.job)))
  BY <1>1, PartEnds DEF Onward
<1>2. CASE s.job.at < Len(Script(s.job))
  <2> DEFINE j == s.job
             a == s.job.at + 1
             q == JobMade(j.kind, j.to, a, j.tries, j.part, j.marks)
  <2>1. Onward(s) = [s EXCEPT !.job.at = a]
    BY <1>2 DEF Onward
  <2>2. j = JobMade(j.kind, j.to, j.at, j.tries, j.part, j.marks) /\ a \in Nat
        /\ j.part \in Parts
    BY DEF JobShaped
  <2>3. /\ JobShaped(q) /\ q.at = a /\ q.part = j.part /\ q.to = j.to
    BY <2>2, JobMadeIsShaped
  <2>4. [j EXCEPT !.at = a] = q
    <3> HIDE DEF j, a
    <3> QED BY <2>2 DEF JobMade
  <2>5. Onward(s) = StageMade(s.state, s.ops, q, s.error, s.homed, s.origin)
    <3> HIDE DEF a, q
    <3> QED BY <2>1, <2>4 DEF StageShaped, StageMade
  <2> HIDE DEF q
  <2> QED BY <1>2, <2>3, <2>5, StageMadeIsShaped DEF Ends
<1> QED BY <1>1, <1>2

Waiting(j) == JobShaped(j) /\ j.at = 1

StageInv ==
  /\ StageShaped(stage)
  /\ IsSequence(stage.ops) /\ \A j \in Elements(stage.ops) : Waiting(j)
  /\ Working => JobShaped(stage.job) /\ stage.job.at \in 1..Len(Script(stage.job))

AskedAgo(job, d) == job.at - d >= 1 /\ AsksHome(Script(job)[job.at - d])

\* While a home position is awaited, it was asked for, and two instructions later
\* the old one is forgotten.
Asked ==
  ~lost /\ ~tripped /\ Working =>
    /\ \A d \in 1..3 : AskedAgo(stage.job, d) => Asking
    /\ \A d \in 2..3 : AskedAgo(stage.job, d) => Forgotten

StageLinkInv == LinkInv /\ StageInv /\ Asked

\* The steps of the others: the operation goes on, or is gone.
LEMMA OperationStays ==
  ASSUME StageLinkInv, Keeping, StageInv', stage'.job = stage.job \/ stage'.job = NoJob
  PROVE  StageLinkInv'
<1>1. Asked'
  <2> SUFFICES ASSUME ~lost', ~tripped', Working'
               PROVE  /\ \A d \in 1..3 : AskedAgo(stage'.job, d) => Asking'
                      /\ \A d \in 2..3 : AskedAgo(stage'.job, d) => Forgotten'
    BY DEF Asked, AskedAgo
  <2>1. stage'.job = stage.job /\ Working
    BY DEF Working
  <2>2. /\ ~lost /\ ~tripped /\ (Asking => Asking')
        /\ (Asking /\ Forgotten => Forgotten')
    BY DEF Keeping
  <2>3. /\ \A d \in 1..3 : AskedAgo(stage.job, d) => Asking
        /\ \A d \in 2..3 : AskedAgo(stage.job, d) => Forgotten
    BY <2>1, <2>2 DEF StageLinkInv, Asked
  <2>4. \A d \in 2..3 : d \in 1..3
    OBVIOUS
  <2> QED BY <2>1, <2>2, <2>3, <2>4
<1> QED BY <1>1 DEF StageLinkInv, Keeping

LinkStays == UNCHANGED <<axes, inbox, tripped, link, heard, wire, lost>>

LEMMA NothingMoves ==
  ASSUME LinkInv, LinkStays
  PROVE  Keeping /\ LinkInv' /\ (Asking' <=> Asking) /\ (Forgotten' <=> Forgotten)
BY DEF LinkStays, Keeping, LinkInv, Steppers, InboxShaped, LinkShaped, Numbered, Consecutive,
       UnderWay, Asking, Forgotten

LEMMA ScriptsBegin ==
  ASSUME NEW job, JobShaped(job)
  PROVE  Sound(Script(job)) /\ 1 \in 1..Len(Script(job))
<1>1. Sound(Script(job))
  BY ScriptsAreSound DEF JobShaped
<1>2. IsSequence(Script(job)) /\ Script(job) # <<>>
  BY <1>1 DEF Sound
<1> QED BY <1>1, <1>2, SequenceTyped

\* An operation begins.
LEMMA OperationBegins ==
  ASSUME StageLinkInv, LinkStays, StageShaped(stage'), IsSequence(stage'.ops),
         Elements(stage'.ops) \subseteq Elements(stage.ops), Waiting(stage'.job)
  PROVE  StageLinkInv'
<1>1. LinkInv'
  BY NothingMoves DEF StageLinkInv
<1>2. StageInv'
  BY ScriptsBegin DEF StageLinkInv, StageInv, Waiting
<1>3. \A d \in 1..3 : ~AskedAgo(stage'.job, d)
  BY DEF Waiting, AskedAgo
<1>4. \A d \in 2..3 : d \in 1..3
  OBVIOUS
<1>5. Asked'
  BY <1>3, <1>4 DEF Asked, AskedAgo
<1> QED BY <1>1, <1>2, <1>5 DEF StageLinkInv

\* An instruction that gives no commands ends.
LEMMA InstructionPasses ==
  ASSUME StageLinkInv, Working, LinkStays, Instruction.do # "queue",
         Instruction.do = "acked" => Acked,
         NEW s, s.ops = stage.ops, s.job.at = stage.job.at, s.job.part = stage.job.part,
         s.job.to = stage.job.to, Ends(s, stage')
  PROVE  StageLinkInv'
<1> DEFINE a == stage.job.at
           script == Script(stage.job)
<1>1. /\ JobShaped(stage.job) /\ a \in 1..Len(script) /\ a \in Nat
      /\ StageShaped(stage') /\ stage'.ops = stage.ops
      /\ IsSequence(stage.ops) /\ \A j \in Elements(stage.ops) : Waiting(j)
  BY DEF StageLinkInv, StageInv, Ends, JobShaped
<1>2. Sound(script) /\ Instruction = script[a] /\ Len(script) \in Nat
  BY <1>1, ScriptsBegin, SequenceTyped DEF Instruction, Sound
<1>3. Script(s.job) = script
  BY SameScript
<1>4. CASE stage'.job = NoJob
  <2>1. StageInv'
    BY <1>1, <1>4 DEF StageInv, Working
  <2> QED BY <1>4, <2>1, NothingMoves, OperationStays DEF StageLinkInv
<1>5. CASE JobShaped(stage'.job) /\ stage'.job.at = 1
  BY <1>1, <1>5, OperationBegins DEF Waiting
<1>6. CASE /\ JobShaped(stage'.job) /\ stage'.job.at = a + 1 /\ a < Len(script)
           /\ stage'.job.part = stage.job.part /\ stage'.job.to = stage.job.to
  <2>1. Script(stage'.job) = script
    BY <1>6, SameScript
  <2>2. StageInv'
    BY <1>1, <1>2, <1>6, <2>1 DEF StageInv
  <2> HIDE DEF a, script
  <2>3. ASSUME ~lost, ~tripped
        PROVE  /\ ~AskedAgo(stage'.job, 1)
               /\ AskedAgo(stage'.job, 2) => Asking /\ Forgotten
               /\ AskedAgo(stage'.job, 3) => Asking /\ Forgotten
    <3>1. /\ \A d \in 1..3 : AskedAgo(stage.job, d) => Asking
          /\ \A d \in 2..3 : AskedAgo(stage.job, d) => Forgotten
      BY <2>3 DEF StageLinkInv, Asked
    <3>2. /\ AskedAgo(stage'.job, 1) => AsksHome(script[a])
          /\ AskedAgo(stage'.job, 2) => AskedAgo(stage.job, 1)
          /\ AskedAgo(stage'.job, 3) => AskedAgo(stage.job, 2)
      <4>1. (a + 1) - 1 = a /\ (a + 1) - 2 = a - 1 /\ (a + 1) - 3 = a - 2
        BY <1>1
      <4> QED BY <1>6, <2>1, <4>1 DEF AskedAgo, script, a
    <3>3. ~AsksHome(script[a])
      BY <1>2 DEF AsksHome
    <3>4. ASSUME AskedAgo(stage.job, 1) PROVE Forgotten
      <4>1. a - 1 \in 1..Len(script) /\ AsksHome(script[a - 1]) /\ (a - 1) + 1 = a
        BY <1>1, <1>2, <3>4 DEF AskedAgo, a, script
      <4>2. script[a].do = "acked"
        BY <1>2, <4>1 DEF Sound
      <4>3. link.ack >= link.next - 1 /\ Asking
        BY <1>2, <3>1, <3>4, <4>2 DEF Acked
      <4>4. inbox.seq >= link.next - 2
        BY <2>3, <4>3 DEF StageLinkInv, LinkInv, LinkShaped, InboxShaped, Numbered, Consecutive
      <4> QED BY <4>3, <4>4 DEF Asking, Forgotten
    <3>5. 1 \in 1..3 /\ 2 \in 1..3 /\ 2 \in 2..3
      OBVIOUS
    <3> QED BY <3>1, <3>2, <3>3, <3>4, <3>5
  <2>4. Asked'
    <3> SUFFICES ASSUME ~lost', ~tripped'
                 PROVE  /\ \A d \in 1..3 : AskedAgo(stage'.job, d) => Asking'
                        /\ \A d \in 2..3 : AskedAgo(stage'.job, d) => Forgotten'
      BY DEF Asked, AskedAgo
    <3>1. ~lost /\ ~tripped
      BY DEF LinkStays
    <3>2. (Asking' <=> Asking) /\ (Forgotten' <=> Forgotten)
      BY NothingMoves DEF StageLinkInv
    <3>3. \A d \in 1..3 : d = 1 \/ d = 2 \/ d = 3
      OBVIOUS
    <3>4. \A d \in 2..3 : d = 2 \/ d = 3
      OBVIOUS
    <3> QED BY <2>3, <3>1, <3>2, <3>3, <3>4
  <2> QED BY <2>2, <2>4, NothingMoves DEF StageLinkInv
<1> QED BY <1>3, <1>4, <1>5, <1>6 DEF Ends

\* The job has other marks and is the same otherwise.
Remarked(s, r, m) == r = [s EXCEPT !.job.marks = m]

LEMMA OtherMarks ==
  ASSUME NEW s, StageShaped(s), JobShaped(s.job), NEW m, NEW r, Remarked(s, r, m)
  PROVE  /\ StageShaped(r) /\ JobShaped(r.job) /\ r.ops = s.ops
         /\ r.job.at = s.job.at /\ r.job.part = s.job.part /\ r.job.to = s.job.to
<1> DEFINE j == s.job
           k == s.job.kind
           to == s.job.to
           at == s.job.at
           n == s.job.tries
           part == s.job.part
           q == JobMade(k, to, at, n, part, m)
<1>1. j = JobMade(k, to, at, n, part, s.job.marks) /\ part \in Parts /\ at \in Nat
  BY DEF JobShaped
<1>2. [j EXCEPT !.marks = m] = q
  <2> HIDE DEF j, k, to, at, n, part
  <2> QED BY <1>1 DEF JobMade
<1>3. r = StageMade(s.state, s.ops, q, s.error, s.homed, s.origin)
  <2> HIDE DEF q
  <2> QED BY <1>2 DEF Remarked, StageShaped, StageMade
<1>4. JobShaped(q) /\ q.at = at /\ q.part = part /\ q.to = to
  BY <1>1, JobMadeIsShaped
<1> HIDE DEF q
<1>5. StageShaped(r) /\ r.ops = s.ops /\ r.job = q
  <2> DEFINE t == s.state
             o == s.ops
             e == s.error
             h == s.homed
             g == s.origin
  <2>1. r = StageMade(t, o, q, e, h, g)
    BY <1>3
  <2> HIDE DEF t, o, e, h, g
  <2>2. /\ StageShaped(StageMade(t, o, q, e, h, g))
        /\ StageMade(t, o, q, e, h, g).ops = o /\ StageMade(t, o, q, e, h, g).job = q
    BY StageMadeIsShaped
  <2>3. StageShaped(r) /\ r.ops = o /\ r.job = q
    BY <2>1, <2>2
  <2> QED BY <2>3 DEF o
<1> QED BY <1>4, <1>5

\* The job starts over with its part "retry".
Retried(s, r) == r = [s EXCEPT !.job.part = "retry", !.job.at = 1]

LEMMA RetryBegins ==
  ASSUME NEW s, StageShaped(s), JobShaped(s.job), NEW r, Retried(s, r)
  PROVE  Ends(s, r)
<1> DEFINE j == s.job
           k == s.job.kind
           to == s.job.to
           at == s.job.at
           n == s.job.tries
           part == s.job.part
           m == s.job.marks
           retry == "retry"
           one == 1
           i == JobMade(k, to, at, n, retry, m)
           q == JobMade(k, to, one, n, retry, m)
<1>1. j = JobMade(k, to, at, n, part, m) /\ retry \in Parts /\ one \in Nat
  BY DEF JobShaped, Parts
<1>2. [j EXCEPT !.part = retry] = i /\ [i EXCEPT !.at = one] = q
  <2> HIDE DEF j, k, to, at, n, part, m, retry, one
  <2> QED BY <1>1 DEF JobMade
<1>3. JobShaped(q) /\ q.at = 1
  BY <1>1, JobMadeIsShaped
<1> DEFINE u == StageMade(s.state, s.ops, i, s.error, s.homed, s.origin)
<1>4. [s EXCEPT !.job.part = retry] = u
  <2> HIDE DEF i, retry
  <2> QED BY <1>2 DEF StageShaped, StageMade
<1>5. [u EXCEPT !.job.at = one] = StageMade(s.state, s.ops, q, s.error, s.homed, s.origin)
  <2> HIDE DEF i, q, one
  <2> QED BY <1>2 DEF StageMade
<1>6. r = [[s EXCEPT !.job.part = retry] EXCEPT !.job.at = one]
  BY DEF Retried
<1> HIDE DEF u, q
<1>7. r = StageMade(s.state, s.ops, q, s.error, s.homed, s.origin)
  BY <1>4, <1>5, <1>6
<1>8. StageShaped(r) /\ r.ops = s.ops /\ r.job = q
  <2> DEFINE t == s.state
             o == s.ops
             e == s.error
             h == s.homed
             g == s.origin
  <2>1. r = StageMade(t, o, q, e, h, g)
    BY <1>7
  <2> HIDE DEF t, o, e, h, g
  <2>2. /\ StageShaped(StageMade(t, o, q, e, h, g))
        /\ StageMade(t, o, q, e, h, g).ops = o /\ StageMade(t, o, q, e, h, g).job = q
    BY StageMadeIsShaped
  <2>3. StageShaped(r) /\ r.ops = o /\ r.job = q
    BY <2>1, <2>2
  <2> QED BY <2>3 DEF o
<1> QED BY <1>3, <1>8 DEF Ends

LEMMA WaitEndsKeeps ==
  ASSUME StageLinkInv, WaitEnds
  PROVE  StageLinkInv'
<1>1. Working /\ LinkStays /\ Instruction.do # "queue" /\ (Instruction.do = "acked" => Acked)
  BY DEF WaitEnds, Passes, LinkStays, serviceVars, linkVars
<1>2. StageShaped(stage) /\ JobShaped(stage.job) /\ stage.job.at \in 1..Len(Script(stage.job))
  BY <1>1 DEF StageLinkInv, StageInv
<1>3. Ends(stage, stage')
  BY <1>2, InstructionEnds DEF WaitEnds
<1> QED BY <1>1, <1>3, InstructionPasses

LEMMA TakesHomeKeeps ==
  ASSUME StageLinkInv, TakesHome
  PROVE  StageLinkInv'
<1>1. Working /\ LinkStays /\ Instruction.do = "home"
  BY DEF TakesHome, LinkStays, serviceVars, linkVars
<1>2. StageShaped(stage) /\ JobShaped(stage.job) /\ stage.job.at \in 1..Len(Script(stage.job))
  BY <1>1 DEF StageLinkInv, StageInv
<1> DEFINE m == [p \in DOMAIN stage.job.marks |->
                   IF p = Instruction.pass THEN heard.home ELSE stage.job.marks[p]]
           r == [stage EXCEPT !.job.marks = m]
<1>3. stage' = Onward(r)
  BY DEF TakesHome
<1>4. Remarked(stage, r, m)
  BY DEF Remarked
<1> HIDE DEF m, r
<1>5. /\ StageShaped(r) /\ JobShaped(r.job) /\ r.ops = stage.ops
      /\ r.job.at = stage.job.at /\ r.job.part = stage.job.part /\ r.job.to = stage.job.to
  BY <1>2, <1>4, OtherMarks
<1>6. Script(r.job) = Script(stage.job)
  BY <1>5, SameScript
<1>7. Ends(r, stage')
  BY <1>2, <1>3, <1>5, <1>6, InstructionEnds
<1> QED BY <1>1, <1>5, <1>7, InstructionPasses

LEMMA CompareKeeps ==
  ASSUME StageLinkInv, Compare
  PROVE  StageLinkInv'
<1>1. Working /\ LinkStays /\ Instruction.do = "compare"
  BY DEF Compare, LinkStays, serviceVars, linkVars
<1>2. StageShaped(stage) /\ JobShaped(stage.job) /\ stage.job.at \in 1..Len(Script(stage.job))
  BY <1>1 DEF StageLinkInv, StageInv
<1> DEFINE r == [stage EXCEPT !.job.marks = NoMarks]
<1>3. stage' = Onward(r) \/ Retried(r, stage')
  BY DEF Compare, Retried
<1>4. Remarked(stage, r, NoMarks)
  BY DEF Remarked
<1> HIDE DEF r
<1>5. /\ StageShaped(r) /\ JobShaped(r.job) /\ r.ops = stage.ops
      /\ r.job.at = stage.job.at /\ r.job.part = stage.job.part /\ r.job.to = stage.job.to
  BY <1>2, <1>4, OtherMarks
<1>6. Script(r.job) = Script(stage.job)
  BY <1>5, SameScript
<1>7. Ends(r, stage')
  BY <1>2, <1>3, <1>5, <1>6, InstructionEnds, RetryBegins
<1> QED BY <1>1, <1>5, <1>7, InstructionPasses

\* A step that leaves the link alone and the queued operations as they are, or
\* appends one that waits.
LEMMA OthersKeep ==
  ASSUME StageLinkInv, LinkStays, StageShaped(stage'), stage'.job = stage.job,
         IsSequence(stage'.ops),
         \A j \in Elements(stage'.ops) : j \in Elements(stage.ops) \/ Waiting(j)
  PROVE  StageLinkInv'
<1>1. StageInv'
  BY DEF StageLinkInv, StageInv, Working
<1> QED BY <1>1, NothingMoves, OperationStays DEF StageLinkInv

LEMMA OperationFailsKeeps ==
  ASSUME StageLinkInv, OperationFails
  PROVE  StageLinkInv'
<1>1. Working /\ LinkStays /\ stage' = Failed(stage)
  BY DEF OperationFails, LinkStays, serviceVars, linkVars
<1>2. /\ StageShaped(stage) /\ JobShaped(stage.job)
      /\ IsSequence(stage.ops) /\ \A j \in Elements(stage.ops) : Waiting(j)
  BY <1>1 DEF StageLinkInv, StageInv
<1>3. Ends(stage, stage')
  BY <1>1, <1>2, OperationEnds
<1>4. stage'.job = NoJob
  <2> DEFINE none == NoJob
             idle == "idle"
             e == IF Homing(stage.job) THEN TRUE ELSE stage.error
  <2>1. stage' = [stage EXCEPT !.job = none, !.state = idle, !.error = e]
    BY <1>1 DEF Failed
  <2> HIDE DEF none, idle, e
  <2>2. stage'.job = none
    BY <1>2, <2>1 DEF StageShaped, StageMade
  <2> QED BY <2>2 DEF none
<1>5. StageInv'
  BY <1>2, <1>3, <1>4 DEF StageInv, Ends, Working
<1> QED BY <1>1, <1>4, <1>5, NothingMoves, OperationStays DEF StageLinkInv

LEMMA ForgetQueueKeeps ==
  ASSUME StageLinkInv, ForgetQueue
  PROVE  StageLinkInv'
<1> DEFINE off == "offline"
           e == <<>>
<1>1. LinkStays /\ stage' = [stage EXCEPT !.state = off, !.ops = e]
  BY DEF ForgetQueue, LinkStays, serviceVars, linkVars
<1>2. StageShaped(stage)
  BY DEF StageLinkInv, StageInv
<1>3. IsSequence(e) /\ Elements(e) = {}
  BY EmptyWire
<1> HIDE DEF off, e
<1>4. stage' = StageMade(off, e, stage.job, stage.error, stage.homed, stage.origin)
  BY <1>1, <1>2 DEF StageShaped, StageMade
<1>5. StageShaped(stage') /\ stage'.job = stage.job /\ stage'.ops = e
  BY <1>4, StageMadeIsShaped
<1> QED BY <1>1, <1>3, <1>5, OthersKeep

LEMMA ComeBackKeeps ==
  ASSUME StageLinkInv, ComeBack
  PROVE  StageLinkInv'
<1> DEFINE idle == "idle"
<1>1. LinkStays /\ stage' = [stage EXCEPT !.state = idle]
  BY DEF ComeBack, LinkStays, serviceVars, linkVars
<1>2. StageShaped(stage) /\ IsSequence(stage.ops)
  BY DEF StageLinkInv, StageInv
<1> HIDE DEF idle
<1>4. stage' = StageMade(idle, stage.ops, stage.job, stage.error, stage.homed, stage.origin)
  BY <1>1, <1>2 DEF StageShaped, StageMade
<1>5. StageShaped(stage') /\ stage'.job = stage.job /\ stage'.ops = stage.ops
  BY <1>4, StageMadeIsShaped
<1> QED BY <1>1, <1>2, <1>5, OthersKeep

LEMMA PickUpKeeps ==
  ASSUME StageLinkInv, PickUp
  PROVE  StageLinkInv'
<1> DEFINE t == Tail(stage.ops)
           j == Head(stage.ops)
           st == IF Homing(j) THEN "homing" ELSE "moving"
           g == [stage.origin EXCEPT !["rot"] = @ /\ ~Homing(j)]
<1>1. /\ LinkStays /\ stage.ops # <<>>
      /\ stage' = [stage EXCEPT !.ops = t, !.job = j, !.state = st,
                               !.origin["rot"] = @ /\ ~Homing(j)]
  BY DEF PickUp, LinkStays, serviceVars, linkVars
<1>2. /\ StageShaped(stage) /\ IsSequence(stage.ops)
      /\ \A i \in Elements(stage.ops) : Waiting(i)
  BY DEF StageLinkInv, StageInv
<1>3. IsSequence(t) /\ Elements(t) \subseteq Elements(stage.ops) /\ j \in Elements(stage.ops)
  BY <1>1, <1>2, TakenFrom
<1>4. stage' = StageMade(st, t, j, stage.error, stage.homed, g)
  <2> DEFINE x == stage.ops
             w == StageMade(st, t, j, stage.error, stage.homed, stage.origin)
  <2>1. stage' = [[stage EXCEPT !.ops = t, !.job = j, !.state = st]
                     EXCEPT !.origin["rot"] = @ /\ ~Homing(j)]
    BY <1>1
  <2>2. [stage EXCEPT !.ops = t, !.job = j, !.state = st] = w
    <3> DEFINE s == stage
               v == [s EXCEPT !.ops = t, !.job = j, !.state = st]
    <3>1. s = StageMade(s.state, s.ops, s.job, s.error, s.homed, s.origin)
      BY <1>2 DEF StageShaped
    <3>2. v = [s EXCEPT !.ops = t, !.job = j, !.state = st]
      OBVIOUS
    <3> HIDE DEF t, j, st, s, v
    <3>3. v = StageMade(st, t, j, s.error, s.homed, s.origin)
      BY <3>1, <3>2 DEF StageMade
    <3> QED BY <3>3 DEF v, s
  <2>3. [w EXCEPT !.origin["rot"] = @ /\ ~Homing(j)]
          = StageMade(st, t, j, stage.error, stage.homed, g)
    <3> HIDE DEF t, j, st
    <3> QED BY DEF StageMade
  <2> HIDE DEF w, t, j, st, g
  <2> QED BY <2>1, <2>2, <2>3
<1> HIDE DEF t, j, st, g
<1>5. StageShaped(stage') /\ stage'.job = j /\ stage'.ops = t
  BY <1>4, StageMadeIsShaped
<1> QED BY <1>1, <1>2, <1>3, <1>5, OperationBegins

\* The numbers of the commands that are queued.
LEMMA NumbersOfNew ==
  ASSUME LinkShaped, NEW cs, IsSequence(cs), cs # <<>>,
         \A c \in Elements(cs) : c.name \in Names /\ c.axis \in Axes,
         NEW sent, DOMAIN sent = DOMAIN cs, IsSequence(sent),
         \A i \in DOMAIN cs : sent[i].name = cs[i].name /\ sent[i].axis = cs[i].axis,
         link' = Queued(link, sent)
  PROVE  \E new :
           /\ IsSequence(new) /\ Len(new) = Len(cs) /\ Len(cs) \in Nat /\ Len(cs) > 0
           /\ \A i \in 1..Len(cs) : /\ new[i].name = cs[i].name /\ new[i].axis = cs[i].axis
                                   /\ new[i].seq = link.next + i - 1
           /\ \A c \in Elements(new) : Given(c)
           /\ link' = [online |-> link.online, next |-> link.next + Len(cs),
                       ack |-> link.ack, gone |-> link.gone, queue |-> link.queue \o new]
<1> DEFINE n == Len(cs)
           new == [i \in DOMAIN sent |->
                     [name |-> sent[i].name, axis |-> sent[i].axis,
                      arg |-> sent[i].arg, seq |-> link.next + i - 1]]
<1>1. /\ n \in Nat /\ DOMAIN cs = 1..n /\ n > 0 /\ Len(sent) = n
      /\ \A i \in 1..n : cs[i] \in Elements(cs)
  <2>1. DOMAIN cs = 1..Len(cs) /\ Len(cs) \in Nat /\ Len(cs) > 0
        /\ \A i \in 1..Len(cs) : cs[i] \in Elements(cs)
    BY SequenceTyped
  <2>2. DOMAIN sent = 1..Len(sent) /\ Len(sent) \in Nat
    BY SequenceTyped
  <2>3. 1..Len(sent) = 1..Len(cs)
    BY <2>1, <2>2
  <2>4. Len(sent) = Len(cs)
    BY <2>1, <2>2, <2>3
  <2> QED BY <2>1, <2>4
<1>2. \A i \in 1..n : /\ new[i].name = cs[i].name /\ new[i].axis = cs[i].axis
                      /\ new[i].seq = link.next + i - 1
  BY <1>1
<1>3. new = [i \in 1..n |-> new[i]]
  BY <1>1
<1>4. link' = [link EXCEPT !.next = @ + Len(sent), !.queue = @ \o new]
  BY DEF Queued
<1> HIDE DEF new
<1>5. IsSequence(new) /\ Len(new) = n
  BY <1>1, <1>3, FunctionIsSequence
<1>6. \A c \in Elements(new) : Given(c)
  <2> SUFFICES ASSUME NEW c \in Elements(new) PROVE Given(c)
    OBVIOUS
  <2>1. PICK i \in 1..n : new[i] = c
    BY <1>5, SequenceTyped
  <2>2. cs[i] \in Elements(cs) /\ link.next + i - 1 \in Int
    BY <1>1 DEF LinkShaped
  <2> QED BY <1>2, <2>1, <2>2 DEF Given
<1>7. link' = [online |-> link.online, next |-> link.next + n, ack |-> link.ack,
               gone |-> link.gone, queue |-> link.queue \o new]
  <2> DEFINE more == link.next + n
             q == link.queue \o new
  <2>1. link' = [link EXCEPT !.next = more, !.queue = q]
    BY <1>1, <1>4
  <2> HIDE DEF more, q
  <2>2. link' = [online |-> link.online, next |-> more, ack |-> link.ack,
                 gone |-> link.gone, queue |-> q]
    BY <2>1 DEF LinkShaped
  <2> QED BY <2>2 DEF more, q
<1> HIDE DEF n
<1>8. /\ IsSequence(new) /\ Len(new) = Len(cs) /\ Len(cs) \in Nat /\ Len(cs) > 0
      /\ \A i \in 1..Len(cs) : /\ new[i].name = cs[i].name /\ new[i].axis = cs[i].axis
                              /\ new[i].seq = link.next + i - 1
      /\ \A c \in Elements(new) : Given(c)
      /\ link' = [online |-> link.online, next |-> link.next + Len(cs),
                  ack |-> link.ack, gone |-> link.gone, queue |-> link.queue \o new]
  BY <1>1, <1>2, <1>5, <1>6, <1>7 DEF n
<1> QED BY <1>8

\* Commands under way have smaller numbers than the next.
LEMMA OlderNumbers ==
  ASSUME LinkInv, Consecutive
  PROVE  /\ \A c \in UnderWay : c.seq <= link.next - 1
         /\ inbox.seq <= link.next - 1 /\ link.ack <= link.next - 1
<1> DEFINE k == inbox.seq
           n == Len(wire)
           m == Len(link.queue)
<1>1. k \in Int /\ n \in Nat /\ m \in Nat /\ (wire = <<>> <=> n = 0) /\ link.ack \in Int
  BY SequenceTyped DEF LinkInv, LinkShaped, InboxShaped
<1>2. /\ \A i \in 1..n : wire[i].seq = k + i
      /\ \A i \in 1..m : link.queue[i].seq = k + n + i
      /\ link.next = k + n + m + 1
      /\ link.ack <= k \/ (n # 0 /\ link.ack <= k + 1)
  BY <1>1 DEF Consecutive
<1>3. ASSUME NEW c \in Elements(wire) PROVE \E i \in 1..n : wire[i] = c
  BY SequenceTyped DEF LinkInv, LinkShaped
<1>4. ASSUME NEW c \in Elements(link.queue) PROVE \E i \in 1..m : link.queue[i] = c
  BY SequenceTyped DEF LinkInv, LinkShaped
<1> HIDE DEF k, n, m
<1>5. ASSUME NEW c \in Elements(wire) PROVE c.seq <= link.next - 1
  BY <1>1, <1>2, <1>3
<1>6. ASSUME NEW c \in Elements(link.queue) PROVE c.seq <= link.next - 1
  BY <1>1, <1>2, <1>4
<1>7. k <= link.next - 1 /\ link.ack <= link.next - 1
  BY <1>1, <1>2
<1> QED BY <1>5, <1>6, <1>7 DEF UnderWay, k

LEMMA CommandsQueued ==
  ASSUME StageLinkInv, QueueCommands
  PROVE  /\ LinkInv' /\ (~lost' => ~lost)
         /\ ~lost /\ AsksHome(Instruction) => Asking'
<1> DEFINE cs == Instruction.commands
           Number(c) == IF c.from = "none" THEN c.arg ELSE stage.job.marks[c.from]
           sent == [i \in DOMAIN cs |->
                      [name |-> cs[i].name, axis |-> cs[i].axis, arg |-> Number(cs[i])]]
<1>1. /\ Working /\ Instruction.do = "queue" /\ link' = Queued(link, sent)
      /\ UNCHANGED <<axes, inbox, heard, wire, lost>>
  BY DEF QueueCommands
<1>2. Orders(Instruction)
  <2>1. JobShaped(stage.job) /\ stage.job.at \in 1..Len(Script(stage.job))
    BY <1>1 DEF StageLinkInv, StageInv
  <2>2. Sound(Script(stage.job))
    BY <2>1, ScriptsBegin
  <2> QED BY <2>1, <2>2 DEF Sound, Instruction
<1>3. /\ IsSequence(cs) /\ cs # <<>>
      /\ \A c \in Elements(cs) : c.name \in Names /\ c.axis \in Axes
  BY <1>1, <1>2 DEF Orders
<1>4. /\ DOMAIN sent = DOMAIN cs
      /\ \A i \in DOMAIN cs : sent[i].name = cs[i].name /\ sent[i].axis = cs[i].axis
      /\ sent = [i \in DOMAIN cs |-> sent[i]]
  OBVIOUS
<1>5. AsksHome(Instruction) => Len(cs) > 1 /\ cs[Len(cs) - 1] = Home
  BY DEF AsksHome
<1> HIDE DEF cs, sent
<1>6. Len(cs) \in Nat /\ DOMAIN cs = 1..Len(cs)
  BY <1>3, SequenceTyped
<1>7. IsSequence(sent)
  BY <1>4, <1>6, FunctionIsSequence
<1>8. LinkShaped /\ Steppers /\ InboxShaped /\ Numbered
  BY DEF StageLinkInv, LinkInv
<1> DEFINE n == Len(cs)
<1>9. PICK new :
        /\ IsSequence(new) /\ Len(new) = n /\ n \in Nat /\ n > 0
        /\ \A i \in 1..n : /\ new[i].name = cs[i].name /\ new[i].axis = cs[i].axis
                          /\ new[i].seq = link.next + i - 1
        /\ \A c \in Elements(new) : Given(c)
        /\ link' = [online |-> link.online, next |-> link.next + n,
                    ack |-> link.ack, gone |-> link.gone, queue |-> link.queue \o new]
  BY <1>1, <1>3, <1>4, <1>7, <1>8, NumbersOfNew
<1> HIDE DEF n
<1>10. /\ IsSequence(link.queue) /\ IsSequence(wire) /\ link.next \in Nat
       /\ link.ack \in Int /\ link.gone \in Int
  BY <1>8 DEF LinkShaped
<1> DEFINE q == link.queue \o new
<1>11. /\ IsSequence(q) /\ Len(q) = Len(link.queue) + n
       /\ Elements(q) = Elements(link.queue) \cup Elements(new)
       /\ \A i \in 1..Len(link.queue) : q[i] = link.queue[i]
       /\ \A i \in 1..n : q[Len(link.queue) + i] = new[i]
  <2> DEFINE old == link.queue
  <2>1. IsSequence(old) /\ IsSequence(new)
    BY <1>9, <1>10
  <2> HIDE DEF old
  <2>2. /\ IsSequence(old \o new) /\ Len(old \o new) = Len(old) + Len(new)
        /\ Elements(old \o new) = Elements(old) \cup Elements(new)
        /\ \A i \in 1..Len(old) : (old \o new)[i] = old[i]
        /\ \A i \in 1..Len(new) : (old \o new)[Len(old) + i] = new[i]
    BY <2>1, Joined
  <2>3. Len(new) = n
    BY <1>9
  <2> QED BY <2>2, <2>3 DEF old
<1>12. link'.queue = q /\ link'.next = link.next + n /\ link'.ack = link.ack
       /\ link'.gone = link.gone /\ link'.online = link.online
  BY <1>9
<1> HIDE DEF q
<1>13. LinkShaped' /\ UnderWay' = UnderWay \cup Elements(new)
  <2>1. UnderWay' = UnderWay \cup Elements(new)
    BY <1>1, <1>11, <1>12 DEF UnderWay
  <2>2. link' = [online |-> link'.online, next |-> link'.next, ack |-> link'.ack,
                 gone |-> link'.gone, queue |-> link'.queue]
    BY <1>9
  <2>3. link'.next \in Nat
    BY <1>9, <1>10, <1>12
  <2> QED BY <1>1, <1>8, <1>9, <1>10, <1>11, <1>12, <2>1, <2>2, <2>3 DEF LinkShaped
<1>14. ASSUME ~lost PROVE Consecutive'
  <2> DEFINE k == inbox.seq
             w == Len(wire)
             m == Len(link.queue)
  <2>1. /\ Consecutive /\ k \in Int /\ w \in Nat /\ m \in Nat
        /\ link.next = k + w + m + 1 /\ Len(q) = m + n
    BY <1>8, <1>10, <1>11, <1>14, SequenceTyped DEF Numbered, InboxShaped, Consecutive
  <2>2. \A i \in 1..m : q[i].seq = k + w + i
    BY <1>11, <2>1 DEF Consecutive
  <2>3. \A i \in 1..n : q[m + i].seq = link.next + i - 1
    BY <1>9, <1>11
  <2> HIDE DEF k, w, m
  <2>4. \A i \in 1..(m + n) : q[i].seq = k + w + i
    <3> SUFFICES ASSUME NEW i \in 1..(m + n) PROVE q[i].seq = k + w + i
      OBVIOUS
    <3>1. CASE i \in 1..m
      BY <2>2, <3>1
    <3>2. CASE i \notin 1..m
      <4> DEFINE j == i - m
      <4>1. j \in 1..n /\ i = m + j
        BY <1>9, <2>1, <3>2
      <4>2. k + w + i = link.next + j - 1
        BY <1>9, <2>1, <4>1
      <4> HIDE DEF j
      <4> QED BY <2>3, <4>1, <4>2
    <3> QED BY <3>1, <3>2
  <2>5. link.next + n = k + w + (m + n) + 1
    BY <1>9, <2>1
  <2> QED BY <1>1, <1>12, <2>1, <2>4, <2>5 DEF Consecutive, k, w
<1>15. LinkInv'
  BY <1>1, <1>8, <1>13, <1>14 DEF LinkInv, Steppers, InboxShaped, Numbered
<1>16. ASSUME ~lost, AsksHome(Instruction) PROVE Asking'
  <2>1. /\ \A c \in UnderWay : c.seq <= link.next - 1
        /\ inbox.seq <= link.next - 1 /\ link.ack <= link.next - 1
    BY <1>8, <1>16, OlderNumbers DEF StageLinkInv, Numbered
  <2>2. n > 1 /\ cs[n - 1] = Home
    BY <1>5, <1>16 DEF n
  <2>3. inbox.seq \in Int /\ \A c \in UnderWay : c.seq \in Int
    BY <1>8 DEF InboxShaped, LinkShaped, Given
  <2>4. \A c \in UnderWay : c.seq # link.next + n - 2
    BY <1>9, <1>10, <2>1, <2>2, <2>3
  <2>5. inbox.seq < link.next + n - 2 /\ link.ack < link.next + n - 1
    BY <1>9, <1>10, <2>1, <2>2, <2>3
  <2>6. ASSUME NEW c \in Elements(new), c.seq = link.next + n - 2 PROVE ForHome(c)
    <3>1. PICK i \in 1..n : new[i] = c
      BY <1>9, SequenceTyped
    <3>2. link.next + i - 1 = link.next + n - 2
      BY <1>9, <2>6, <3>1
    <3>3. i = n - 1
      BY <1>9, <1>10, <3>2
    <3>4. c.name = Home.name /\ c.axis = Home.axis
      BY <1>9, <2>2, <3>1, <3>3
    <3> QED BY <3>4 DEF ForHome, Home, Command
  <2>7. link'.next - 2 = link.next + n - 2 /\ link'.next - 1 = link.next + n - 1
    BY <1>9, <1>10, <1>12
  <2>8. \A c \in UnderWay' : c.seq = link'.next - 2 => ForHome(c)
    BY <1>13, <2>4, <2>6, <2>7
  <2>9. ~(inbox'.seq >= link'.next - 2) /\ ~(link'.ack >= link'.next - 1)
    <3>1. link.next + n - 2 \in Int /\ link.next + n - 1 \in Int
      BY <1>9, <1>10
    <3> QED BY <1>1, <1>10, <1>12, <2>3, <2>5, <2>7, <3>1
  <2> QED BY <2>8, <2>9 DEF Asking
<1> QED BY <1>1, <1>15, <1>16

LEMMA QueueCommandsKeeps ==
  ASSUME StageLinkInv, QueueCommands
  PROVE  StageLinkInv'
<1> DEFINE a == stage.job.at
           script == Script(stage.job)
<1>1. /\ Working /\ Instruction.do = "queue" /\ stage' = Onward(stage)
      /\ Instruction = script[a]
  BY DEF QueueCommands, Instruction
<1>2. /\ StageShaped(stage) /\ JobShaped(stage.job) /\ a \in 1..Len(script) /\ a \in Nat
      /\ IsSequence(stage.ops) /\ \A j \in Elements(stage.ops) : Waiting(j)
  BY <1>1 DEF StageLinkInv, StageInv, JobShaped
<1>3. Sound(script) /\ Len(script) \in Nat
  BY <1>2, ScriptsBegin, SequenceTyped DEF Sound
<1>4. Ends(stage, stage')
  BY <1>1, <1>2, InstructionEnds
<1>5. /\ LinkInv' /\ (~lost' => ~lost)
      /\ ~lost /\ AsksHome(script[a]) => Asking'
  BY <1>1, CommandsQueued
<1>6. CASE stage'.job = NoJob
  BY <1>2, <1>4, <1>5, <1>6 DEF StageLinkInv, StageInv, Ends, Asked, Working
<1>7. CASE JobShaped(stage'.job) /\ stage'.job.at = 1
  <2>1. StageInv'
    BY <1>2, <1>4, <1>7, ScriptsBegin DEF StageInv, Ends
  <2>2. \A d \in 1..3 : ~AskedAgo(stage'.job, d)
    BY <1>7 DEF AskedAgo
  <2>3. \A d \in 2..3 : d \in 1..3
    OBVIOUS
  <2>4. Asked'
    BY <2>2, <2>3 DEF Asked, AskedAgo
  <2> QED BY <1>5, <2>1, <2>4 DEF StageLinkInv
<1>8. CASE /\ JobShaped(stage'.job) /\ stage'.job.at = a + 1 /\ a < Len(script)
           /\ stage'.job.part = stage.job.part /\ stage'.job.to = stage.job.to
  <2>1. Script(stage'.job) = script
    BY <1>8, SameScript
  <2>2. StageInv'
    BY <1>2, <1>3, <1>4, <1>8, <2>1 DEF StageInv, Ends
  <2> HIDE DEF a, script
  <2>3. /\ AskedAgo(stage'.job, 1) => AsksHome(script[a])
        /\ ~AskedAgo(stage'.job, 2) /\ ~AskedAgo(stage'.job, 3)
    <3>1. (a + 1) - 1 = a /\ (a + 1) - 2 = a - 1 /\ (a + 1) - 3 = a - 2
      BY <1>2
    <3>2. \A k \in 1..Len(script) :
             AsksHome(script[k]) => script[k + 1].do = "acked" /\ script[k + 2].do = "stopped"
      BY <1>3 DEF Sound
    <3>3. AskedAgo(stage'.job, 1) => AsksHome(script[a])
      BY <1>8, <2>1, <3>1 DEF AskedAgo
    <3>4. ~AskedAgo(stage'.job, 2)
      <4>1. AskedAgo(stage'.job, 2) => a - 1 \in 1..Len(script) /\ AsksHome(script[a - 1])
        BY <1>2, <1>3, <1>8, <2>1, <3>1 DEF AskedAgo
      <4>2. (a - 1) + 1 = a
        BY <1>2
      <4> QED BY <1>1, <3>2, <4>1, <4>2
    <3>5. ~AskedAgo(stage'.job, 3)
      <4>1. AskedAgo(stage'.job, 3) => a - 2 \in 1..Len(script) /\ AsksHome(script[a - 2])
        BY <1>2, <1>3, <1>8, <2>1, <3>1 DEF AskedAgo
      <4>2. (a - 2) + 2 = a
        BY <1>2
      <4> QED BY <1>1, <3>2, <4>1, <4>2
    <3> QED BY <3>3, <3>4, <3>5
  <2>4. Asked'
    <3> SUFFICES ASSUME ~lost'
                 PROVE  /\ \A d \in 1..3 : AskedAgo(stage'.job, d) => Asking'
                        /\ \A d \in 2..3 : AskedAgo(stage'.job, d) => Forgotten'
      BY DEF Asked, AskedAgo
    <3>1. \A d \in 1..3 : d = 1 \/ d = 2 \/ d = 3
      OBVIOUS
    <3>2. \A d \in 2..3 : d = 2 \/ d = 3
      OBVIOUS
    <3> QED BY <1>5, <2>3, <3>1, <3>2
  <2> QED BY <1>5, <2>2, <2>4 DEF StageLinkInv
<1> QED BY <1>4, <1>6, <1>7, <1>8 DEF Ends

LEMMA StageAlone ==
  ASSUME StageLinkInv, Keeping, stage' = stage
  PROVE  StageLinkInv'
<1>1. StageInv'
  BY DEF StageLinkInv, StageInv, Working
<1> QED BY <1>1, OperationStays

LEMMA NewJobWaits ==
  ASSUME NEW kind \in {"home", "home_rot", "move"}, NEW to
  PROVE  Waiting(Job(kind, to))
<1> DEFINE part == CASE kind = "home" -> "lin" [] kind = "home_rot" -> "rot"
                     [] kind = "move" -> "move"
           one == 1
           q == JobMade(kind, to, one, one, part, NoMarks)
<1>1. part \in Parts /\ one \in Nat
  BY DEF Parts
<1>2. Job(kind, to) = q
  BY DEF Job, JobMade
<1> HIDE DEF part
<1>3. JobShaped(q) /\ q.at = one
  <2> HIDE DEF one
  <2> QED BY <1>1, JobMadeIsShaped
<1> HIDE DEF q
<1> QED BY <1>2, <1>3 DEF Waiting

LEMMA OperationQueued ==
  ASSUME StageLinkInv, LinkStays, NEW job, Waiting(job), Stages(job)
  PROVE  StageLinkInv'
<1> DEFINE more == Append(stage.ops, job)
<1>1. StageShaped(stage) /\ IsSequence(stage.ops)
  BY DEF StageLinkInv, StageInv
<1>2. IsSequence(more) /\ Elements(more) = Elements(stage.ops) \cup {job}
  BY <1>1, AppendedTo
<1>3. stage' = [stage EXCEPT !.ops = more]
  BY DEF Stages
<1> HIDE DEF more
<1>4. stage' = StageMade(stage.state, more, stage.job, stage.error, stage.homed, stage.origin)
  BY <1>1, <1>3 DEF StageShaped, StageMade
<1>5. StageShaped(stage') /\ stage'.job = stage.job /\ stage'.ops = more
  BY <1>4, StageMadeIsShaped
<1> QED BY <1>2, <1>5, OthersKeep

\* The subsystem, the exposure controller and the clients.
LEMMA SubsystemKeeps ==
  ASSUME StageLinkInv,
         SubsystemStep \/ RunStep \/ WaitedHoming \/ WaitedGoto \/ ClientCalls
  PROVE  StageLinkInv'
<1>1. ASSUME LinkStays, stage' = stage PROVE StageLinkInv'
  BY <1>1, NothingMoves, StageAlone DEF StageLinkInv
<1>2. CASE BeginHoming
  <2>1. LinkStays
    BY <1>2 DEF BeginHoming, LinkStays, serviceVars, linkVars
  <2>2. PICK kind \in {"home", "home_rot", "move"} : Stages(Job(kind, 0))
    BY <1>2 DEF BeginHoming
  <2>3. Waiting(Job(kind, 0))
    BY NewJobWaits
  <2> QED BY <2>1, <2>2, <2>3, OperationQueued
<1>3. ASSUME LinkStays, NEW to, Stages(Job("move", to)) PROVE StageLinkInv'
  <2>1. Waiting(Job("move", to))
    BY NewJobWaits
  <2> QED BY <1>3, <2>1, OperationQueued
<1>4. CASE BeginGoto
  BY <1>3, <1>4 DEF BeginGoto, LinkStays, serviceVars, linkVars
<1>5. CASE BeginSlot
  BY <1>3, <1>5 DEF BeginSlot, LinkStays, serviceVars, linkVars
<1>6. ASSUME NEW o, WriteOffset(o) PROVE StageLinkInv'
  <2>1. LinkStays
    BY <1>6 DEF WriteOffset, LinkStays, serviceVars, linkVars
  <2>2. stage' = stage \/ Stages(Job("move", Pose(exper.target, o)))
    BY <1>6 DEF WriteOffset
  <2> QED BY <1>1, <1>3, <2>1, <2>2
<1>7. ASSUME NEW s, CanStart(s) PROVE StageLinkInv'
  BY <1>1, <1>7 DEF CanStart, LinkStays, serviceVars, linkVars
<1>8. ASSUME NEW kind, NEW s, Call(kind, s) PROVE StageLinkInv'
  BY <1>1, <1>8 DEF Call, LinkStays, serviceVars, linkVars
<1>9. CASE ClientCalls
  BY <1>6, <1>7, <1>8, <1>9 DEF ClientCalls
<1>10. CASE \/ Serve \/ AlreadyThere \/ WaitedSlot \/ CallFails \/ WaitFails
            \/ PublishStart \/ PublishStop
  BY <1>1, <1>10 DEF Serve, AlreadyThere, WaitedSlot, CallFails, WaitFails, PublishStart,
     PublishStop, LinkStays, serviceVars, linkVars
<1>11. CASE RunStep \/ WaitedHoming \/ WaitedGoto
  BY <1>1, <1>11 DEF RunStep, Preinit, Start, Stop, RunLost, WaitedHoming, WaitedGoto,
     LinkStays, serviceVars, linkVars
<1> QED BY <1>2, <1>4, <1>5, <1>9, <1>10, <1>11 DEF SubsystemStep

LEMMA NewStageIsShaped ==
  NewStage.job = NoJob /\ NewStage.ops = <<>> /\ StageShaped(NewStage)
<1> DEFINE idle == "idle"
           e == <<>>
           no == FALSE
           g == [x \in Axes |-> FALSE]
           none == NoJob
<1>1. NewStage = StageMade(idle, e, none, no, no, g)
  BY DEF NewStage, StageMade
<1> HIDE DEF idle, e, no, g, none
<1>2. /\ StageShaped(StageMade(idle, e, none, no, no, g))
      /\ StageMade(idle, e, none, no, no, g).ops = e
      /\ StageMade(idle, e, none, no, no, g).job = none
  BY StageMadeIsShaped
<1> QED BY <1>1, <1>2 DEF e, none

LEMMA FaultKeeps ==
  ASSUME StageLinkInv, Fault
  PROVE  StageLinkInv'
<1>1. LinkInv
  BY DEF StageLinkInv
<1>2. CASE /\ LoseCommand \/ Reorder \/ HearTorn \/ Cut \/ SocketFails
           /\ UNCHANGED <<serviceVars, stageVars>>
  <2>1. UNCHANGED serviceVars /\ stage' = stage
    BY <1>2 DEF stageVars
  <2>2. Keeping
    BY <1>1, <1>2, <2>1, NetworkKeeps, HearKeeps, OfflineKeeps
  <2> QED BY <2>1, <2>2, StageAlone
<1>3. CASE ClientRestarts
  <2>1. Keeping
    BY <1>1, <1>3, RestartKeeps
  <2>2. stage' = NewStage
    BY <1>3 DEF ClientRestarts
  <2>3. stage'.job = NoJob /\ stage'.ops = <<>> /\ StageShaped(stage')
    BY <2>2, NewStageIsShaped
  <2>4. StageInv'
    BY <2>3, EmptyWire DEF StageInv, Working
  <2> QED BY <2>1, <2>3, <2>4, OperationStays
<1>4. CASE StageRestarts
  <2> DEFINE g == [x \in Axes |-> FALSE]
  <2>1. Keeping
    BY <1>1, <1>4, RestartKeeps
  <2>2. stage' = [stage EXCEPT !.origin = g]
    BY <1>4 DEF StageRestarts
  <2>3. StageShaped(stage)
    BY DEF StageLinkInv, StageInv
  <2> HIDE DEF g
  <2>4. stage' = StageMade(stage.state, stage.ops, stage.job, stage.error, stage.homed, g)
    BY <2>2, <2>3 DEF StageShaped, StageMade
  <2>5. StageShaped(stage') /\ stage'.job = stage.job /\ stage'.ops = stage.ops
    BY <2>4, StageMadeIsShaped
  <2>6. StageInv'
    BY <2>5 DEF StageLinkInv, StageInv, Working
  <2> QED BY <2>1, <2>5, <2>6, OperationStays
<1> QED BY <1>2, <1>3, <1>4 DEF Fault

LEMMA LinkStepKeeps ==
  ASSUME StageLinkInv, LinkStep, UNCHANGED stageVars
  PROVE  StageLinkInv'
<1>1. LinkInv /\ stage' = stage
  BY DEF StageLinkInv, stageVars
<1>2. CASE (Send \/ Hear \/ LinkTimesOut \/ Mend) /\ UNCHANGED serviceVars
  BY <1>1, <1>2, SendKeeps, HearKeeps, OfflineKeeps, NetworkKeeps, StageAlone
<1>3. CASE AskConnection
  BY <1>1, <1>3, AskConnectionKeeps, StageAlone
<1>4. CASE Arrive
  BY <1>1, <1>4, ArriveKeeps, StageAlone
<1> QED BY <1>2, <1>3, <1>4 DEF LinkStep

LEMMA StageStepKeeps ==
  ASSUME StageLinkInv, StageStep
  PROVE  StageLinkInv'
BY PickUpKeeps, ForgetQueueKeeps, ComeBackKeeps, QueueCommandsKeeps, WaitEndsKeeps,
   TakesHomeKeeps, CompareKeeps, OperationFailsKeeps DEF StageStep

LEMMA StageSteps ==
  ASSUME StageLinkInv, [Next]_vars
  PROVE  StageLinkInv'
<1>1. CASE ServiceNext(~Working) /\ UNCHANGED <<linkVars, stageVars, events>>
  <2>1. stage' = stage /\ UNCHANGED linkVars
    BY <1>1 DEF stageVars
  <2> QED BY <1>1, <2>1, Unlinked, StageAlone DEF StageLinkInv
<1>2. CASE LinkStep /\ UNCHANGED <<stageVars, events>>
  BY <1>2, LinkStepKeeps
<1>3. CASE StageStep
  BY <1>3, StageStepKeeps
<1>4. CASE SubsystemStep \/ RunStep \/ WaitedHoming \/ WaitedGoto \/ ClientCalls
  BY <1>4, SubsystemKeeps
<1>5. CASE Fault
  BY <1>5, FaultKeeps
<1>6. CASE UNCHANGED vars
  <2>1. LinkStays /\ stage' = stage
    BY <1>6 DEF vars, LinkStays, serviceVars, linkVars, stageVars
  <2> QED BY <2>1, NothingMoves, StageAlone DEF StageLinkInv
<1> QED BY <1>1, <1>2, <1>3, <1>4, <1>5, <1>6 DEF Next

LEMMA StageBegins ==
  ASSUME Init
  PROVE  StageLinkInv
<1>1. wire = <<>> /\ lost = FALSE
  BY DEF Init
<1> DEFINE Begins == /\ Steppers /\ inbox = [seq |-> -1, known |-> inbox.known]
                     /\ link = [online |-> link.online, next |-> 0, ack |-> -1, gone |-> -1,
                                queue |-> <<>>]
                     /\ StageShaped(stage) /\ stage.job = NoJob /\ stage.ops = <<>>
<1>2. ASSUME NewService, link = NewLink, stage = NewStage PROVE Begins
  <2>1. Steppers
    BY <1>2, NewAreShaped DEF NewService, Steppers
  <2> QED BY <1>2, <2>1, NewStageIsShaped DEF NewService, NewInbox, NewLink
<1>3. ASSUME HomedBefore PROVE Begins
  <2> DEFINE one == 1
             yes == TRUE
             no == FALSE
             zero == 0
             a == [NewAxis EXCEPT !.pos = one, !.target = one]
             g == [x \in Axes |-> TRUE]
  <2>1. Stepper(a)
    <3>1. NewAxis = Made(zero, zero, zero, no, no, no, NoHome)
      BY DEF NewAxis, Made
    <3>2. a = [NewAxis EXCEPT !.pos = one, !.target = one]
      OBVIOUS
    <3> HIDE DEF one, no, zero, a
    <3>3. a = Made(one, one, zero, no, no, no, NoHome)
      BY <3>1, <3>2 DEF Made
    <3> QED BY <3>3, MadeIsStepper
  <2>2. axes = [rot |-> NewAxis, lin |-> a]
    BY <1>3 DEF HomedBefore
  <2>3. stage = [NewStage EXCEPT !.homed = yes, !.origin = g]
    BY <1>3 DEF HomedBefore
  <2>4. inbox = [seq |-> -1, known |-> inbox.known]
    BY <1>3 DEF HomedBefore, NewInbox
  <2>5. link = [online |-> link.online, next |-> 0, ack |-> -1, gone |-> -1, queue |-> <<>>]
    BY <1>3 DEF HomedBefore, NewLink
  <2> HIDE DEF a, g, yes
  <2>6. Steppers
    BY <2>1, <2>2, NewAreShaped DEF Steppers, Axes
  <2>7. stage = StageMade(NewStage.state, NewStage.ops, NewStage.job, NewStage.error, yes, g)
    <3> DEFINE s == NewStage
    <3>1. s = StageMade(s.state, s.ops, s.job, s.error, s.homed, s.origin)
      BY NewStageIsShaped DEF StageShaped
    <3>2. stage = [s EXCEPT !.homed = yes, !.origin = g]
      BY <2>3
    <3> HIDE DEF s
    <3>3. stage = StageMade(s.state, s.ops, s.job, s.error, yes, g)
      BY <3>1, <3>2 DEF StageMade
    <3> QED BY <3>3 DEF s
  <2>8. StageShaped(stage) /\ stage.job = NoJob /\ stage.ops = <<>>
    <3> DEFINE s == NewStage
    <3>1. s.job = NoJob /\ s.ops = <<>>
      BY NewStageIsShaped
    <3> HIDE DEF s
    <3>2. stage = StageMade(s.state, s.ops, s.job, s.error, yes, g)
      BY <2>7 DEF s
    <3>3. /\ StageShaped(StageMade(s.state, s.ops, s.job, s.error, yes, g))
          /\ StageMade(s.state, s.ops, s.job, s.error, yes, g).ops = s.ops
          /\ StageMade(s.state, s.ops, s.job, s.error, yes, g).job = s.job
      BY StageMadeIsShaped
    <3> QED BY <3>1, <3>2, <3>3
  <2> QED BY <2>4, <2>5, <2>6, <2>8
<1>4. Begins
  BY <1>2, <1>3 DEF Init
<1> HIDE DEF Begins
<1>5. inbox.seq = -1 /\ InboxShaped
  BY <1>4 DEF Begins, InboxShaped
<1>6. link.next = 0 /\ link.ack = -1 /\ link.gone = -1 /\ link.queue = <<>>
  BY <1>4 DEF Begins
<1>7. LinkShaped
  <2>1. /\ IsSequence(link.queue) /\ IsSequence(wire) /\ UnderWay = {}
    BY <1>1, <1>6, EmptyWire DEF UnderWay
  <2>2. link = [online |-> link.online, next |-> link.next, ack |-> link.ack,
                gone |-> link.gone, queue |-> link.queue]
    BY <1>4 DEF Begins
  <2> QED BY <1>6, <2>1, <2>2 DEF LinkShaped
<1>8. Consecutive
  BY <1>1, <1>5, <1>6, EmptyWire DEF Consecutive
<1>9. StageInv /\ ~Working
  BY <1>4, EmptyWire DEF Begins, StageInv, Working
<1> QED BY <1>4, <1>5, <1>7, <1>8, <1>9 DEF StageLinkInv, LinkInv, Numbered, Asked, Begins

-----------------------------------------------------------------------------

\* While nothing was lost the commands under way are numbered on end, and an
\* operation that is to take a home position has had the old one forgotten by
\* the service and by what the client heard (StepperClient's wait_ack and
\* PiStageController's homing passes).
THEOREM HomesAreForgotten == Spec => []StageLinkInv
BY StageBegins, StageSteps, PTL DEF Spec

\* A home position the client goes by was measured in the pass it asked for, or a
\* command was lost (PiStageController's `__home_rot`).
THEOREM HomesAreFresh == Spec => HomeIsFresh
<1>1. ASSUME StageLinkInv, TakesHome PROVE tripped \/ lost
  <2> SUFFICES ASSUME ~tripped, ~lost PROVE FALSE
    OBVIOUS
  <2> DEFINE a == stage.job.at
             script == Script(stage.job)
  <2>1. Working /\ Instruction.do = "home" /\ heard.home # NoHome
    BY <1>1 DEF TakesHome
  <2>2. JobShaped(stage.job) /\ a \in 1..Len(script) /\ Instruction = script[a]
    BY <1>1, <2>1 DEF StageLinkInv, StageInv, Instruction
  <2>3. Sound(script)
    BY <2>2, ScriptsBegin
  <2>4. a > 3 /\ AsksHome(script[a - 3])
    BY <2>1, <2>2, <2>3 DEF Sound
  <2>5. a - 3 >= 1
    BY <2>2, <2>4 DEF JobShaped
  <2>6. AskedAgo(stage.job, 3) /\ 3 \in 2..3
    BY <2>4, <2>5 DEF AskedAgo
  <2>7. Forgotten
    BY <1>1, <2>1, <2>6 DEF StageLinkInv, Asked
  <2> QED BY <2>1, <2>7 DEF Forgotten
<1>2. StageLinkInv => [TakesHome => tripped \/ lost]_vars
  BY <1>1
<1> QED BY <1>2, HomesAreForgotten, PTL DEF HomeIsFresh
=============================================================================
