--------------------------- MODULE ToolCallsProofs ---------------------------
(***************************************************************************)
(* What holds of every policy and every call: a denial stands whatever the *)
(* mode is, and a stricter policy never lets more pass.  And for every set *)
(* of entries, every access rule, policy and command: what a tool call may *)
(* change and tell of, which commands run, and that a retrieval hint is    *)
(* honest.  Inv is inductive: it adds to the properties what the checks    *)
(* before a step have established while it is under way.                   *)
(***************************************************************************)
EXTENDS ToolCalls, TLAPS, WellFoundedInduction, SequenceTheorems

-----------------------------------------------------------------------------
(* Policies                                                                *)

\* What denies, apart from how the policy asks.
SameDenials(p, q) == p.rules = q.rules /\ p.denied_tools = q.denied_tools

\* "Deny wins in every mode": mode, threshold, risks and the treatment of what
\* is unknown make no difference to what is denied.
THEOREM DenyWins ==
  ASSUME NEW p, NEW q, SameDenials(p, q), NEW tool, NEW command,
         Assess(p, tool, command) = "deny"
  PROVE  Assess(q, tool, command) = "deny"
<1>1. tool \in p.denied_tools \/ Judgement(p, tool, command).denied
  BY DEF Assess
<1>2. Judgement(q, tool, command).denied <=> Judgement(p, tool, command).denied
  BY DEF Judgement, SameDenials
<1> QED BY <1>1, <1>2 DEF Assess, SameDenials

\* Denied executables cannot be disguised with a path, a denied argument cannot
\* be put behind others, and no rule that knows a longer beginning of the
\* command as harmless undoes a denial.
THEOREM DenialCannotBeDisguised ==
  ASSUME NEW p, NEW command, command # <<>>,
         NEW i \in DOMAIN p.rules, Denies(p.rules[i], Normalized(command))
  PROVE  Assess(p, "shell", command) = "deny"
<1>1. Shell(p.rules, command).denied
  BY DEF Shell
<1> QED BY <1>1 DEF Assess, Judgement

Asking(mode)     == CASE mode = "never" -> 0 [] mode = "risky" -> 1 [] OTHER -> 2
Strength(answer) == CASE answer = "allow" -> 0 [] answer = "require_approval" -> 1 [] OTHER -> 2

\* q asks at least as often as p, of the same rules and risks.
Stricter(q, p) ==
  /\ q.rules = p.rules /\ q.tool_risks = p.tool_risks
  /\ p.denied_tools \subseteq q.denied_tools
  /\ Asking(q.mode) >= Asking(p.mode)
  /\ q.threshold <= p.threshold
  /\ p.confirm_unknown => q.confirm_unknown

\* A risk is confirmed under q when it is under p.
LEMMA ConfirmsMore ==
  ASSUME NEW p \in Policies, NEW q \in Policies, Stricter(q, p), NEW risk \in Risks,
         Confirms(p, risk)
  PROVE  Confirms(q, risk)
<1>1. /\ p.threshold \in Int /\ q.threshold \in Int /\ risk \in Int
      /\ q.threshold <= p.threshold
  BY DEF Policies, Risks, Stricter
<1>2. CASE risk = Unknown
  BY <1>2 DEF Confirms, Stricter
<1>3. CASE risk # Unknown
  BY <1>1, <1>3 DEF Confirms
<1> QED BY <1>2, <1>3

\* A set of naturals has a least element.
LEMMA LeastNatural ==
  ASSUME NEW T, T \subseteq Nat, T # {}
  PROVE  \E x \in T : \A y \in T : x <= y
<1> DEFINE R == OpToRel(<, Nat)
<1>1. IsWellFoundedOn(R, Nat)
  BY NatLessThanWellFounded
<1>2. PICK x \in T : \A y \in T : ~(<<y, x>> \in R)
  <2> HIDE DEF R
  <2> QED BY <1>1, WFMin
<1>3. \A y \in T : y < x => <<y, x>> \in R
  BY DEF OpToRel
<1> HIDE DEF R
<1>4. ASSUME NEW y \in T PROVE x <= y
  <2>1. ~(y < x)
    BY <1>2, <1>3
  <2>2. y \in Nat /\ x \in Nat
    OBVIOUS
  <2> QED BY <2>1, <2>2
<1> QED BY <1>4

\* The elements of a prefix.
LEMMA PrefixElements ==
  ASSUME NEW S, NEW s \in Seq(S), NEW t \in Seq(S)
  PROVE  IsPrefix(s, t) <=> Len(s) <= Len(t) /\ \A i \in 1..Len(s) : s[i] = t[i]
<1>1. ASSUME Len(s) <= Len(t)
      PROVE  SubSeq(s, 1, Len(s)) = SubSeq(t, 1, Len(s)) <=> \A i \in 1..Len(s) : s[i] = t[i]
  <2> DEFINE n == Len(s)
  <2>1. n \in Nat /\ Len(t) \in Nat /\ n <= Len(t)
    BY <1>1
  <2>2. \A i \in 1..n : s[i] \in S /\ t[i] \in S
    BY <2>1
  <2>3. /\ SubSeq(s, 1, n) \in Seq(S) /\ SubSeq(t, 1, n) \in Seq(S)
        /\ Len(SubSeq(s, 1, n)) = n /\ Len(SubSeq(t, 1, n)) = n
        /\ \A i \in 1..n : SubSeq(s, 1, n)[i] = s[i] /\ SubSeq(t, 1, n)[i] = t[i]
    BY <2>1, <2>2, SubSeqProperties
  <2>4. SubSeq(s, 1, n) = SubSeq(t, 1, n) <=>
          \A i \in 1..n : SubSeq(s, 1, n)[i] = SubSeq(t, 1, n)[i]
    BY <2>3, SeqEqual
  <2> QED BY <2>3, <2>4
<1> QED BY <1>1 DEF IsPrefix

\* A rule and a command as the policy compares them.
LEMMA RuleTyped ==
  ASSUME NEW p \in Policies, NEW i \in DOMAIN p.rules
  PROVE  /\ p.rules[i] \in Rules
         /\ p.rules[i].prefix \in Seq(Words \cup Marks)
         /\ Len(p.rules[i].prefix) \in Nat \ {0}
         /\ p.rules[i].prefix[1] \in Words
<1>1. p.rules[i] \in Rules
  BY DEF Policies
<1>2. p.rules[i].prefix \in Seq(Words) /\ p.rules[i].prefix # <<>>
  BY <1>1 DEF Rules
<1>3. /\ Len(p.rules[i].prefix) \in Nat \ {0}
      /\ \A j \in 1..Len(p.rules[i].prefix) : p.rules[i].prefix[j] \in Words
  BY <1>2
<1>4. p.rules[i].prefix \in Seq(Words \cup Marks)
  BY <1>2
<1> QED BY <1>1, <1>3, <1>4

\* Among rules that match a command one is the longest, and of several as long
\* one is the first.
LEMMA LongestMatches ==
  ASSUME NEW p \in Policies, NEW command \in Commands, Matching(p.rules, command) # {}
  PROVE  \E i \in Matching(p.rules, command) :
            Longest(p.rules, Matching(p.rules, command)) = p.rules[i]
<1> DEFINE matching == Matching(p.rules, command)
           Size(i)  == Len(p.rules[i].prefix)
           Rest(i)  == Len(command) - Size(i)
           Rests    == {Rest(i) : i \in matching}
<1>1. ASSUME NEW i \in matching
      PROVE  i \in Nat /\ Size(i) \in Nat /\ Rest(i) \in Nat
  <2>1. i \in DOMAIN p.rules /\ IsPrefix(p.rules[i].prefix, command)
    BY DEF Matching
  <2>2. i \in Nat /\ Size(i) \in Nat
    BY <2>1, RuleTyped DEF Policies
  <2>3. Len(command) \in Nat /\ Size(i) <= Len(command)
    BY <2>1 DEF IsPrefix, Commands
  <2> QED BY <2>2, <2>3
<1>2. PICK x \in Rests : \A y \in Rests : x <= y
  <2>1. Rests \subseteq Nat /\ Rests # {}
    BY <1>1
  <2> HIDE DEF Rests
  <2> QED BY <2>1, LeastNatural
<1> DEFINE firsts == {i \in matching : Rest(i) = x}
<1>3. PICK k \in firsts : \A i \in firsts : k <= i
  <2>1. firsts \subseteq Nat /\ firsts # {}
    BY <1>1, <1>2
  <2> HIDE DEF firsts
  <2> QED BY <2>1, LeastNatural
<1>4. ASSUME NEW j \in matching
      PROVE  Size(j) < Size(k) \/ (Size(j) = Size(k) /\ k <= j)
  <2>1. k \in matching /\ Rest(k) = x /\ (Rest(j) = x => k <= j)
    BY <1>3
  <2>2. Rest(k) <= Rest(j)
    BY <1>2, <2>1
  <2>3. Size(k) \in Nat /\ Size(j) \in Nat /\ Len(command) \in Nat
    BY <1>1, <2>1 DEF Commands
  <2> HIDE DEF Size, matching
  <2> QED BY <2>1, <2>2, <2>3
<1>5. k \in matching
  BY <1>3
<1> HIDE DEF matching
<1>6. \E i \in matching : Longest(p.rules, matching) = p.rules[i]
  BY <1>4, <1>5 DEF Longest
<1> QED BY <1>6 DEF matching

\* The risk of a tool, and of a command, is one of the risks.
LEMMA RiskTyped ==
  ASSUME NEW p \in Policies, NEW tool \in Tools, NEW command \in Commands
  PROVE  Judgement(p, tool, command).denied \/ Judgement(p, tool, command).risk \in Risks
<1>1. CASE tool # "shell"
  BY <1>1 DEF Judgement, Policies
<1>2. CASE tool = "shell"
  <2> DEFINE matching == Matching(p.rules, command)
             denied   == \E i \in DOMAIN p.rules : Denies(p.rules[i], Normalized(command))
  <2>1. Judgement(p, tool, command) = Shell(p.rules, command)
    BY <1>2 DEF Judgement
  <2>2. Unknown \in Risks
    BY DEF Unknown, Risks
  <2>3. CASE command = <<>> \/ Compound(command) \/ denied \/ matching = {}
    BY <2>1, <2>2, <2>3 DEF Shell
  <2>4. CASE ~(command = <<>> \/ Compound(command) \/ denied \/ matching = {})
    <3>1. Judgement(p, tool, command).risk = Longest(p.rules, matching).risk
      BY <2>1, <2>4 DEF Shell
    <3>2. PICK i \in matching : Longest(p.rules, matching) = p.rules[i]
      BY <2>4, LongestMatches
    <3>3. p.rules[i] \in Rules
      BY RuleTyped DEF Matching
    <3> QED BY <3>1, <3>2, <3>3 DEF Rules
  <2> QED BY <2>3, <2>4
<1> QED BY <1>1, <1>2

\* Rules that deny name a program without a path, as all the default ones do.
BareDenials(p) ==
  \A i \in DOMAIN p.rules :
    p.rules[i].deny => Basename[p.rules[i].prefix[1]] = p.rules[i].prefix[1]

\* What is compared with the rules.
LEMMA NormalizedTyped ==
  ASSUME NEW c \in Commands, c # <<>>, c[1] \in Words
  PROVE  /\ Normalized(c) \in Seq(Words \cup Marks) /\ Len(Normalized(c)) = Len(c)
         /\ Len(c) \in Nat \ {0}
         /\ Normalized(c)[1] = Basename[c[1]]
         /\ \A j \in 2..Len(c) : Normalized(c)[j] = c[j]
<1>1. c \in Seq(Words \cup Marks) /\ Len(c) \in Nat \ {0} /\ DOMAIN c = 1..Len(c)
  BY DEF Commands
<1>2. Basename[c[1]] \in Words
  BY PolicyAssumption
<1>3. Normalized(c) \in Seq(Words \cup Marks) /\ Len(Normalized(c)) = Len(c)
  BY <1>1, <1>2 DEF Normalized
<1> QED BY <1>1, <1>3 DEF Normalized

\* Where denials name bare programs, each is by a rule and for what the command
\* is once its path is gone.
LEMMA DeniedByRule ==
  ASSUME NEW p \in Policies, BareDenials(p), NEW c \in Commands,
         Shell(p.rules, c).denied, ~Compound(c)
  PROVE  /\ c # <<>> /\ c[1] \in Words
         /\ \E i \in DOMAIN p.rules : Denies(p.rules[i], Normalized(c))
<1> DEFINE matching == Matching(p.rules, c)
<1>1. c # <<>>
  BY DEF Shell
<1>2. c[1] \in Words
  BY <1>1 DEF Commands, Compound
<1>3. SUFFICES ASSUME ~\E i \in DOMAIN p.rules : Denies(p.rules[i], Normalized(c))
               PROVE  FALSE
  BY <1>1, <1>2
<1>4. matching # {} /\ Longest(p.rules, matching).deny
  BY <1>1, <1>3 DEF Shell
<1>5. PICK i \in matching : Longest(p.rules, matching) = p.rules[i]
  BY <1>4, LongestMatches
<1>6. i \in DOMAIN p.rules /\ IsPrefix(p.rules[i].prefix, c) /\ p.rules[i].deny
  BY <1>4, <1>5 DEF Matching
<1>7. /\ p.rules[i].prefix \in Seq(Words \cup Marks) /\ Len(p.rules[i].prefix) \in Nat \ {0}
      /\ c \in Seq(Words \cup Marks)
  BY <1>6, RuleTyped DEF Commands
<1>8. c[1] = p.rules[i].prefix[1]
  BY <1>6, <1>7, PrefixElements
<1>9. Basename[c[1]] = c[1]
  BY <1>6, <1>8 DEF BareDenials
<1>10. Normalized(c) = c
  BY <1>7, <1>9 DEF Normalized
<1> QED BY <1>3, <1>6, <1>10 DEF Denies

\* Whatever is added behind a denied command, words or "; another", leaves it
\* denied, though a longer rule may know the whole as harmless.
THEOREM AppendingKeepsDenial ==
  ASSUME NEW p \in Policies, BareDenials(p),
         NEW c \in Commands, NEW d \in Commands, IsPrefix(c, d),
         Assess(p, "shell", c) = "deny"
  PROVE  Assess(p, "shell", d) = "deny"
<1>1. CASE "shell" \in p.denied_tools
  BY <1>1 DEF Assess
<1>2. Len(c) \in Nat /\ Len(d) \in Nat /\ Len(c) <= Len(d) /\ \A j \in 1..Len(c) : c[j] = d[j]
  BY PrefixElements DEF Commands
<1>3. CASE Compound(c)
  <2>1. PICK j \in DOMAIN c : c[j] \in Marks
    BY <1>3 DEF Compound
  <2>2. j \in DOMAIN d /\ d[j] \in Marks
    BY <1>2, <2>1 DEF Commands
  <2>3. d # <<>> /\ Compound(d)
    BY <2>2 DEF Compound
  <2> QED BY <2>3 DEF Assess, Judgement, Shell
<1>4. CASE "shell" \notin p.denied_tools /\ ~Compound(c)
  <2>1. Shell(p.rules, c).denied
    BY <1>4 DEF Assess, Judgement
  <2>2. c # <<>> /\ c[1] \in Words
    BY <1>4, <2>1, DeniedByRule
  <2>3. PICK i \in DOMAIN p.rules : Denies(p.rules[i], Normalized(c))
    BY <1>4, <2>1, DeniedByRule
  <2>4. Len(c) \in Nat \ {0} /\ d # <<>> /\ d[1] = c[1]
    BY <1>2, <2>2 DEF Commands
  <2> DEFINE prefix == p.rules[i].prefix
             old == Normalized(c)
             new == Normalized(d)
  <2>5. /\ prefix \in Seq(Words \cup Marks) /\ Len(prefix) \in Nat \ {0}
        /\ old \in Seq(Words \cup Marks) /\ Len(old) = Len(c)
        /\ new \in Seq(Words \cup Marks) /\ Len(new) = Len(d)
    BY <2>2, <2>4, RuleTyped, NormalizedTyped
  <2>6. \A j \in 1..Len(c) : new[j] = old[j]
    <3>1. new[1] = old[1]
      BY <2>2, <2>4, NormalizedTyped
    <3>2. \A j \in 2..Len(c) : new[j] = old[j]
      BY <1>2, <2>2, <2>4, NormalizedTyped
    <3> QED BY <2>4, <3>1, <3>2
  <2> HIDE DEF prefix, old, new
  <2>7. ASSUME IsPrefix(prefix, old) PROVE Denies(p.rules[i], new)
    <3>1. Len(prefix) <= Len(old) /\ \A j \in 1..Len(prefix) : prefix[j] = old[j]
      BY <2>5, <2>7, PrefixElements
    <3>2. Len(prefix) <= Len(new) /\ \A j \in 1..Len(prefix) : prefix[j] = new[j]
      BY <1>2, <2>5, <2>6, <3>1
    <3>3. IsPrefix(prefix, new)
      BY <2>5, <3>2, PrefixElements
    <3> QED BY <2>3, <3>3 DEF prefix, Denies
  <2>8. ASSUME Len(prefix) = 2, old[1] = prefix[1],
               \E j \in 2..Len(old) : old[j] = prefix[2]
        PROVE  Denies(p.rules[i], new)
    <3>1. PICK j \in 2..Len(c) : old[j] = prefix[2]
      BY <2>5, <2>8
    <3>2. new[1] = prefix[1] /\ new[j] = prefix[2] /\ j \in 2..Len(new)
      BY <1>2, <2>4, <2>5, <2>6, <2>8, <3>1
    <3> QED BY <2>3, <2>8, <3>2 DEF prefix, Denies
  <2>9. Denies(p.rules[i], new)
    BY <2>3, <2>7, <2>8 DEF prefix, old, Denies
  <2> QED BY <2>4, <2>9, DenialCannotBeDisguised DEF new
<1> QED BY <1>1, <1>3, <1>4

\* d has the program of c, perhaps by another path, and the arguments of c
\* among its own.
Elaborates(d, c) ==
  /\ d # <<>> /\ c # <<>>
  /\ \/ d[1] = c[1]
     \/ {d[1], c[1]} \subseteq Words /\ Basename[d[1]] = Basename[c[1]]
  /\ \A j \in 2..Len(c) : \E k \in 2..Len(d) : d[k] = c[j]

\* Where the rules that deny have one or two words, as the default ones do, no
\* path, option or argument put between the words of a denied command lets it
\* pass: /usr/bin/git -C dir push.
THEOREM ElaborationKeepsDenial ==
  ASSUME NEW p \in Policies, BareDenials(p),
         \A i \in DOMAIN p.rules : p.rules[i].deny => Len(p.rules[i].prefix) <= 2,
         NEW c \in Commands, NEW d \in Commands, Elaborates(d, c),
         Assess(p, "shell", c) = "deny"
  PROVE  Assess(p, "shell", d) = "deny"
<1>1. CASE "shell" \in p.denied_tools
  BY <1>1 DEF Assess
<1>2. /\ c \in Seq(Words \cup Marks) /\ Len(c) \in Nat \ {0} /\ DOMAIN c = 1..Len(c)
      /\ d \in Seq(Words \cup Marks) /\ Len(d) \in Nat \ {0} /\ DOMAIN d = 1..Len(d)
      /\ d # <<>> /\ c # <<>>
  BY DEF Commands, Elaborates
<1>3. CASE Compound(c)
  <2>1. PICK j \in 1..Len(c) : c[j] \in Marks
    BY <1>2, <1>3 DEF Compound
  <2>2. \E k \in 1..Len(d) : d[k] = c[j]
    <3>1. CASE j = 1
      <4>1. c[1] \notin Words
        BY <2>1, <3>1, PolicyAssumption
      <4>2. d[1] = c[1]
        BY <4>1 DEF Elaborates
      <4> QED BY <1>2, <3>1, <4>2
    <3>2. CASE j # 1
      <4>1. j \in 2..Len(c)
        BY <1>2, <2>1, <3>2
      <4>2. PICK k \in 2..Len(d) : d[k] = c[j]
        BY <4>1 DEF Elaborates
      <4> QED BY <1>2, <4>2
    <3> QED BY <3>1, <3>2
  <2>3. Compound(d)
    BY <1>2, <2>1, <2>2 DEF Compound
  <2> QED BY <1>2, <2>3 DEF Assess, Judgement, Shell
<1>4. CASE "shell" \notin p.denied_tools /\ ~Compound(c)
  <2>1. Shell(p.rules, c).denied
    BY <1>4 DEF Assess, Judgement
  <2>2. c[1] \in Words
    BY <1>4, <2>1, DeniedByRule
  <2>3. PICK i \in DOMAIN p.rules : Denies(p.rules[i], Normalized(c))
    BY <1>4, <2>1, DeniedByRule
  <2>4. d[1] \in Words /\ Basename[d[1]] = Basename[c[1]]
    BY <2>2 DEF Elaborates
  <2> DEFINE prefix == p.rules[i].prefix
             old == Normalized(c)
             new == Normalized(d)
  <2>5. p.rules[i].deny
    BY <2>3 DEF Denies
  <2>6. prefix \in Seq(Words \cup Marks) /\ Len(prefix) \in 1..2
    <3>1. prefix \in Seq(Words \cup Marks) /\ Len(prefix) \in Nat \ {0} /\ Len(prefix) <= 2
      BY <2>5, RuleTyped
    <3> DEFINE n == Len(prefix)
    <3>2. n \in Nat \ {0} /\ n <= 2
      BY <3>1
    <3> HIDE DEF n
    <3>3. n \in 1..2
      BY <3>2
    <3> QED BY <3>1, <3>3 DEF n
  <2>7. /\ old \in Seq(Words \cup Marks) /\ Len(old) = Len(c)
        /\ new \in Seq(Words \cup Marks) /\ Len(new) = Len(d)
        /\ old[1] = Basename[c[1]] /\ new[1] = Basename[d[1]]
        /\ \A j \in 2..Len(c) : old[j] = c[j]
        /\ \A j \in 2..Len(d) : new[j] = d[j]
    BY <1>2, <2>2, <2>4, NormalizedTyped
  <2>8. new[1] = old[1] /\ \A j \in 2..Len(old) : \E k \in 2..Len(new) : new[k] = old[j]
    BY <2>4, <2>7 DEF Elaborates
  <2> HIDE DEF prefix, old, new
  <2>9. ASSUME IsPrefix(prefix, old) PROVE Denies(p.rules[i], new)
    <3>1. Len(prefix) <= Len(old) /\ \A j \in 1..Len(prefix) : prefix[j] = old[j]
      BY <2>6, <2>7, <2>9, PrefixElements
    <3>2. new[1] = prefix[1]
      BY <2>6, <2>8, <3>1
    <3>3. CASE Len(prefix) = 1
      <4>1. Len(prefix) <= Len(new) /\ \A j \in 1..Len(prefix) : prefix[j] = new[j]
        BY <1>2, <2>7, <3>2, <3>3
      <4>2. IsPrefix(prefix, new)
        BY <2>6, <2>7, <4>1, PrefixElements
      <4> QED BY <2>5, <4>2 DEF prefix, Denies
    <3>4. CASE Len(prefix) = 2
      <4>1. 2 \in 2..Len(old) /\ prefix[2] = old[2]
        BY <1>2, <2>7, <3>1, <3>4
      <4>2. \E k \in 2..Len(new) : new[k] = prefix[2]
        BY <2>8, <4>1
      <4> QED BY <2>5, <3>2, <3>4, <4>2 DEF prefix, Denies
    <3> QED BY <2>6, <3>3, <3>4
  <2>10. ASSUME Len(prefix) = 2, old[1] = prefix[1],
                \E j \in 2..Len(old) : old[j] = prefix[2]
         PROVE  Denies(p.rules[i], new)
    <3>1. new[1] = prefix[1] /\ \E k \in 2..Len(new) : new[k] = prefix[2]
      BY <2>8, <2>10
    <3> QED BY <2>5, <2>10, <3>1 DEF prefix, Denies
  <2>11. Denies(p.rules[i], new)
    BY <2>3, <2>9, <2>10 DEF prefix, old, Denies
  <2> QED BY <1>2, <2>11, DenialCannotBeDisguised DEF new
<1> QED BY <1>1, <1>3, <1>4

\* A policy that asks more often, of the same rules and risks, never lets pass
\* what the other asks for, and never asks for what the other denies.
THEOREM StricterIsSafer ==
  ASSUME NEW p \in Policies, NEW q \in Policies, Stricter(q, p),
         NEW tool \in Tools, NEW command \in Commands
  PROVE  Strength(Assess(q, tool, command)) >= Strength(Assess(p, tool, command))
<1> DEFINE old == Judgement(p, tool, command)
           new == Judgement(q, tool, command)
<1>1. old = new
  BY DEF Judgement, Stricter
<1>2. CASE tool \in q.denied_tools \/ new.denied
  <2>1. Assess(q, tool, command) = "deny"
    BY <1>2 DEF Assess
  <2> QED BY <2>1 DEF Strength
<1>3. CASE ~(tool \in q.denied_tools \/ new.denied)
  <2>1. ~(tool \in p.denied_tools \/ old.denied)
    BY <1>1, <1>3 DEF Stricter
  <2>2. old.risk \in Risks
    BY <2>1, RiskTyped
  <2>3. CASE Assess(p, tool, command) = "allow"
    <3>1. Assess(q, tool, command) \in {"allow", "require_approval", "deny"}
      BY DEF Assess
    <3> QED BY <2>3, <3>1 DEF Strength
  <2>4. CASE Assess(p, tool, command) # "allow"
    <3>1. Assess(p, tool, command) = "require_approval"
      BY <2>1, <2>4 DEF Assess
    <3>2. p.mode = "always" \/ (p.mode = "risky" /\ Confirms(p, old.risk))
      BY <2>1, <3>1 DEF Assess
    <3>3. q.mode = "always" \/ (q.mode = "risky" /\ p.mode = "risky")
      BY <3>2 DEF Stricter, Asking, Policies
    <3>4. q.mode = "always" \/ (q.mode = "risky" /\ Confirms(q, new.risk))
      BY <1>1, <2>2, <3>2, <3>3, ConfirmsMore
    <3>5. Assess(q, tool, command) = "require_approval"
      BY <1>3, <3>4 DEF Assess
    <3> QED BY <3>1, <3>5 DEF Strength
  <2> QED BY <2>3, <2>4
<1> QED BY <1>2, <1>3

-----------------------------------------------------------------------------
(* Calls                                                                   *)

Mutating == call.tool \in {"write_file", "edit_file"}

\* What was resolved and authorized stays so up to the effect.
CheckedInv ==
  /\ control \in {"inspect", "act", "edit"} => call.tool \in FileTools
  /\ control \in {"act", "edit"} /\ call.tool \in {"read_file", "write_file", "edit_file"} =>
       /\ Resolves(call.path)
       /\ Authorized(Canonical(call.path), Mutating)
  /\ control = "act" /\ call.tool = "read_file" => Exists(call.path)
  /\ control = "edit" => call.tool = "edit_file"
  /\ control = "command" => call.tool = "shell" /\ Permitted
  /\ control = "command" => ~Malformed
  /\ control # "idle" => call \in Calls

ShownInv == result.shows \cap Denied = {} /\ result.shows \subseteq Allowed

HintInv ==
  /\ control # "reply" => ~result.hint
  /\ HintHonest

Inv == TypeOK /\ CheckedInv /\ ShownInv /\ HintInv

-----------------------------------------------------------------------------
(* Types                                                                   *)

\* The fields of a call.
LEMMA CallTyped ==
  ASSUME call \in Calls
  PROVE  /\ call.tool \in FileTools \cup {"shell"}
         /\ call.tool \in {"read_file", "write_file", "edit_file"} => call.path \in Names
         /\ Mutating => call.text \in Texts
BY DEF Calls, Reads, Lists, Writes, Shells, FileTools, ReadTools, Mutating

\* The results that tell of nothing.
LEMMA NoResultTyped ==
  /\ NoResult \in Results /\ NoResult.shows = {} /\ ~NoResult.hint
  /\ Failure \in Results /\ Failure.shows = {} /\ ~Failure.hint
BY DEF NoResult, Failure, Results

\* Every step keeps the types.
LEMMA TypeStep ==
  ASSUME TypeOK, CheckedInv, Next
  PROVE  TypeOK'
<1> USE NoResultTyped DEF TypeOK, Goto, Over, Labels, workspace
<1>1. ASSUME NEW c \in Calls, Request(c) PROVE TypeOK'
  BY <1>1 DEF Request
<1>2. CASE RejectCall \/ Return \/ Die
  BY <1>2 DEF RejectCall, Return, Die
<1>3. CASE DenyCall \/ Reject \/ RefuseFile \/ RefuseCommand
  BY <1>3 DEF DenyCall, Reject, RefuseFile, RefuseCommand
<1>4. CASE AskApproval \/ Approve \/ ExecuteCall \/ Inspect \/ ReadForEdit \/ KeepOutput \/ RefuseSpill
  BY <1>4 DEF AskApproval, Approve, ExecuteCall, Inspect, ReadForEdit, KeepOutput, RefuseSpill
<1>5. CASE ReadFile
  <2>1. Canonical(call.path) \in Names /\ files[Canonical(call.path)] \in Texts \cup {Torn}
    BY <1>5 DEF ReadFile, CheckedInv, Exists, Resolves
  <2> HIDE NoResultTyped
  <2>2. result' \in Results
    BY <1>5, <2>1 DEF ReadFile, NoResult, Results
  <2> QED BY <1>5, <2>2 DEF ReadFile
<1>6. CASE ShowEntries
  <2>1. PICK some \in SUBSET Listed :
          result' = [NoResult EXCEPT !.shows = {Canonical(n) : n \in some}]
    BY <1>6 DEF ShowEntries
  <2>2. \A n \in some : Canonical(n) \in Names
    BY DEF Listed, Exists, Resolves
  <2>3. {Canonical(n) : n \in some} \subseteq Names
    BY <2>2
  <2>4. result' \in Results
    BY <2>1, <2>3 DEF NoResult, Results
  <2> QED BY <1>6, <2>4 DEF ShowEntries
<1>7. CASE WriteFile \/ WriteBreaks
  <2>1. call.text \in Texts /\ Writing
    BY <1>7, CallTyped DEF WriteFile, WriteBreaks, Writing, CheckedInv, Mutating
  <2> QED BY <1>7, <2>1 DEF WriteFile, WriteBreaks
<1>8. CASE RunCommand
  <2>1. files' \in [Names -> Texts \cup {Absent, Torn}] /\ links' \in [Names -> Names \cup {Outside, None}]
    BY <1>8 DEF RunCommand
  <2>2. result' \in Results
    BY <1>8 DEF RunCommand, NoResult, Results
  <2> QED BY <1>8, <2>1, <2>2 DEF RunCommand
<1>9. CASE ReuseArtifact \/ WriteArtifact \/ SpillBreaks
  <2>1. files' \in [Names -> Texts \cup {Absent, Torn}]
    <3>1. CASE ReuseArtifact
      BY <3>1 DEF ReuseArtifact
    <3>2. CASE WriteArtifact
      <4>1. result.text \in Texts
        BY <3>2, ToolAssumption DEF WriteArtifact, Spilling
      <4> QED BY <3>2, <4>1 DEF WriteArtifact
    <3>3. CASE SpillBreaks
      BY <3>3 DEF SpillBreaks
    <3> QED BY <1>9, <3>1, <3>2, <3>3
  <2>2. result' \in Results
    <3>1. CASE ReuseArtifact
      BY <3>1 DEF ReuseArtifact, Results
    <3>2. CASE WriteArtifact
      BY <3>2 DEF WriteArtifact, Results
    <3>3. CASE SpillBreaks
      BY <3>3 DEF SpillBreaks, Results
    <3> QED BY <1>9, <3>1, <3>2, <3>3
  <2> QED BY <1>9, <2>1, <2>2 DEF ReuseArtifact, WriteArtifact, SpillBreaks
<1> QED BY <1>1, <1>2, <1>3, <1>4, <1>5, <1>6, <1>7, <1>8, <1>9 DEF Next

-----------------------------------------------------------------------------
(* What the checks establish                                               *)

\* What was checked before a step still holds when it takes effect.
LEMMA CheckedStep ==
  ASSUME TypeOK, CheckedInv, Next
  PROVE  CheckedInv'
<1> USE DEF Goto, Over, workspace
<1>1. ASSUME NEW c \in Calls, Request(c) PROVE CheckedInv'
  BY <1>1 DEF Request, CheckedInv
<1>2. CASE RejectCall \/ Return \/ Die \/ WriteBreaks
  BY <1>2 DEF RejectCall, Return, Die, WriteBreaks, CheckedInv
<1>3. CASE DenyCall \/ Reject \/ RefuseFile \/ RefuseCommand
  BY <1>3 DEF DenyCall, Reject, RefuseFile, RefuseCommand, CheckedInv
<1>4. CASE AskApproval \/ Approve \/ KeepOutput \/ RefuseSpill \/ ReadFile \/ ShowEntries
  <2>1. /\ control' \in {"waiting", "assess", "reply", "output"} /\ call' = call
        /\ call \in Calls
    BY <1>4 DEF AskApproval, Approve, KeepOutput, RefuseSpill, ReadFile, ShowEntries, CheckedInv,
       Spilling
  <2> QED BY <2>1 DEF CheckedInv
<1>5. CASE ExecuteCall
  <2>1. call \in Calls /\ call' = call /\ control = "assess"
    BY <1>5 DEF ExecuteCall, CheckedInv
  <2>2. call.tool # "shell" => call.tool \in FileTools
    BY <2>1, CallTyped
  <2>3. Permitted /\ ~Malformed /\ Permitted' = Permitted /\ Malformed' = Malformed
    BY <1>5 DEF ExecuteCall, Permitted, Malformed, Verdict
  <2>4. control' = IF call.tool = "shell" THEN "command" ELSE "inspect"
    BY <1>5 DEF ExecuteCall
  <2> QED BY <2>1, <2>2, <2>3, <2>4 DEF CheckedInv
<1>6. CASE Inspect
  BY <1>6 DEF Inspect, CheckedInv, Resolves, Exists, Canonical, Authorized, ReadOnly, Mutating
<1>7. CASE ReadForEdit
  BY <1>7 DEF ReadForEdit, CheckedInv, Resolves, Exists, Canonical, Authorized, ReadOnly, Mutating
<1>8. CASE WriteFile \/ RunCommand \/ ReuseArtifact \/ WriteArtifact \/ SpillBreaks
  BY <1>8 DEF WriteFile, RunCommand, ReuseArtifact, WriteArtifact, SpillBreaks, Spilling, Writing,
     CheckedInv
<1> QED BY <1>1, <1>2, <1>3, <1>4, <1>5, <1>6, <1>7, <1>8 DEF Next

-----------------------------------------------------------------------------
(* What results tell                                                       *)

\* Only accessible entries get into a result.
LEMMA ShownStep ==
  ASSUME TypeOK, CheckedInv, ShownInv, Next
  PROVE  ShownInv'
<1> USE NoResultTyped DEF Over
<1>1. ASSUME NEW c \in Calls, Request(c) PROVE ShownInv'
  BY <1>1 DEF Request, ShownInv
<1>2. CASE RejectCall \/ Return \/ Die \/ WriteBreaks \/ WriteFile
  BY <1>2 DEF RejectCall, Return, Die, WriteBreaks, WriteFile, ShownInv
<1>3. CASE DenyCall \/ Reject \/ RefuseFile \/ RefuseCommand
  BY <1>3 DEF DenyCall, Reject, RefuseFile, RefuseCommand, ShownInv
<1>4. CASE AskApproval \/ Approve \/ ExecuteCall \/ Inspect \/ ReadForEdit \/ KeepOutput \/ RefuseSpill
  BY <1>4 DEF AskApproval, Approve, ExecuteCall, Inspect, ReadForEdit, KeepOutput, RefuseSpill,
     ShownInv
<1>5. CASE ReadFile
  <2>1. result'.shows = {Canonical(call.path)}
    BY <1>5 DEF ReadFile, NoResult
  <2>2. Authorized(Canonical(call.path), Mutating)
    BY <1>5 DEF ReadFile, CheckedInv
  <2> QED BY <2>1, <2>2 DEF Authorized, ShownInv
<1>6. CASE ShowEntries
  <2>1. PICK some \in SUBSET Listed :
          result' = [NoResult EXCEPT !.shows = {Canonical(n) : n \in some}]
    BY <1>6 DEF ShowEntries
  <2>2. \A n \in some : Canonical(n) \notin Denied /\ Canonical(n) \in Allowed
    BY DEF Listed, Authorized
  <2>3. result'.shows = {Canonical(n) : n \in some}
    BY <2>1 DEF NoResult
  <2> QED BY <2>2, <2>3 DEF ShownInv
<1>7. CASE RunCommand
  <2>1. result'.shows = {}
    BY <1>7 DEF RunCommand, NoResult
  <2> QED BY <2>1 DEF ShownInv
<1>8. CASE ReuseArtifact \/ WriteArtifact \/ SpillBreaks
  <2>1. result'.shows = result.shows \/ result' = NoResult
    BY <1>8 DEF ReuseArtifact, WriteArtifact, SpillBreaks, TypeOK, Results
  <2> QED BY <2>1 DEF ShownInv
<1> QED BY <1>1, <1>2, <1>3, <1>4, <1>5, <1>6, <1>7, <1>8 DEF Next

\* A hint is given in the step that found or wrote the artifact.
LEMMA HintStep ==
  ASSUME TypeOK, HintInv, Next
  PROVE  HintInv'
<1> USE NoResultTyped DEF Over, Goto
<1>1. ASSUME NEW c \in Calls, Request(c) PROVE HintInv'
  BY <1>1 DEF Request, HintInv, HintHonest
<1>2. CASE RejectCall \/ Return \/ Die \/ WriteBreaks \/ WriteFile
  BY <1>2 DEF RejectCall, Return, Die, WriteBreaks, WriteFile, HintInv, HintHonest
<1>3. CASE DenyCall \/ Reject \/ RefuseFile \/ RefuseCommand
  BY <1>3 DEF DenyCall, Reject, RefuseFile, RefuseCommand, HintInv, HintHonest
<1>4. CASE AskApproval \/ Approve \/ ExecuteCall \/ Inspect \/ ReadForEdit \/ KeepOutput \/ RefuseSpill
  BY <1>4 DEF AskApproval, Approve, ExecuteCall, Inspect, ReadForEdit, KeepOutput, RefuseSpill,
     Spilling, HintInv, HintHonest
<1>5. CASE ReadFile \/ ShowEntries \/ RunCommand
  <2>1. ~result'.hint /\ control' = "output"
    BY <1>5 DEF ReadFile, ShowEntries, RunCommand, NoResult
  <2> QED BY <2>1 DEF HintInv, HintHonest
<1>6. CASE ReuseArtifact
  <2>1. /\ result.text \in Huge /\ links[Place] = None /\ files[Place] = result.text
        /\ result'.text = result.text /\ UNCHANGED <<files, links>> /\ control' = "reply"
    BY <1>6 DEF ReuseArtifact, Spilling, Differs, TypeOK, Results, workspace
  <2> QED BY <2>1 DEF HintInv, HintHonest, Place
<1>7. CASE WriteArtifact
  <2>1. /\ result.text \in Huge /\ links[Place] = None
        /\ files' = [files EXCEPT ![Place] = result.text]
        /\ result'.text = result.text /\ links' = links /\ control' = "reply"
    BY <1>7 DEF WriteArtifact, Spilling, TypeOK, Results
  <2>2. Place \in Names
    BY <2>1, ToolAssumption DEF Place
  <2>3. files'[Place] = result.text
    BY <2>1, <2>2 DEF TypeOK
  <2> QED BY <2>1, <2>3 DEF HintInv, HintHonest, Place
<1>8. CASE SpillBreaks
  BY <1>8 DEF SpillBreaks, Spilling, HintInv, HintHonest
<1> QED BY <1>1, <1>2, <1>3, <1>4, <1>5, <1>6, <1>7, <1>8 DEF Next

-----------------------------------------------------------------------------
(* The invariant, and what follows                                         *)

\* The invariant holds initially.
LEMMA InitInv == Init => Inv
<1> SUFFICES ASSUME Init PROVE Inv
  OBVIOUS
<1>1. TypeOK
  <2>1. files \in [Names -> Texts \cup {Absent, Torn}]
    BY DEF Init
  <2> QED BY <2>1, NoResultTyped DEF Init, TypeOK, Labels
<1>2. CheckedInv /\ ShownInv /\ HintInv
  BY NoResultTyped DEF Init, CheckedInv, ShownInv, HintInv, HintHonest
<1> QED BY <1>1, <1>2 DEF Inv

\* No step leaves the invariant.
LEMMA NextInv == Inv /\ [Next]_vars => Inv'
<1> SUFFICES ASSUME Inv, [Next]_vars PROVE Inv'
  OBVIOUS
<1>1. CASE Next
  BY <1>1, TypeStep, CheckedStep, ShownStep, HintStep DEF Inv
<1>2. CASE UNCHANGED vars
  BY <1>2 DEF vars, workspace, Inv, TypeOK, CheckedInv, ShownInv, HintInv, HintHonest, Resolves,
     Exists, Canonical, Authorized, ReadOnly, Mutating, Permitted, Malformed, Verdict
<1> QED BY <1>1, <1>2

\* Inv holds in every reachable state.
THEOREM ToolInvariant == Spec => []Inv
BY InitInv, NextInv, PTL DEF Spec

\* Every part of the state keeps its type.
THEOREM ToolTypes == Spec => []TypeOK
<1>1. Inv => TypeOK
  BY DEF Inv
<1> QED BY <1>1, ToolInvariant, PTL

\* No file tool tells of an entry that its access rules withhold, by whatever
\* name the entry was reached.
THEOREM AccessibleOnly == Spec => []ShowsAccessible
<1>1. Inv => ShowsAccessible
  BY DEF Inv, ShownInv, ShowsAccessible
<1> QED BY <1>1, ToolInvariant, PTL

\* A retrieval hint leads to the whole output.
THEOREM HintsAreHonest == Spec => []HintHonest
<1>1. Inv => HintHonest
  BY DEF Inv, HintInv
<1> QED BY <1>1, ToolInvariant, PTL

\* A command about to run is made of words alone, and no rule denies it, in any
\* mode and whoever approved it.
THEOREM CommandsAreJudged == Spec => []CommandsJudged
<1> SUFFICES Inv => CommandsJudged
  BY ToolInvariant, PTL
<1> SUFFICES ASSUME Inv, control = "command" PROVE CommandsJudged
  BY DEF CommandsJudged
<1>1. call.tool = "shell" /\ Permitted /\ ~Malformed /\ call \in Calls
  BY DEF Inv, CheckedInv
<1>2. call.by # "explorer" /\ Verdict # "deny"
  BY <1>1 DEF Permitted, ReadTools
<1>3. Assess(policy, "shell", call.command) # "deny"
  BY <1>1, <1>2 DEF Verdict
<1>4. call.command \in Commands /\ call.command # <<>>
  <2>1. call \in Shells
    BY <1>1 DEF Calls, Reads, Lists, Writes
  <2>2. call.command \in Inputs /\ (call.by = "verification" => call.command # <<>>)
    BY <2>1 DEF Shells
  <2>3. call.by \in {"agent", "explorer", "verification"}
    BY <2>1 DEF Shells
  <2> QED BY <1>1, <1>2, <2>2, <2>3, ToolAssumption DEF Malformed
<1>5. ~Compound(call.command)
  BY <1>3, <1>4 DEF Assess, Judgement, Shell
<1>6. \A i \in DOMAIN call.command : call.command[i] \in Words
  BY <1>4, <1>5 DEF Compound, Commands
<1>7. ASSUME NEW r \in DOMAIN policy.rules, policy.rules[r].deny
      PROVE  LET prefix == policy.rules[r].prefix
                 words  == Normalized(call.command)
             IN /\ ~IsPrefix(prefix, words)
                /\ ~(/\ Len(prefix) = 2 /\ words[1] = prefix[1]
                     /\ \E i \in 2..Len(words) : words[i] = prefix[2])
  <2>1. ~Denies(policy.rules[r], Normalized(call.command))
    BY <1>3, <1>4, DenialCannotBeDisguised
  <2> QED BY <1>7, <2>1 DEF Denies
<1>8. ASSUME policy.mode = "always", call.by = "agent" PROVE approved
  <2>1. Verdict # "allow"
    BY <1>8 DEF Verdict, Assess
  <2> QED BY <1>1, <1>8, <2>1 DEF Permitted
<1> QED BY <1>2, <1>6, <1>7, <1>8 DEF CommandsJudged, Normalized

\* A step of the agent's that is no command keeps protected entries, and a step
\* of the explorer's keeps all.
LEMMA GuardedStep ==
  ASSUME Inv, Next
  PROVE  \A n \in Names : files'[n] # files[n] =>
           control = "command" \/ (n \notin Protected /\ call.by # "explorer")
<1>1. CASE UNCHANGED files
  BY <1>1
<1>2. CASE WriteFile \/ WriteBreaks
  <2>1. PICK content : files' = [files EXCEPT ![Canonical(call.path)] = content]
    BY <1>2 DEF WriteFile, WriteBreaks
  <2>2. Writing
    BY <1>2 DEF WriteFile, WriteBreaks
  <2>3. Authorized(Canonical(call.path), TRUE)
    BY <2>2 DEF Writing, Inv, CheckedInv, Mutating
  <2>4. \A n \in Names : files'[n] # files[n] => n = Canonical(call.path)
    BY <2>1 DEF Inv, TypeOK
  <2> QED BY <2>3, <2>4 DEF Authorized, ReadOnly
<1>3. CASE WriteArtifact \/ SpillBreaks
  <2>1. PICK content : files' = [files EXCEPT ![Place] = content]
    BY <1>3 DEF WriteArtifact, SpillBreaks
  <2>2. Spilling
    BY <1>3 DEF WriteArtifact, SpillBreaks
  <2>3. Place \in Names \ Protected /\ call.by # "explorer"
    BY <2>2, ToolAssumption DEF Spilling, Place
  <2>4. \A n \in Names : files'[n] # files[n] => n = Place
    BY <2>1 DEF Inv, TypeOK
  <2> QED BY <2>3, <2>4
<1>4. CASE RunCommand
  BY <1>4 DEF RunCommand
<1>5. UNCHANGED files \/ WriteFile \/ WriteBreaks \/ WriteArtifact \/ SpillBreaks \/ RunCommand
  BY DEF Next, Request, RejectCall, DenyCall, AskApproval, Approve, Reject, ExecuteCall, RefuseFile,
     Inspect, ReadFile, ShowEntries, ReadForEdit, RefuseCommand, KeepOutput, RefuseSpill,
     ReuseArtifact, Return, Die, workspace
<1> QED BY <1>1, <1>2, <1>3, <1>4, <1>5

\* Whatever names links give it, a protected entry changes only while a command
\* runs, and the explorer changes nothing.
THEOREM WritesAreGuarded == Spec => WritesGuarded
<1>1. Inv /\ [Next]_vars =>
        [\A n \in Names : files'[n] # files[n] =>
           control = "command" \/ (n \notin Protected /\ call.by # "explorer")]_workspace
  BY GuardedStep DEF vars, workspace
<1> QED BY <1>1, ToolInvariant, PTL DEF Spec, WritesGuarded

=============================================================================
