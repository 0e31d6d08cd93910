------------------------------ MODULE ImageRef ------------------------------
(***************************************************************************)
(* From the name of a service to the image it is created from: what        *)
(* keys.go accepts as a service name, and what normalizeCreateImageRef     *)
(* (client.go) makes of it.  The two read the same text with different     *)
(* rules, so texts are sequences of the marks the rules look at; "x"       *)
(* stands for everything else.                                             *)
(***************************************************************************)
EXTENDS Naturals, SequencesExt

Marks == {"x", "@", "#", ":", "/", " "}

\* What comes with an error.
NoText == <<>>

\* What stands for "sylixos", the system when none is named.
Sylixos == <<"x">>

Has(s, m) == Contains(s, m)

First(s, m) == SelectInSeq(s, LAMBDA x : x = m)
Latest(s, m) == SelectLastInSeq(s, LAMBDA x : x = m)

\* strings.TrimSpace
TrimText(s) ==
  LET first == SelectInSeq(s, LAMBDA x : x # " ") IN
  IF first = 0 THEN <<>> ELSE SubSeq(s, first, SelectLastInSeq(s, LAMBDA x : x # " "))

\* strings.Cut: what comes before the first mark m, and after it.
CutBefore(s, m) == IF Has(s, m) THEN SubSeq(s, 1, First(s, m) - 1) ELSE s
CutAfter(s, m) == IF Has(s, m) THEN SubSeq(s, First(s, m) + 1, Len(s)) ELSE <<>>

ValidServiceName(text) ==
  LET s == TrimText(text) IN
  /\ Has(s, "@") /\ ~Has(s, "/")
  /\ CutBefore(s, "@") # <<>>
  /\ CutAfter(s, "@") # <<>> /\ ~Has(CutAfter(s, "@"), "@")

\* splitDockerStyleImage: name and version, at the last colon after the last slash.
DockerStyle(s) ==
  LET at == Latest(s, ":")
      name == TrimText(SubSeq(s, 1, at - 1))
      version == TrimText(SubSeq(s, at + 1, Len(s)))
  IN IF at <= Latest(s, "/") \/ name = <<>> \/ version = <<>>
       THEN NoText ELSE name \o <<"@">> \o version

\* Mutant: an image named with "@" is looked at like any other.
NormalizeCreateImageRefDocker(text) ==
  LET s == TrimText(text)
      image == TrimText(CutBefore(s, "#"))
  IN IF DockerStyle(image) = NoText THEN NoText
       ELSE DockerStyle(image) \o <<"#">> \o Sylixos

NormalizeCreateImageRef(text) ==
  LET s == TrimText(text)
      image == TrimText(CutBefore(s, "#"))
      system == TrimText(CutAfter(s, "#"))
      os == IF system = <<>> THEN Sylixos ELSE system
  IN CASE Has(image, "@") -> image \o <<"#">> \o os
       [] ~Has(image, "@") /\ DockerStyle(image) = NoText -> NoText
       [] ~Has(image, "@") /\ DockerStyle(image) # NoText -> DockerStyle(image) \o <<"#">> \o os
=============================================================================
