---- MODULE MCLualikePipeline ----
(***************************************************************************)
(* Texts put together from one or two phrases, or from three of the short  *)
(* ones, given to the four entry points.  Among them are every kind of     *)
(* Error of the three stages, empty texts, comments, several lines, and    *)
(* spans of nested operations.                                             *)
(***************************************************************************)
EXTENDS LualikePipeline

Chars(string) == [i \in 1..Len(string) |-> SubSeq(string, i, i)]

MCAlphabetic == {"a", "d", "e", "f", "h", "i", "l", "n", "o", "r", "s", "t", "u", "x", "y"}
MCNumeric == {"0", "1", "2", "9"}
MCDigitValue == "0" :> 0 @@ "1" :> 1 @@ "2" :> 2 @@ "9" :> 9
MCSpaces == {" ", "\n"}
MCOthers == {"?"}

Reserved == {"and", "do", "else", "end", "false", "if", "local", "nil", "not", "or",
             "return", "then", "true"}
MCKeywords ==
    [word \in {Chars(w) : w \in Reserved} |-> CHOOSE w \in Reserved : Chars(w) = word]

MCNames == {Chars("x"), Chars("y"), Chars("a")}
MCStringRank == Chars("") :> 1 @@ Chars("a") :> 2 @@ Chars("a\n") :> 3

Phrases == {"x=1", "local y = x", "if x then y=2 end", "if nil then x=1 else return 1,9 end",
            "return x+nil", "return not (1 -2)", "return -'a' and 1", "return 99",
            "return (x)*2 == 2.9", "return 2 * (1 + '')", "--x\n", "\"a", "2.1.1", "?", ";",
            "then", "(1", "return true or y", "1 < x"}
Short == {"x=1", "local y = x", "if x then y=2 end", "return x+nil", "return true or y",
          "--x\n", ";", "1 < x"}
MCTexts ==
    {Chars("")} \cup {Chars(p) : p \in Phrases}
                \cup {Chars(p) \o Chars("\n") \o Chars(q) : p \in Phrases, q \in Phrases}
                \cup {Chars(p) \o Chars(" ") \o Chars(q) \o Chars(" ") \o Chars(r) :
                         p \in Short, q \in Short, r \in Short}

MCEntries == [function : {"Interpret", "Parse"}, input : {"view", "stream"}]
====
