---------------------------- MODULE MCStringText ----------------------------
EXTENDS StringText

UpTo(A, n) == UNION {[1..k -> A] : k \in 0..n}
Numbers == {<<48>>, <<49>>, <<50>>, <<49, 48>>, <<48, 49>>, <<48, 48>>, <<45, 49>>, <<45, 50>>, <<45, 49, 48>>,
            <<49, 46, 53>>, <<49, 46, 49, 50>>, <<50, 46, 49>>, <<45, 49, 46, 53>>, <<49, 46, 49, 46, 50>>, <<49, 46>>}
MCNatural ==
  {w \in UpTo({97, 48, 49, 46}, 3) : ~\E i \in 1..(Len(w) - 1) : w[i] = 46 /\ w[i + 1] = 48}
  \cup UpTo({50, 32, 45, 66}, 2) \cup Numbers \cup {<<97>> \o n : n \in Numbers}
MCPatterns == UpTo({97, 98, 42, 63, 92}, 4)
MCGlobWords == UpTo({97, 98, 42}, 3) \cup {<<97, 92>>, <<92, 92>>, <<92>>}
MCUtf8 == UpTo({0, 65, 128, 160, 195, 224, 237, 240}, 3) \cup {<<237, 160, 129, 237, 176, 128>>, <<239, 187, 191, 65>>,
          <<244, 143, 191, 191>>, <<244, 144, 128, 128>>, <<240, 143, 128, 128>>, <<240, 157, 132, 158>>, <<65, 237, 160, 129, 237, 176>>,
          <<226, 130, 172, 147>>, <<65, 0, 66, 0>>}
MCFlags == {{}, {"replace"}, {"bom", "replace"}}
MCCodes == UpTo({0, 10, 34, 65, 255}, 4)
=============================================================================
