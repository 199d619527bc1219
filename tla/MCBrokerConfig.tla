--------------------------- MODULE MCBrokerConfig ---------------------------
(* The three texts of this commit and a committed text the broker cannot    *)
(* load (the password_hash of Step 22).                                     *)
EXTENDS BrokerConfig

CONSTANTS gitText, defsText, pwdText, badText

MCTexts == {gitText, defsText, pwdText, badText}

MCBootable == {gitText, defsText, pwdText}
=============================================================================
