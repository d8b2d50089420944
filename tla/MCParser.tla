------------------------------ MODULE MCParser ------------------------------
(***************************************************************************)
(* Nine alphabets, each with the tokens of one part of the grammar.        *)
(***************************************************************************)
EXTENDS ParserReference

Precedences ==
    [tokens |-> {"a", "=", "||", "==", "-", "*", "!", "(", ")"},
     length |-> 7, entry |-> "expression"]
Postfixes ==
    [tokens |-> {"a", "(", ")", "[", "]", ",", ".", "RECEIVE"},
     length |-> 7, entry |-> "expression"]
Fields ==
    [tokens |-> {"a", "k", "(", ")", "{", "}", ",", ":", "."},
     length |-> 7, entry |-> "expression"]
Requests ==
    [tokens |-> {"a", "=", "||", "(", ")", "{", "}", "GET"},
     length |-> 7, entry |-> "expression"]
Connections ==
    [tokens |-> {"a", "=", "||", "(", ")", "GET", "TCP", "using", "SEND",
                 "TO"},
     length |-> 7, entry |-> "expression"]
Boundaries ==
    [tokens |-> {"a", "while", "(", ")", "{", "}", ";"},
     length |-> 9, entry |-> "program"]
Signatures ==
    [tokens |-> {"a", "type", "fn", "{", "}", "(", ")", ":", ",", "->"},
     length |-> 9, entry |-> "program"]
Branches ==
    [tokens |-> {"a", "1", "2", "_", "if", "else", "match", "{", "}", "=>"},
     length |-> 9, entry |-> "program"]
Simple ==
    [tokens |-> {"a", "2", "let", "for", "in", "parallel", "break", "return",
                 "{", "}", ":", ";", "="},
     length |-> 8, entry |-> "program"]
MCAlphabets == {Precedences, Postfixes, Fields, Requests, Connections,
                Boundaries, Signatures, Branches, Simple}
=============================================================================
