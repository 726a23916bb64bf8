SPECIFICATION Spec

CONSTANTS
  Path <- Place
  ReservedName = {"CON"}
  Requests <- Request
  Word = {"a", "b", "s", "md", "CON"}
  MaxWrong = 2

INVARIANTS
  EveryAnswerIsCatalogued
  FrontsAgree
  OutputsLandInPlace
