SPECIFICATION Spec
CONSTANTS
  u1 = u1
  u2 = u2
  o1 = o1
  o2 = o2
  o3 = o3
  t1 = t1
  t2 = t2
  b1 = b1
  Tasks = {u1, u2}
  Orders = {o1, o2, o3}
  Tickets = {t1, t2}
  Langs = {"en", "fa"}
  TelegramLang = "fa"
  Bosses = {b1}
  Nothing = Nothing
INVARIANTS WaitsForWhatItAsked AnswersGoWhereAsked LanguageKept
PROPERTIES BlockHolds
SYMMETRY Symmetry
