SPECIFICATION PagingSpec
CONSTANTS
  sales = sales
  spam = spam
  email = email
  topic = topic
  classification = classification
  FieldsOf <- MCFieldsOf
  Appended <- MCAppended
  Unknown = spam
  NoFilter = NoFilter
  NoCursor = NoCursor
  Ids = {1, 2, 3}
  MaxTime = 1
  Classes <- MCClasses
  Walks = {w1}
  Limit = 1
INVARIANT ExportIsComplete
